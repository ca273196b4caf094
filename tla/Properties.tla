----------------------------- MODULE Properties -----------------------------
(***************************************************************************)
(* The properties of the nodes of the client's tree (tree/tree.js): those  *)
(* a node has of its own, and under them those of its type, its proto; and *)
(* the listener that makes the most of them, tree/tree.keyshortcut.js: the *)
(* property key of a node is the shortcut that activates it.               *)
(*                                                                         *)
(* A change of the type changes the proto inside the same call, so what an *)
(* operation does is a value: s is [own, proto, told, keys, bare], the     *)
(* operators answer the next one.                                          *)
(***************************************************************************)
CONSTANTS
  Item,        \* nodes
  Types,       \* [type -> the properties it gives], DefaultType among them
  DefaultType, \* of the schema of type: the type of a node without one
  Key,         \* values of the property key
  Undefined

VARIABLES
  s,       \* own and proto: [Item -> [set of names -> values]]; told: what the
           \* listeners were told last; keys: [Key -> Item or Undefined];
           \* bare: the properties of each node that were removed over those of
           \* its type and that no listener was told of since (a history)
  created, inside, \* the nodes that exist, those in the tree
  hadKey,  \* the keys each node had
  fired    \* the node the last press of a key activated

vars == <<s, created, inside, hadKey, fired>>

Prop == {"type", "key"}
Values(name) == IF name = "type" THEN DOMAIN Types ELSE Key

\* What a type gives are values of properties.
PropertiesAssumption ==
  /\ Undefined \notin Item \union Key \union DOMAIN Types
  /\ DefaultType \in DOMAIN Types
  /\ \A t \in DOMAIN Types :
       /\ DOMAIN Types[t] \subseteq Prop /\ Types[t] \in [DOMAIN Types[t] -> Key \union DOMAIN Types]
       /\ \A name \in DOMAIN Types[t] : Types[t][name] \in Values(name)

NoProperties == [name \in {} |-> Undefined]
With(f, name, v) == [x \in DOMAIN f \union {name} |-> IF x = name THEN v ELSE f[x]]
Without(f, name) == [x \in DOMAIN f \ {name} |-> f[x]]

has(f, name) == name \in DOMAIN f
read(f, name) == IF has(f, name) THEN f[name] ELSE Undefined
get(t, n, name) == IF has(t.own[n], name) THEN t.own[n][name] ELSE read(t.proto[n], name)

calcProto(own) == IF has(own, "type") THEN Types[own["type"]] ELSE Types[DefaultType]

hidden(t, n, name) == has(t.own[n], name)
dropped(t, n, proto) == DOMAIN t.proto[n] \ DOMAIN proto

\* The listeners that draw the node, and 'change:key': the new key is
\* listened to; without one removeKey looks for a property that is gone.
tell(t, n, name, v) ==
  [t EXCEPT !.told[n][name] = v, !.bare[n] = @ \ {name},
            !.keys = IF name = "key" /\ v # Undefined THEN [@ EXCEPT ![v] = n] ELSE @]

\* Mutant: what the node had not yet is not told.
setProto_first(t, n, name, v) ==
  LET u == [t EXCEPT !.proto[n] = With(@, name, v)]
  IN IF hidden(t, n, name) \/ read(t.proto[n], name) \in {v, Undefined} THEN u ELSE tell(u, n, name, v)

setProto(t, n, name, v) ==
  IF read(t.proto[n], name) = v THEN t
  ELSE LET u == [t EXCEPT !.proto[n] = With(@, name, v)]
       IN IF hidden(t, n, name) THEN u ELSE tell(u, n, name, v)

removeProto(t, n, name) ==
  LET u == [t EXCEPT !.proto[n] = Without(@, name)]
  IN IF hidden(t, n, name) THEN u ELSE tell(u, n, name, Undefined)

\* eachPair: the type before the key.
eachPair(t, names, do(_, _)) ==
  LET u == IF "type" \in names THEN do(t, "type") ELSE t
  IN IF "key" \in names THEN do(u, "key") ELSE u

updateProto(t, n) ==
  LET proto == calcProto(t.own[n])
      remove(u, name) == removeProto(u, n, name)
      replace(u, name) == setProto(u, n, name, proto[name])
  IN eachPair(eachPair(t, dropped(t, n, proto), remove), DOMAIN proto, replace)

\* What is removed is told as such, whatever the proto has.
propertyChange(t, n, name, v) ==
  LET u == [tell(t, n, name, v) EXCEPT
              !.bare[n] = IF v = Undefined /\ has(t.proto[n], name) THEN @ \union {name} ELSE @]
  IN IF name = "type" THEN updateProto(u, n) ELSE u

-----------------------------------------------------------------------------
Blank == [n \in Item |-> NoProperties]

Init ==
  /\ s = [own |-> Blank, proto |-> [n \in Item |-> Types[DefaultType]],
          told |-> [n \in Item |-> [name \in Prop |-> Undefined]], keys |-> [k \in Key |-> Undefined],
          bare |-> [n \in Item |-> {}]]
  /\ created = {} /\ inside = {} /\ fired = Undefined
  /\ hadKey = [n \in Item |-> {}]

\* What a listener is told of a node that enters is what it has.
Drawn(t, n) == [t EXCEPT !.told[n] = [name \in Prop |-> get(t, n, name)], !.bare[n] = {}]
Note(n) == hadKey' = [hadKey EXCEPT ![n] = @ \union ({get(s', n, "key")} \ {Undefined})]

createNode(n, own) ==
  /\ n \notin created /\ created' = created \union {n}
  /\ s' = Drawn([s EXCEPT !.own[n] = own, !.proto[n] = calcProto(own)], n)
  /\ Note(n) /\ UNCHANGED <<inside, fired>>

\* A clone is a node with the same properties; it is not in the tree yet.
clone(n, m) == n \in created /\ createNode(m, s.own[n])

setProperty(n, name, v) ==
  /\ n \in created /\ get(s, n, name) # v
  /\ s' = propertyChange([s EXCEPT !.own[n] = With(@, name, v)], n, name, v)
  /\ Note(n) /\ UNCHANGED <<created, inside, fired>>

removeProperty(n, name) ==
  /\ n \in created /\ get(s, n, name) # Undefined
  /\ s' = propertyChange([s EXCEPT !.own[n] = Without(@, name)], n, name, Undefined)
  /\ Note(n) /\ UNCHANGED <<created, inside, fired>>

enter(n) ==
  /\ n \in created \ inside /\ inside' = inside \union {n}
  /\ LET k == get(s, n, "key")
     IN s' = Drawn(IF k = Undefined THEN s ELSE [s EXCEPT !.keys[k] = n], n)
  /\ Note(n) /\ UNCHANGED <<created, fired>>

\* removeKey: by the key of the node's own, and whoever listens to it.
leave(n) ==
  /\ n \in inside /\ inside' = inside \ {n}
  /\ s' = IF has(s.own[n], "key") THEN [s EXCEPT !.keys[s.own[n]["key"]] = Undefined] ELSE s
  /\ UNCHANGED <<created, hadKey, fired>>

active(k) ==
  /\ s.keys[k] # Undefined
  /\ fired' = s.keys[k]
  /\ UNCHANGED <<s, created, inside, hadKey>>

Next ==
  \/ \E n \in Item : \/ \E own \in {NoProperties} \union {[type |-> t] : t \in DOMAIN Types} : createNode(n, own)
                     \/ \E m \in Item : clone(m, n)
                     \/ \E name \in Prop : \/ \E v \in Values(name) : setProperty(n, name, v)
                                           \/ removeProperty(n, name)
                     \/ enter(n) \/ leave(n)
  \/ \E k \in Key : active(k)

Spec == Init /\ [][Next]_vars

-----------------------------------------------------------------------------
(* What the listeners were told last of a property is its value, unless the*)
(* last they were told is that it was removed, and the node's type has one *)
(* under it: the listeners go on without it until the type gives another   *)
(* value or the node enters again (tree.js:106-116).  So a change of type  *)
(* tells of every property it changes, and only of those.  And a key a node*)
(* in the tree was told to have, and no other node ever had, is listened to*)
(* for that node, through every change of key and type, every way out of   *)
(* the tree and back.                                                      *)
ToldTheValue ==
  \A n \in created :
    /\ s.proto[n] = calcProto(s.own[n])
    /\ \A name \in Prop :
         IF name \in s.bare[n] THEN s.told[n][name] = Undefined /\ ~has(s.own[n], name)
         ELSE s.told[n][name] = get(s, n, name)
    /\ n \in inside /\ s.told[n]["key"] # Undefined
          /\ (\A m \in Item \ {n} : s.told[n]["key"] \notin hadKey[m])
         => s.keys[s.told[n]["key"]] = n
=============================================================================
