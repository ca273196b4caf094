----------------------------- MODULE FileActions -----------------------------
(***************************************************************************)
(* What the server does to its files for a file tree (app/client/vrac/     *)
(* action/filesystem): an insert makes the files and directories of a tree *)
(* of data one after the other, each in several calls of the file system,  *)
(* any of which may fail; rename, trash, recycle and move may come between *)
(* two of them.  remove is not here: it answers before it does anything.   *)
(*                                                                         *)
(* A path is the sequence of the names under the root.  A name is a record *)
(* of a word and of the number of times '.trash' was put after it.         *)
(***************************************************************************)
EXTENDS Naturals, FiniteSets, SequencesExt

CONSTANTS
  Entry, Root,  \* the data to insert, each with the file it makes
  Tops,         \* the data of the calls, inserted in the root
  Kids,         \* [Entry -> Seq(Entry)]: childNodes
  File,         \* \subseteq Entry: the others are directories
  Empty, Bad,   \* \subseteq File: no content, content that is no text
  Word,         \* [Entry -> a word]: the name in the data
  None, MaxTrash, MaxMoves

VARIABLES
  disk,   \* [Entry -> None, or where the file is: dir, name, content]
  calls,  \* [Tops -> frames: path, data, rest, step; fd and answer]
  fds,    \* {<<call, entry>>}: what is open
  made,   \* history: [Tops -> Seq(Entry)], in the order they were made
  moves   \* history: how many times something was moved

vars == <<disk, calls, fds, made, moves>>

There == {f \in Entry : disk[f] # None}
Path[f \in Entry \union {Root}] ==
  IF f = Root \/ disk[f] = None THEN <<>> ELSE Append(Path[disk[f].dir], disk[f].name)
At(path) == {f \in There : Path[f] = path}
IsDirectory(path) == path = <<>> \/ \E f \in At(path) : f \notin File
DirectoryAt(path) == IF path = <<>> THEN Root ELSE CHOOSE f \in At(path) : TRUE
NameOf(d) == [word |-> Word[d], trash |-> 0]
Frame(path, d) == [path |-> path, data |-> d, rest |-> Kids[d], step |-> "make"]

Init ==
  /\ disk = [f \in Entry |-> None] /\ fds = {} /\ moves = 0
  /\ made = [c \in Tops |-> <<>>]
  /\ calls = [c \in Tops |-> [frames |-> <<Frame(<<>>, c)>>, fd |-> None, answer |-> None]]

-----------------------------------------------------------------------------
Now(c) == Last(calls[c].frames)
Place(c) == Append(Now(c).path, NameOf(Now(c).data))
AtStep(c, step) == calls[c].answer = None /\ Now(c).step = step

Failed(call) == [call EXCEPT !.frames = <<>>, !.answer = "error"]

\* nextChild, and the callbacks it calls: the next of the children of the last
\* directory that has some left.
Continued(call) ==
  LET n == Len(call.frames)
      open == {i \in 1..n : call.frames[i].rest # <<>>}
      last == CHOOSE i \in open : \A j \in open : j <= i
      parent == call.frames[last]
  IN IF open = {} THEN [call EXCEPT !.frames = <<>>, !.answer = "done"]
     ELSE [call EXCEPT !.frames =
             Append(SubSeq(@, 1, last - 1) \o <<[parent EXCEPT !.rest = Tail(@), !.step = "children"]>>,
                    Frame(Append(parent.path, NameOf(parent.data)), Head(parent.rest)))]

\* Mutant: nextChild does not look at the error of the child.
nextChild_deaf(call, error) == Continued(call)

nextChild(call, error) == IF error THEN Failed(call) ELSE Continued(call)

answers(c, error) == calls' = [calls EXCEPT ![c] = nextChild(@, error)]
step(c, name, fd) ==
  calls' = [calls EXCEPT ![c].frames[Len(calls[c].frames)].step = name, ![c].fd = fd]
Put(c, d) ==
  [disk EXCEPT ![d] = [dir |-> DirectoryAt(Now(c).path), name |-> NameOf(d), content |-> None]]

\* FS.open(path, 'w') and its callback: a file that is there is emptied.
open(c) ==
  /\ AtStep(c, "make") /\ Now(c).data \in File
  /\ LET d == Now(c).data
         there == At(Place(c))
         f == IF there = {} THEN d ELSE CHOOSE g \in there : TRUE
     IN \/ /\ IsDirectory(Now(c).path) /\ ~IsDirectory(Place(c))
           /\ disk' = IF there = {} THEN Put(c, d) ELSE [disk EXCEPT ![f].content = None]
           /\ fds' = fds \union {<<c, f>>} /\ made' = [made EXCEPT ![c] = Append(@, d)]
           /\ IF d \in Bad THEN answers(c, TRUE)
              ELSE step(c, IF d \in Empty THEN "close" ELSE "write", f)
        \/ answers(c, TRUE) /\ UNCHANGED <<disk, fds, made>>
  /\ UNCHANGED moves

\* FS.write and its callback: an error and a partial writing leave it open.
write(c) ==
  /\ AtStep(c, "write")
  /\ \/ /\ disk' = IF disk[calls[c].fd] = None THEN disk
                   ELSE [disk EXCEPT ![calls[c].fd].content = Now(c).data]
        /\ step(c, "close", calls[c].fd)
     \/ answers(c, TRUE) /\ UNCHANGED disk
  /\ UNCHANGED <<fds, made, moves>>

\* Mutant: the file is answered without closing it.
closed_not(c) == fds

closed(c) == fds \ {<<c, calls[c].fd>>}

close(c) ==
  /\ AtStep(c, "close")
  /\ fds' = closed(c) /\ \E error \in BOOLEAN : answers(c, error)
  /\ UNCHANGED <<disk, made, moves>>

\* FS.mkdir, which refuses a name that is taken.
mkdir(c) ==
  /\ AtStep(c, "make") /\ Now(c).data \notin File
  /\ \/ /\ IsDirectory(Now(c).path) /\ At(Place(c)) = {}
        /\ disk' = Put(c, Now(c).data) /\ made' = [made EXCEPT ![c] = Append(@, Now(c).data)]
        /\ answers(c, FALSE)
     \/ answers(c, TRUE) /\ UNCHANGED <<disk, made>>
  /\ UNCHANGED <<fds, moves>>

insert(c) == open(c) \/ write(c) \/ close(c) \/ mkdir(c)

-----------------------------------------------------------------------------
\* FS.rename: a file takes the place of another file, a directory that of an
\* empty one; a directory does not go below itself.
FSrename(f, dir, name) ==
  /\ f \in There /\ moves < MaxMoves
  /\ LET path == Append(Path[dir], name)
         old == At(path) \ {f}
     IN /\ ~IsPrefix(Path[f], Path[dir])
        /\ \A g \in old : (g \in File <=> f \in File) /\ \A h \in There : disk[h].dir # g
        /\ disk' = [g \in Entry |-> IF g \in old THEN None
                                    ELSE IF g = f THEN [disk[f] EXCEPT !.dir = dir, !.name = name]
                                    ELSE disk[g]]
  /\ moves' = moves + 1 /\ UNCHANGED <<calls, fds, made>>

trashed(f) == [disk[f].name EXCEPT !.trash = @ + 1]
recycled(f) == [disk[f].name EXCEPT !.trash = IF @ = 0 THEN 0 ELSE @ - 1]

rename(f, d) == FSrename(f, disk[f].dir, NameOf(d))
move(f, into) == FSrename(f, into, disk[f].name)
trash(f) == disk[f].name.trash < MaxTrash /\ FSrename(f, disk[f].dir, trashed(f))
recycle(f) == FSrename(f, disk[f].dir, recycled(f))

\* writeFile, for the content of a file in the tree.
writeContent(f, x) ==
  /\ f \in There \intersect File /\ disk[f].content # x /\ moves < MaxMoves
  /\ disk' = [disk EXCEPT ![f].content = x]
  /\ moves' = moves + 1 /\ UNCHANGED <<calls, fds, made>>

Changing ==
  \E f \in There :
    \/ \E d \in Entry : rename(f, d)
    \/ \E into \in There \union {Root} : into \notin File /\ move(f, into)
    \/ trash(f) \/ recycle(f)
    \/ \E x \in Entry : writeContent(f, x)

Next == (\E c \in Tops : insert(c)) \/ Changing

Spec == Init /\ [][Next]_vars

-----------------------------------------------------------------------------
\* The data below d, in the order insert makes them.
RECURSIVE InOrder(_)
InOrder(d) == FoldLeft(LAMBDA l, k : l \o InOrder(k), <<d>>, Kids[d])

\* Where a call puts its data.
DataPath[d \in Entry] ==
  IF d \in Tops THEN <<NameOf(d)>>
  ELSE Append(DataPath[CHOOSE e \in Entry : d \in Range(Kids[e])], NameOf(d))
Alone(c, d) ==
  \A o \in Tops \ {c} : \A e \in Range(made[o]) : DataPath[e] # DataPath[d]

\* An insert makes the data in their order and stops at the first that fails;
\* it answers done when everything was made and every file closed, and, if
\* nothing was moved meanwhile, each is where the data say, with its content unless
\* another call writes to the same path.
InsertTrue ==
  \A c \in Tops :
    /\ IsPrefix(made[c], InOrder(c))
    /\ calls[c].answer = "done" =>
         /\ made[c] = InOrder(c)
         /\ \A f \in Entry : <<c, f>> \notin fds
         /\ \A d \in Range(InOrder(c)) : moves = 0 =>
              \E f \in At(DataPath[d]) :
                /\ f \in File <=> d \in File
                /\ (d \in File \ Empty /\ Alone(c, d)) => disk[f].content = d
=============================================================================
