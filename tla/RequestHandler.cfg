\* Three middlewares, with and without a timeout.
SPECIFICATION FairSpec
CONSTANT N = 3
INVARIANTS InTurn EndsWithLastCall AnsweredOnce NoAnswerLost
PROPERTY AnswersEventually
\* A request that was answered stops, and so does one that hangs.
CHECK_DEADLOCK FALSE
