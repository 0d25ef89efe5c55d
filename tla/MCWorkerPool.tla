---------------------------- MODULE MCWorkerPool ----------------------------
EXTENDS WorkerPool, TLC

\* The file tasks are attempts at one file, or each has a file of its own.
OneFile == [t \in FileTasks |-> "a"]
OwnFiles == [t \in FileTasks |-> t]
=============================================================================
