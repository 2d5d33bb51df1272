------------------------------ MODULE MCService ------------------------------
\* What is around a repository, of which each behaviour has one part: an agent and
\* its clients, the tasks of a scheduler, the scan of an importer, a packfile that
\* is written and read, a reader of a file.
EXTENDS Agent, Scheduler, Importer, Packfile, ObjectReader

CONSTANTS b1, m1, c1, c2, w1, w2

MCRetention == [t \in Lockers |-> IF t = b1 THEN 1 ELSE 2]
MCPeer      == {<<b1, 2>>}

MCTree  == {<<>>, <<1>>, <<2>>, <<1, 1>>, <<1, 2>>, <<1, 1, 1>>, <<1, 1, 2>>, <<1, 1, 2, 1>>}
MCTop   == <<1, 1>>
MCLink  == <<2>>
MCAlike == {<<1, 2>>}

VARIABLE part

vars == <<part, agentVars, schedVars, scanVars, packVars, readerVars>>

Init == /\ AgentInit /\ SchedulerInit /\ ScanInit /\ PackInit /\ ReaderInit
        /\ part \in {"agent", "scheduler", "importer", "packfile", "reader"}
        /\ part # "agent" => socket = "stale"
        /\ part # "scheduler" => conf = [named |-> FALSE, from |-> FALSE]
        /\ part # "importer" => importer = "s3"
        /\ part # "reader" => chunks = <<0>> /\ size = 0

Go(A)   == part = "agent" /\ A /\ UNCHANGED <<part, schedVars, scanVars, packVars, readerVars>>
Turn(A) == part = "scheduler" /\ A /\ UNCHANGED <<part, agentVars, scanVars, packVars, readerVars>>

Next ==
    \/ Go(AgentNext)
    \/ Turn(SchedulerNext)
    \/ part = "importer" /\ ScanNext /\ UNCHANGED <<part, agentVars, schedVars, packVars, readerVars>>
    \/ part = "packfile" /\ PackNext /\ UNCHANGED <<part, agentVars, schedVars, scanVars, readerVars>>
    \/ part = "reader" /\ ReaderNext /\ UNCHANGED <<part, agentVars, schedVars, scanVars, packVars>>

\* Processes and goroutines that can go on do, and time passes.
Spec ==
    /\ Init /\ [][Next]_vars
    /\ \A c \in Clients : WF_vars(Go(ClientStep(c))) /\ WF_vars(Go(Handle(c)))
    /\ WF_vars(Turn(Time))
    /\ \A t \in Lockers : /\ WF_vars(Turn(Start(t))) /\ WF_vars(Turn(Step(t)))
                          /\ WF_vars(Turn(Refresh(t)))
=============================================================================
