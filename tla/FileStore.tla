------------------------------ MODULE FileStore ------------------------------
(***************************************************************************)
(* What Repository and RepoLock take a store to be: a set of files that    *)
(* appear whole, at one moment, some time during the call that writes      *)
(* them, and disappear in the same way.  A call that fails may have had    *)
(* its effect.  A call that succeeds did, except that a file that is       *)
(* there already may be left as it is.  A read sees a file as it was at    *)
(* one moment of the call.                                                 *)
(***************************************************************************)
EXTENDS Naturals

CONSTANTS Workers, Names, Versions

VARIABLES files,  \* name -> version of its content, 0 if there is no such file
          calls   \* worker -> the call it is at

Idle == [op |-> "none"]
Calls == {Idle} \cup [op : {"put", "get", "delete"}, name : Names, v : Versions \cup {0}, applied : BOOLEAN]

Init ==
    /\ files = [n \in Names |-> 0]
    /\ calls = [w \in Workers |-> Idle]

Begin(w) ==
    /\ calls[w] = Idle
    /\ \E c \in Calls \ {Idle} : ~c.applied /\ calls' = [calls EXCEPT ![w] = c]
    /\ UNCHANGED files

Apply(w) ==
    /\ calls[w] # Idle /\ ~calls[w].applied
    /\ LET c == calls[w]
       IN  /\ calls' = [calls EXCEPT ![w] =
                [op |-> c.op, name |-> c.name,
                 v |-> IF c.op = "get" THEN files[c.name] ELSE c.v, applied |-> TRUE]]
           /\ \/ c.op = "put" /\ files' = [files EXCEPT ![c.name] = c.v]
              \/ c.op = "put" /\ files[c.name] # 0 /\ UNCHANGED files
              \/ c.op = "delete" /\ files' = [files EXCEPT ![c.name] = 0]
              \/ c.op = "get" /\ files[c.name] # 0 /\ UNCHANGED files

\* It has succeeded, or failed, or died.
End(w) ==
    /\ calls[w] # Idle
    /\ calls' = [calls EXCEPT ![w] = Idle]
    /\ UNCHANGED files

\* A call that fails at the moment it has its effect: the answer is lost.
ApplyAndFail(w) ==
    /\ calls[w] # Idle /\ ~calls[w].applied /\ calls[w].op # "get"
    /\ calls' = [calls EXCEPT ![w] = Idle]
    /\ files' = [files EXCEPT ![calls[w].name] =
                    IF calls[w].op = "put" THEN calls[w].v ELSE 0]

Next == \E w \in Workers : Begin(w) \/ Apply(w) \/ End(w) \/ ApplyAndFail(w)

Spec == Init /\ [][Next]_<<files, calls>>
=============================================================================
