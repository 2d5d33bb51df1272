-------------------------------- MODULE Agent --------------------------------
(***************************************************************************)
(* Commands and the agent they are handed to.  A client opens the cache of *)
(* the machine, looks for an agent at a socket and sends its command; the  *)
(* agent has a goroutine per connection that opens the repository, runs    *)
(* the command, forwards its events and says how it ended.  A client that  *)
(* finds no agent runs its command itself, with the agentless cache.       *)
(*                                                                         *)
(* A cache is open in one process at a time.                               *)
(***************************************************************************)
EXTENDS Naturals, FiniteSets

CONSTANTS
    Clients,
    Nobody,
    MaxEvents,  \* bound: events a command sends
    Mortal      \* the clients that may be killed

ASSUME AgentAssumption == MaxEvents \in Nat /\ Mortal \subseteq Clients /\ Nobody \notin Clients

Agent   == "agent"
Running == "running"

\* How a command may end: an "exited" one returns a status that is not 0 and no error,
\* as exec does with that of the program it ran.
Results == {"ok", "err", "exited"}

VARIABLES
    agent,      \* the process of the agent: where it is
    socket,     \* what is at its path: nothing, a file, its own or another agent
    cache,      \* who has the cache of the machine open
    agentless,  \* who has the agentless cache open
    client,     \* client: where it is
    status,     \* client: its exit status
    conn,       \* connection: what the client reads from it next
    sent,       \* the clients whose command is written
    srv,        \* handler: where it is
    left,       \* handler: events its command has still to send
    pump,       \* handler: where the goroutine is that forwards the events
    done        \* command: what became of it

clientVars == <<client, status>>
srvVars    == <<srv, left, pump>>
agentVars  == <<agent, socket, cache, agentless, clientVars, conn, sent, srvVars, done>>

\* The socket may be left from an agent that died, which makes no difference to none,
\* or be that of an agent of another version.
AgentInit ==
    /\ agent = "off"
    /\ socket \in {"stale", "other"}
    /\ cache = Nobody /\ agentless = Nobody
    /\ client = [c \in Clients |-> "idle"] /\ status = [c \in Clients |-> 0]
    /\ conn = [c \in Clients |-> "none"] /\ sent = {}
    /\ srv = [c \in Clients |-> "none"] /\ left = [c \in Clients |-> 0]
    /\ pump = [c \in Clients |-> "off"]
    /\ done = [c \in Clients |-> "no"]

Becomes(c, l) == client' = [client EXCEPT ![c] = l]
Serves(c, l)  == srv' = [srv EXCEPT ![c] = l]
Answer(c, a)  == conn' = [conn EXCEPT ![c] = a]

\* Who ends has its caches closed.
Release(c) == /\ cache' = IF cache = c THEN Nobody ELSE cache
              /\ agentless' = IF agentless = c THEN Nobody ELSE agentless

End(c, s) == /\ Becomes(c, "ended") /\ status' = [status EXCEPT ![c] = s]
             /\ Release(c)

-----------------------------------------------------------------------------
\* A client opens the store, asks for the passphrase and opens the cache of the machine,
\* NewNoRebuild, before anything else.  Each of these may fail.
OpenCache(c) ==
    /\ client[c] = "idle"
    /\ \/ /\ cache = Nobody
          /\ cache' = c /\ Becomes(c, "dialing")
          /\ UNCHANGED <<agentless, status>>
       \/ End(c, 1)
    /\ UNCHANGED <<agent, socket, conn, sent, srvVars, done>>

\* The option -no-agent, or the variable PLAKAR_AGENTLESS.
NoAgent(c) ==
    /\ client[c] = "idle"
    /\ Becomes(c, "reopening")
    /\ UNCHANGED <<agent, socket, cache, agentless, status, conn, sent, srvVars, done>>

\* ErrRetryAgentless: the cache of the machine is closed before.
RetryAgentless(c) == Becomes(c, "reopening") /\ Release(c) /\ UNCHANGED status

\* An agent of another version answers, and counts as none.
Dial(c) ==
    /\ client[c] = "dialing"
    /\ IF socket = "ours"
         THEN /\ Answer(c, "open") /\ Serves(c, "accepted") /\ Becomes(c, "greeting")
              /\ UNCHANGED <<cache, agentless, status>>
         ELSE RetryAgentless(c) /\ UNCHANGED <<conn, srv>>
    /\ UNCHANGED <<agent, socket, sent, left, pump, done>>

Handshake(c) ==
    /\ client[c] = "greeting"
    /\ IF conn[c] = "open"
         THEN srv[c] = "greeted" /\ Becomes(c, "sending") /\ UNCHANGED <<cache, agentless, status>>
         ELSE RetryAgentless(c)
    /\ UNCHANGED <<agent, socket, conn, sent, srvVars, done>>

\* From here on there is no second try.
EncodeRPC(c) ==
    /\ client[c] = "sending"
    /\ IF conn[c] = "open"
         THEN /\ sent' = sent \cup {c} /\ Becomes(c, "waiting")
              /\ UNCHANGED <<cache, agentless, status>>
         ELSE End(c, 1) /\ UNCHANGED sent
    /\ UNCHANGED <<agent, socket, conn, srvVars, done>>

\* Slip: a connection that is reset counts as one that ended.
StatusOfEnd(c) == IF conn[c] = "exit" /\ done[c] = "err" THEN 1 ELSE 0

\* What the client makes of the end of its connection.  The answer has a status and an
\* error: SendCommand returns both, ExecuteRPC the status only if there is an error.
StatusOfAnswer(c) ==
    CASE conn[c] = "exit" -> IF done[c] = "err" THEN 1 ELSE 0
      [] conn[c] = "eof"  -> 0
      [] OTHER            -> 1

\* The client prints what comes until it reads how the command ended, or until the
\* connection does, which counts as success.
SendCommand(c) ==
    /\ client[c] = "waiting" /\ conn[c] # "open"
    /\ End(c, StatusOfAnswer(c))
    /\ UNCHANGED <<agent, socket, conn, sent, srvVars, done>>

\* "the agentless cache is locked by another process".
Reopen(c) ==
    /\ client[c] = "reopening"
    /\ IF agentless = Nobody
         THEN agentless' = c /\ Becomes(c, Running) /\ UNCHANGED <<cache, status>>
         ELSE End(c, 1)
    /\ UNCHANGED <<agent, socket, conn, sent, srvVars, done>>

ExecuteHere(c) ==
    /\ client[c] = Running
    /\ \E r \in Results :
          done' = [done EXCEPT ![c] = r] /\ End(c, IF r = "ok" THEN 0 ELSE 1)
    /\ UNCHANGED <<agent, socket, conn, sent, srvVars>>

Kill(c) ==
    /\ c \in Mortal /\ client[c] \notin {"idle", "ended", "killed"}
    /\ Becomes(c, "killed") /\ Release(c)
    /\ UNCHANGED <<agent, socket, status, conn, sent, srvVars, done>>

ClientStep(c) ==
    \/ Dial(c) \/ Handshake(c) \/ EncodeRPC(c) \/ SendCommand(c) \/ Reopen(c) \/ ExecuteHere(c)

-----------------------------------------------------------------------------
\* The tasks start first.  Then the agent looks whether another one answers at the
\* socket, and removes a socket where nobody does.
Launch ==
    /\ agent = "off"
    /\ agent' = "starting"
    /\ UNCHANGED <<socket, cache, agentless, clientVars, conn, sent, srvVars, done>>

ListenAndServe ==
    /\ agent = "starting"
    /\ IF socket = "other"
         THEN /\ agent' = "gone" /\ cache' = IF cache = Agent THEN Nobody ELSE cache
              /\ UNCHANGED socket
         ELSE agent' = "serving" /\ socket' = "ours" /\ UNCHANGED cache
    /\ UNCHANGED <<agentless, clientVars, conn, sent, srvVars, done>>

\* A task, if there is one, opens the repository; the agent never closes its caches.
TaskOpens ==
    /\ agent \in {"starting", "serving"} /\ cache = Nobody
    /\ cache' = Agent
    /\ UNCHANGED <<agent, socket, agentless, clientVars, conn, sent, srvVars, done>>

\* Nobody waits for the handlers: commands are cut short where they are.  A request
\* not yet read resets the connection.
ProcessEnds ==
    /\ agent' = "gone"
    /\ cache' = IF cache = Agent THEN Nobody ELSE cache
    /\ conn' = [c \in Clients |-> IF conn[c] # "open" THEN conn[c]
                                  ELSE IF c \in sent /\ srv[c] = "greeted" THEN "reset" ELSE "eof"]
    /\ srv' = [c \in Clients |-> IF srv[c] = "none" THEN "none" ELSE "ended"]
    /\ pump' = [c \in Clients |-> "off"] /\ left' = [c \in Clients |-> 0]
    /\ done' = [c \in Clients |-> IF srv[c] = Running THEN "cut" ELSE done[c]]
    /\ UNCHANGED <<agentless, clientVars, sent>>

\* os.Exit leaves the socket, as does a signal; an error of Accept removes it.
AgentStop == agent = "serving" /\ socket' = "stale" /\ ProcessEnds

AcceptFails == agent = "serving" /\ socket' = "none" /\ ProcessEnds

-----------------------------------------------------------------------------
Hangup(c) == Serves(c, "ended") /\ Answer(c, IF conn[c] = "open" THEN "eof" ELSE conn[c])

Greet(c) ==
    /\ srv[c] = "accepted"
    /\ Serves(c, "greeted")
    /\ UNCHANGED <<agent, socket, cache, agentless, clientVars, conn, sent, left, pump, done>>

\* A command that is written is read, even if its client is gone.
DecodeRPC(c) ==
    /\ srv[c] = "greeted"
    /\ \/ c \in sent /\ Serves(c, "received") /\ UNCHANGED conn
       \/ c \notin sent /\ client[c] = "killed" /\ Hangup(c)
    /\ UNCHANGED <<agent, socket, cache, agentless, clientVars, sent, left, pump, done>>

\* The repository is opened with the cache of the machine.  When that fails, the
\* client is not told.
OpenRepository(c) ==
    /\ srv[c] = "received"
    /\ \/ /\ cache \in {Nobody, Agent}
          /\ cache' = Agent
          /\ Serves(c, Running)
          /\ pump' = [pump EXCEPT ![c] = "idle"]
          /\ left' = [left EXCEPT ![c] = MaxEvents]
          /\ UNCHANGED conn
       \/ Hangup(c) /\ UNCHANGED <<cache, pump, left>>
    /\ UNCHANGED <<agent, socket, agentless, clientVars, sent, done>>

\* Receiver.Send hands the event over, with the lock of the receiver held.
SendEvent(c) ==
    /\ srv[c] = Running /\ left[c] > 0 /\ pump[c] = "idle"
    /\ left' = [left EXCEPT ![c] = @ - 1]
    /\ pump' = [pump EXCEPT ![c] = "writing"]
    /\ UNCHANGED <<agent, socket, cache, agentless, clientVars, conn, sent, srv, done>>

\* Slip: who cannot write returns, as for an event that cannot be serialised.
ForwardOrEnd(c) ==
    /\ pump[c] = "writing"
    /\ pump' = [pump EXCEPT ![c] = IF client[c] = "killed" THEN "ended" ELSE "idle"]
    /\ UNCHANGED <<agent, socket, cache, agentless, clientVars, conn, sent, srv, left, done>>

\* An event is written, or dropped when an earlier one could not be.  The return that
\* leaves eventsDone without a word is for an event that cannot be serialised: Serialize
\* knows every type of event that is sent, of strings and numbers, so it is not taken.
Forward(c) ==
    /\ pump[c] = "writing"
    /\ pump' = [pump EXCEPT ![c] = "idle"]
    /\ UNCHANGED <<agent, socket, cache, agentless, clientVars, conn, sent, srv, left, done>>

\* The command ends; a backup ends early when the client is seen to have left,
\* which other commands do not look at.  Then the receiver is closed.
ExecuteThere(c) ==
    /\ srv[c] = Running
    /\ \/ left[c] = 0 /\ \E r \in Results : done' = [done EXCEPT ![c] = r]
       \/ client[c] = "killed" /\ done' = [done EXCEPT ![c] = "err"]
    /\ Serves(c, "draining")
    /\ UNCHANGED <<agent, socket, cache, agentless, clientVars, conn, sent, left, pump>>

\* The last event is out, eventsDone: now the client hears how the command ended.
Exit(c) ==
    /\ srv[c] = "draining" /\ pump[c] = "idle"
    /\ pump' = [pump EXCEPT ![c] = "off"]
    /\ Answer(c, "exit") /\ Serves(c, "ended")
    /\ UNCHANGED <<agent, socket, cache, agentless, clientVars, sent, left, done>>

Handle(c) ==
    \/ Greet(c) \/ DecodeRPC(c) \/ OpenRepository(c) \/ ExecuteThere(c) \/ Exit(c)
    \/ SendEvent(c) \/ Forward(c)

AgentNext ==
    \/ \E c \in Clients : \/ OpenCache(c) \/ NoAgent(c) \/ ClientStep(c) \/ Kill(c)
                          \/ Handle(c)
    \/ Launch \/ ListenAndServe \/ TaskOpens \/ AgentStop \/ AcceptFails

AgentSpec == AgentInit /\ [][AgentNext]_agentVars

-----------------------------------------------------------------------------
\* The command of a client that fails was not done, or not to its end.  That of one
\* that succeeds was, with two exceptions: its connection ended without a word about
\* it, or the agent said how it ended and it failed with a status but no error.
StatusTells ==
    \A c \in Clients : client[c] = "ended" =>
        IF status[c] = 1 THEN done[c] # "ok"
        ELSE \/ done[c] = "ok"
             \/ conn[c] = "eof"
             \/ conn[c] = "exit" /\ done[c] = "exited"

\* A client ends, whatever becomes of the agent; and so does a handler, whatever
\* becomes of its client: SendCommand, Receiver.Send and eventsDone wait for others.
CommandsEnd ==
    <>[](\A c \in Clients : /\ client[c] \in {"idle", "ended", "killed"}
                           /\ srv[c] \in {"none", "ended"})
=============================================================================
