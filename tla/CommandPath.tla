------------------------------ MODULE CommandPath ------------------------------
(***************************************************************************)
(* What the command path promises to those who use it, without a channel,  *)
(* a worker or a retry loop: commands overwrite one register, one at a     *)
(* time and in an order that respects the order of their calls; each       *)
(* accepted command is settled once, and a caller is told what happened.   *)
(* Module WriteQueue implements this.                                      *)
(***************************************************************************)
CONSTANTS Command, None

VARIABLES
    stage,     \* of each command's call: "new", "open", "closed"
    ahead,     \* commands accepted and unsettled when the call began
    accepted,  \* commands the path has taken over from their callers
    pending,   \* those not settled yet
    busy,      \* the pending command under execution
    value,     \* the command whose value the register holds
    done,      \* commands that reached the register
    fate,      \* how an accepted command ended
    answer     \* what its caller was told

vars == <<stage, ahead, accepted, pending, busy, value, done, fate, answer>>

Init ==
    /\ stage = [c \in Command |-> "new"]
    /\ ahead = [c \in Command |-> {}]
    /\ accepted = {} /\ pending = {} /\ busy = None
    /\ value = None /\ done = {}
    /\ fate = [c \in Command |-> "none"]
    /\ answer = [c \in Command |-> "none"]

Close(c, a) ==
    /\ stage' = [stage EXCEPT ![c] = "closed"]
    /\ answer' = [answer EXCEPT ![c] = a]

\* An execution of c ends with the error e; it may have taken effect unless c
\* was rejected, and it has if there was no error.
Execution(c, e) ==
    \/ e # "rejected" /\ value' = c /\ done' = done \cup {c}
    \/ e # "ok" /\ UNCHANGED <<value, done>>

Call(c) ==
    /\ stage[c] = "new"
    /\ stage' = [stage EXCEPT ![c] = "open"]
    /\ ahead' = [ahead EXCEPT ![c] = pending]
    /\ UNCHANGED <<accepted, pending, busy, value, done, fate, answer>>

TurnAway(c) ==
    /\ stage[c] = "new"
    /\ Close(c, "dropped")
    /\ UNCHANGED <<ahead, accepted, pending, busy, value, done, fate>>

\* The path takes the command over; a caller may leave it there.
Accept(c) ==
    /\ stage[c] = "open" /\ c \notin accepted
    /\ accepted' = accepted \cup {c}
    /\ pending' = pending \cup {c}
    /\ Close(c, "queued") \/ UNCHANGED <<stage, answer>>
    /\ UNCHANGED <<ahead, busy, value, done, fate>>

\* To let a newer one in, a command that never was executed is given up; the
\* newer one may still find no room.
MakeRoom(c) ==
    /\ stage[c] = "open" /\ c \notin accepted
    /\ \/ \E v \in pending \ ({busy} \cup done) :
            /\ fate[v] = "none"
            /\ fate' = [fate EXCEPT ![v] = "superseded"]
            /\ pending' = pending \ {v}
       \/ UNCHANGED <<fate, pending>>
    /\ Close(c, "full") \/ UNCHANGED <<stage, answer>>
    /\ UNCHANGED <<ahead, accepted, busy, value, done>>

\* One at a time, and nothing overtakes what was there when it was called.
Begin(c) ==
    /\ busy = None
    /\ c \in pending /\ ahead[c] \cap pending = {}
    /\ busy' = c
    /\ UNCHANGED <<stage, ahead, accepted, pending, value, done, fate, answer>>

\* A failed execution that will be repeated.
Attempt ==
    /\ busy # None
    /\ Execution(busy, "failed")
    /\ UNCHANGED <<stage, ahead, accepted, pending, busy, fate, answer>>

Settle(e) ==
    /\ busy # None /\ fate[busy] = "none"
    /\ Execution(busy, e)
    /\ fate' = [fate EXCEPT ![busy] = e]
    /\ pending' = pending \ {busy}
    /\ busy' = None
    /\ UNCHANGED <<stage, ahead, accepted, answer>>

Reply(c) ==
    /\ stage[c] = "open" /\ c \in accepted /\ fate[c] # "none"
    /\ Close(c, fate[c])
    /\ UNCHANGED <<ahead, accepted, pending, busy, value, done, fate>>

GiveUp(c) ==
    /\ stage[c] = "open" /\ c \in accepted
    /\ Close(c, "ctx")
    /\ UNCHANGED <<ahead, accepted, pending, busy, value, done, fate>>

\* A caller that finds the path out of service executes the command itself.
Direct(c, e) ==
    /\ stage[c] = "open" /\ c \notin accepted
    /\ Execution(c, e)
    /\ Close(c, e)
    /\ UNCHANGED <<ahead, accepted, pending, busy, fate>>

Error == {"ok", "rejected", "failed", "ctx"}

Next ==
    \/ \E c \in Command :
        \/ Call(c) \/ TurnAway(c) \/ Accept(c) \/ MakeRoom(c) \/ Begin(c)
        \/ Reply(c) \/ GiveUp(c)
        \/ \E e \in Error : Direct(c, e)
    \/ Attempt
    \/ \E e \in Error : Settle(e)

Spec == Init /\ [][Next]_vars
=============================================================================
