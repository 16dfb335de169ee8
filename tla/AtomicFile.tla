----------------------------- MODULE AtomicFile -----------------------------
(***************************************************************************)
(* What a FileHandler promises its callers: a file on which every command  *)
(* takes effect at one instant, between the call and its answer.  A caller *)
(* may give up waiting; then its command may still take effect later, but  *)
(* before any later command of the same caller.                            *)
(***************************************************************************)
EXTENDS FileCommands

CONSTANTS Client, Command, NoAnswer

VARIABLES
  content,  \* the bytes of the file
  durable,  \* its bytes at the last sync_all
  issued,   \* the commands that have not taken effect: [client, no, cmd, wanted]
  answer,   \* per caller: the answer it has not picked up
  calls     \* number of calls made; a command has the number of its call

vars == <<content, durable, issued, answer, calls>>

Init ==
  /\ content = <<>> /\ durable = <<>>
  /\ issued = {}
  /\ answer = [c \in Client |-> NoAnswer]
  /\ calls = 0

Waiting(c) == \E e \in issued : e.client = c /\ e.wanted

Invoke(c, cmd) ==
  /\ ~ Waiting(c) /\ answer[c] = NoAnswer
  /\ issued' = issued \cup {[client |-> c, no |-> calls + 1, cmd |-> cmd, wanted |-> TRUE]}
  /\ calls' = calls + 1
  /\ UNCHANGED <<content, durable, answer>>

\* A caller gives up: e is never executed, or its answer is not wanted.
GiveUp(e) ==
  /\ e.wanted
  /\ \/ issued' = issued \ {e}
     \/ issued' = (issued \ {e}) \cup {[e EXCEPT !.wanted = FALSE]}
  /\ UNCHANGED <<content, durable, answer, calls>>

\* e comes before every later command of its caller.
InTurn(e) == \A f \in issued : f.client = e.client => e.no <= f.no

Tell(e, a) == answer' = IF e.wanted THEN [answer EXCEPT ![e.client] = a] ELSE answer

Perform(e) ==
  /\ InTurn(e)
  /\ content' = Effect(e.cmd, content)
  /\ durable' = IF e.cmd.op = "sync_all" THEN content ELSE durable
  /\ Tell(e, Answer(e.cmd, content))
  /\ issued' = issued \ {e}
  /\ UNCHANGED calls

Fail(e) ==
  /\ InTurn(e)
  /\ content' \in PartialEffects(e.cmd, content)
  /\ Tell(e, Err)
  /\ issued' = issued \ {e}
  /\ UNCHANGED <<durable, calls>>

PickUp(c) ==
  /\ answer[c] # NoAnswer
  /\ answer' = [answer EXCEPT ![c] = NoAnswer]
  /\ UNCHANGED <<content, durable, issued, calls>>

Next ==
  \/ \E c \in Client : (\E cmd \in Command : Invoke(c, cmd)) \/ PickUp(c)
  \/ \E e \in issued : GiveUp(e) \/ Perform(e) \/ Fail(e)

Spec == Init /\ [][Next]_vars

=============================================================================
