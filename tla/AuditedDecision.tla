-------------------------- MODULE AuditedDecision --------------------------
(***************************************************************************)
(* What the authorization boundary promises, without clocks, resolvers,    *)
(* transactions or failures: a history to which whole events are added,    *)
(* one per identity, never changed and never removed, and replies to       *)
(* callers.  A decision is told to a caller, and shown to the observer,    *)
(* only from the history, and only by an event about what it asked.        *)
(***************************************************************************)
CONSTANTS
  Callers,
  KeyOf(_),       \* identity of an event
  About(_),       \* the question an event answers
  Told(_),        \* the reply that tells an event's decision
  Deciding(_),    \* whether a reply tells a decision
  Silent          \* the reply before anything was asked

VARIABLES history, shown, asked, reply

avars == <<history, shown, asked, reply>>

AInit ==
  /\ history = {} /\ shown = {}
  /\ reply = [c \in Callers |-> Silent]

Append(e) ==
  /\ \A f \in history : KeyOf(f) # KeyOf(e)
  /\ history' = history \union {e}

\* A write lands, alone or with the error that hides its outcome.
MayAppend == history' = history \/ \E e \in history' : Append(e)

Record == MayAppend /\ UNCHANGED <<shown, asked, reply>>

\* Caller c is told what a recorded event about its question decides.
Tell(c) ==
  /\ \E e \in history :
       /\ About(e) = asked[c]
       /\ shown' = shown \union {e}
       /\ reply' = [reply EXCEPT ![c] = Told(e)]
  /\ UNCHANGED <<history, asked>>

\* Caller c asks, or gets an error: nothing is decided.
NoDecision(c) ==
  /\ ~Deciding(reply'[c])
  /\ \A d \in Callers \ {c} : reply'[d] = reply[d] /\ asked'[d] = asked[d]
  /\ MayAppend
  /\ UNCHANGED shown

ANext == Record \/ \E c \in Callers : Tell(c) \/ NoDecision(c)

ASpec == AInit /\ [][ANext]_avars

=============================================================================
