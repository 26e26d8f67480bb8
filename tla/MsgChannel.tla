----------------------------- MODULE MsgChannel -----------------------------
(***************************************************************************)
(* What one direction of an agent-server connection promises to the code   *)
(* above it (HandleMsg on either side): messages come out in the order in  *)
(* which SendMsg took them, each once, none invented.  The promise ends at *)
(* the first write that fails: nothing is said of the message whose write  *)
(* failed, nor of what is received from its position on.                   *)
(***************************************************************************)
EXTENDS Naturals, Sequences

CONSTANT
  Msgs        \* the messages that SendMsg may be given

VARIABLES
  sent,       \* messages in the order SendMsg took them
  delivered,  \* messages in the order GetMsg returned them
  cut         \* position in sent of the first failed write, 0 when none failed

chanVars == <<sent, delivered, cut>>

\* Position i of the stream is covered by the promise.
Promised(i) == cut = 0 \/ i < cut

Init ==
  /\ sent = << >>
  /\ delivered = << >>
  /\ cut = 0

Send ==
  /\ \E m \in Msgs : sent' = Append(sent, m)
  /\ UNCHANGED <<delivered, cut>>

\* The write of the latest message fails.
Break ==
  /\ cut = 0
  /\ sent # << >>
  /\ cut' = Len(sent)
  /\ UNCHANGED <<sent, delivered>>

\* One message more is received: the next one sent, while the promise holds.
Receive ==
  LET i == Len(delivered) + 1
  IN  /\ Len(delivered') = i
      /\ SubSeq(delivered', 1, i - 1) = delivered
      /\ Promised(i) => /\ i \in 1..Len(sent)
                        /\ delivered'[i] = sent[i]
      /\ UNCHANGED <<sent, cut>>

Next == Send \/ Break \/ Receive

Spec == Init /\ [][Next]_chanVars
=============================================================================
