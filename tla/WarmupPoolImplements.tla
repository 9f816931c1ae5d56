------------------------ MODULE WarmupPoolImplements ------------------------
(* WarmupPool implements WarmupConversation: a letter is a row of            *)
(* WarmupExchange together with what SMTP has accepted of it, and an answer  *)
(* is the row one deeper in the same thread.                                 *)
EXTENDS WarmupPool

(* A letter is out when one copy has been accepted, recorded or not; a row   *)
(* that was claimed and given up by nobody is planned still.                 *)
Stage(x) ==
  CASE row[x].state = "free" -> "none"
    [] row[x].state \in {"opened", "recovered_from_spam"} -> "read"
    [] row[x].state \in {"scheduled", "sent", "failed", "bounced"} /\ copies[x] = 1 -> "out"
    [] row[x].state \in {"failed", "bounced"} /\ copies[x] # 1 -> "dropped"
    [] row[x].state \in {"scheduled", "sent"} /\ copies[x] # 1 -> "planned"

Letter(x) == [stage |-> Stage(x), from |-> row[x].from, to |-> row[x].to]

Replied(y, x) == row[x].thread # Nobody /\ row[y].thread = row[x].thread /\ row[y].depth = row[x].depth + 1

Conversation == INSTANCE WarmupConversation
  WITH Letters <- Exchanges,
       letter  <- [x \in Exchanges |-> Letter(x)],
       answers <- {p \in Exchanges \X Exchanges : Replied(p[1], p[2])}

\* However the four workers, their crashes and lost answers interleave, the
\* mailboxes are seen to hold conversations: a letter goes out once or not at all,
\* is read after that, and has one answer at most, from its reader.
IsConversation == Conversation!Spec

=============================================================================
