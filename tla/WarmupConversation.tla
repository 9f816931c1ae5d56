------------------------- MODULE WarmupConversation -------------------------
(***************************************************************************)
(* What the warmup pool does as the mailbox providers see it: mailboxes    *)
(* write letters to one another, a letter is posted once or dropped, the   *)
(* recipient reads it after that, and at most one answer is written to a   *)
(* letter that was read, from the mailbox that read it.  Old letters are   *)
(* forgotten, the answer before what it answers.                           *)
(***************************************************************************)

CONSTANTS Mailboxes, Letters, Nobody

VARIABLES
  letter,   \* of each letter: its stage, and the two mailboxes
  answers   \* <<y, x>>: letter y answers letter x

vars == <<letter, answers>>

Blank == [stage |-> "none", from |-> Nobody, to |-> Nobody]

Init ==
  /\ letter = [x \in Letters |-> Blank]
  /\ answers = {}

Answered(x) == \E y \in Letters : <<y, x>> \in answers

Write(y, a, b) == letter' = [letter EXCEPT ![y] = [stage |-> "planned", from |-> a, to |-> b]]

Begin(y) ==
  /\ letter[y] = Blank
  /\ \E a, b \in Mailboxes : a # b /\ Write(y, a, b)
  /\ UNCHANGED answers

Answer(y, x) ==
  /\ letter[y] = Blank /\ letter[x].stage = "read" /\ ~Answered(x)
  /\ Write(y, letter[x].to, letter[x].from)
  /\ answers' = answers \cup {<<y, x>>}

Moves(x, old, new) ==
  /\ letter[x].stage = old
  /\ letter' = [letter EXCEPT ![x].stage = new]
  /\ UNCHANGED answers

Post(x) == Moves(x, "planned", "out")
Drop(x) == Moves(x, "planned", "dropped")
Read(x) == Moves(x, "out", "read")

Forget(x) ==
  /\ letter[x] # Blank
  /\ letter' = [letter EXCEPT ![x] = Blank]
  /\ ~Answered(x)
  /\ answers' = {p \in answers : p[1] # x}

Next ==
  \E x \in Letters :
    \/ Begin(x) \/ (\E y \in Letters : Answer(x, y))
    \/ Post(x) \/ Drop(x) \/ Read(x)
    \/ Forget(x)

Spec == Init /\ [][Next]_vars

=============================================================================
