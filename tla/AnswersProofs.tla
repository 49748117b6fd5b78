--------------------------- MODULE AnswersProofs ----------------------------
(***************************************************************************)
(* What a call is told, and what is left behind, for any number of askers, *)
(* answers, retries and restarts.  A row is settled once and by one        *)
(* statement; everything else follows from where each call can be when     *)
(* that happens.                                                           *)
(***************************************************************************)
EXTENDS Answers, SequenceTheorems, TLAPS

\* Who waits on a row has one, and is not told anything yet; only questions go
\* to the machines and are closed by a clock of their own; nobody outside the
\* scene asks.
Placed ==
    \A a \in Askers :
        /\ pc[a] \in {"machines", "waiting", "expiring", "closing"} => at[a] # 0
        /\ pc[a] \in {"machines", "closing"} => IsQuestion
        /\ pc[a] = "asked" => rows # << >>
        /\ pc[a] # "told" => told[a] = Nothing
        /\ told[a].how \in {"answer", "approved", "rejected", "expired"} => at[a] # 0
        /\ a \notin scene.askers => pc[a] = "told"

\* The one who inserted the row, and has not read it back, is alone in that,
\* and no conversation has begun.
Inserter(a) == pc[a] = "asked" /\ mine[a]

Escalation ==
    /\ ~IsQuestion => walks = 0
    /\ rows = << >> => walks = 0 /\ \A a \in Askers : pc[a] # "asked"
    /\ IsQuestion => \A a, b \in Askers : Inserter(a) /\ Inserter(b) => a = b
    /\ IsQuestion => \A a \in Askers : Inserter(a) => walks = 0
    /\ EscalatesOnce

Inv == TypeOK /\ Placed /\ ToldWhatIsRecorded /\ Escalation
       /\ DecisionsReachTheStep /\ NothingLeftPending

\* The bounds are numbers.
LEMMA Bounds == MaxAsks \in Nat /\ MaxLives \in Nat
BY AnswersAssumption

-----------------------------------------------------------------------------
(* Rows.                                                                   *)

\* One row replaced.
LEMMA RowReplaced ==
    ASSUME rows \in Seq(RowType), NEW i \in 1..Len(rows), NEW e \in RowType,
           rows' = [rows EXCEPT ![i] = e]
    PROVE  /\ rows' \in Seq(RowType) /\ Len(rows') = Len(rows)
           /\ \A k \in 1..Len(rows) : rows'[k] = IF k = i THEN e ELSE rows[k]
OBVIOUS

\* What a row may come to, whoever writes it.
SettledRow(s, t) ==
    /\ s \in {"answered", "approved", "rejected", "expired", "aborted"}
    /\ t \in Answers \cup {"", Default}

\* UPDATE ... WHERE status = 'pending': the row it names, if it is pending, and no other.
LEMMA SettleEffect ==
    ASSUME rows \in Seq(RowType), NEW i \in 1..Len(rows),
           NEW s, NEW t, SettledRow(s, t), Settle(i, s, t)
    PROVE  /\ rows' \in Seq(RowType) /\ Len(rows') = Len(rows)
           /\ \A k \in 1..Len(rows) : k # i => rows'[k] = rows[k]
           /\ ~IsPending(i) => rows' = rows
           /\ IsPending(i) => rows'[i] = [status |-> s, answer |-> t, due |-> rows[i].due]
<1>1. CASE ~IsPending(i)
  BY <1>1 DEF Settle
<1>2. CASE IsPending(i)
  <2> DEFINE row == [status |-> s, answer |-> t, due |-> rows[i].due]
  <2>1. rows[i] \in RowType
    BY ElementOfSeq
  <2>2. row \in RowType
    BY <2>1 DEF RowType, SettledRow
  <2>3. rows' = [rows EXCEPT ![i] = row]
    BY <1>2 DEF Settle
  <2>4. /\ rows' \in Seq(RowType) /\ Len(rows') = Len(rows)
        /\ \A k \in 1..Len(rows) : rows'[k] = IF k = i THEN row ELSE rows[k]
    BY <2>2, <2>3, RowReplaced, Zenon
  <2> QED
    BY <1>2, <2>4
<1> QED
  BY <1>1, <1>2

\* INSERT: one more row, pending, after the others.
LEMMA AppendEffect ==
    ASSUME rows \in Seq(RowType), rows' = Append(rows, Pending)
    PROVE  /\ rows' \in Seq(RowType) /\ Len(rows') = Len(rows) + 1
           /\ \A k \in 1..Len(rows) : rows'[k] = rows[k]
           /\ rows'[Len(rows) + 1] = Pending
           /\ rows' # << >>
<1>1. Pending \in RowType
  BY DEF Pending, RowType
<1> QED
  BY <1>1

-----------------------------------------------------------------------------
(* The shapes of a call's step.                                            *)

\* A call keeps to its row: the step that assigns none assigns the same.
LEMMA SameRow ==
    ASSUME Inv, NEW a \in Askers,
           pc[a] \in {"machines", "waiting", "expiring", "closing"}
    PROVE  at[a] \in 1..Len(rows) /\ at = [at EXCEPT ![a] = at[a]]
BY DEF Inv, TypeOK, Placed

\* Who will read the row, or whose end left it to nobody.
Stands(a, i) == Awaits(a, i) \/ told[a].how \in {"cancelled", "lost"}

\* A step that opens no approval, and takes no pending one's waiter away, leaves
\* each with one.
LEMMA WaitersKept ==
    ASSUME Inv, UNCHANGED scene, rows' \in Seq(RowType), Len(rows') = Len(rows),
           \A k \in 1..Len(rows) : IsPending(k)' => IsPending(k),
           \A b \in scene.askers, k \in 1..Len(rows) :
               ~IsQuestion /\ IsPending(k)' /\ Stands(b, k) => Stands(b, k)'
    PROVE  DecisionsReachTheStep'
<1> SUFFICES ASSUME ~IsQuestion, NEW k \in 1..Len(rows), IsPending(k)'
             PROVE  k = Len(rows) /\ \E b \in scene.askers : Stands(b, k)'
  BY DEF DecisionsReachTheStep, IsQuestion, Stands
<1>1. k \in DOMAIN rows /\ IsPending(k)
  BY DEF Inv, TypeOK
<1>2. k = Len(rows) /\ \E b \in scene.askers : Stands(b, k)
  BY <1>1 DEF Inv, DecisionsReachTheStep, Stands
<1> QED
  BY <1>2

\* A pending approval is the newest row.
LEMMA PendingIsNewest ==
    ASSUME Inv, ~IsQuestion, NEW k \in 1..Len(rows), IsPending(k)
    PROVE  k = Len(rows)
BY DEF Inv, TypeOK, DecisionsReachTheStep

\* Until it returns it has been told nothing.
LEMMA UntoldYet ==
    ASSUME Inv, NEW a \in Askers, pc[a] # "told"
    PROVE  told[a].how = "nothing"
<1>1. told[a] = Nothing
  BY DEF Inv, Placed
<1>2. Nothing.how = "nothing"
  BY DEF Nothing
<1> QED
  BY <1>1, <1>2

\* So its row may change.
LEMMA NotToldYet ==
    ASSUME Inv, NEW a \in Askers, pc[a] # "told", NEW i, at' = [at EXCEPT ![a] = i]
    PROVE  \A b \in Askers : told[b].how \in {"answer", "approved", "rejected", "expired"} =>
               at'[b] = at[b]
<1>1. told[a].how = "nothing"
  BY UntoldYet
<1>2. \A b \in Askers : b # a => at'[b] = at[b]
  BY DEF Inv, TypeOK
<1> QED
  BY <1>1, <1>2

\* It goes on: to a place where it waits on a row it has.
LEMMA MoveStep ==
    ASSUME Inv, NEW a \in Askers, NEW place \in {"waiting", "expiring", "closing"},
           NEW i \in 1..Len(rows),
           pc[a] \notin {"asking", "told"}, Go(a, place), at' = [at EXCEPT ![a] = i],
           place = "closing" => IsQuestion,
           ~IsQuestion => i = Len(rows) \/ (pc[a] # "asked" /\ i = at[a]),
           UNCHANGED <<scene, rows, mine, late, cancelled, told, walks, asks, lives>>
    PROVE  Inv'
<1>1. TypeOK'
  BY DEF Inv, TypeOK, Go, IsQuestion
<1>2. Placed'
  BY DEF Inv, TypeOK, Placed, Go, IsQuestion
<1>3. ToldWhatIsRecorded'
  BY NotToldYet DEF Inv, ToldWhatIsRecorded
<1>4. Escalation'
  BY DEF Inv, TypeOK, Escalation, EscalatesOnce, Inserter, Go, IsQuestion
<1>5. DecisionsReachTheStep'
  <2>1. ASSUME NEW b \in Askers, NEW k \in 1..Len(rows),
               ~IsQuestion, IsPending(k), Stands(b, k)
        PROVE  Stands(b, k)'
    <3>1. k = Len(rows)
      BY <2>1, PendingIsNewest
    <3>2. CASE b # a
      BY <2>1, <3>2 DEF Inv, TypeOK, Stands, Awaits, Go
    <3>3. CASE b = a
      <4>1. pc'[a] = place /\ at'[a] = i /\ place \in {"waiting", "expiring"}
        BY <2>1 DEF Inv, TypeOK, Go
      <4>2. told[a].how = "nothing"
        BY UntoldYet
      <4>3. i = k
        BY <2>1, <3>1, <3>3, <4>2 DEF Stands, Awaits
      <4> QED
        BY <3>3, <4>1, <4>3 DEF Stands, Awaits
    <3> QED
      BY <3>2, <3>3
  <2>2. scene.askers \subseteq Askers
    BY DEF Inv, TypeOK, Askers
  <2>3. /\ UNCHANGED scene /\ rows' \in Seq(RowType) /\ Len(rows') = Len(rows)
        /\ \A k \in 1..Len(rows) : IsPending(k)' => IsPending(k)
    BY DEF Inv, TypeOK, IsPending
  <2>4. \A b \in scene.askers, k \in 1..Len(rows) :
           ~IsQuestion /\ IsPending(k)' /\ Stands(b, k) => Stands(b, k)'
    BY <2>1, <2>2, <2>3
  <2> QED
    BY <2>3, <2>4, WaitersKept
<1>6. NothingLeftPending'
  BY DEF Inv, TypeOK, NothingLeftPending, Go, IsQuestion, IsPending
<1> QED
  BY <1>1, <1>2, <1>3, <1>4, <1>5, <1>6 DEF Inv

\* It returns what the row says, or nothing that anybody said, and leaves the
\* row as it found it.
LEMMA TellStep ==
    ASSUME Inv, NEW a \in Askers, NEW i \in 1..Len(rows), NEW how, NEW text,
           pc[a] \notin {"asking", "told"}, at' = [at EXCEPT ![a] = i],
           [how |-> how, text |-> text] \in ToldType, Tell(a, how, text),
           how = "answer" => rows[i].status = "answered" /\ rows[i].answer = text,
           how \in {"approved", "rejected", "expired"} => rows[i].status = how,
           IsQuestion /\ IsPending(1) => how = "refused",
           ~IsQuestion => how = "cancelled" \/ (pc[a] = "waiting" /\ ~IsPending(at[a])),
           UNCHANGED <<scene, rows, mine, late, cancelled, walks, asks, lives>>
    PROVE  Inv'
<1>1. TypeOK'
  BY DEF Inv, TypeOK, Tell, Go, IsQuestion
<1>2. Placed'
  BY DEF Inv, TypeOK, Placed, Tell, Go, IsQuestion
<1>3. ToldWhatIsRecorded'
  BY DEF Inv, TypeOK, ToldWhatIsRecorded, Tell
<1>4. Escalation'
  BY DEF Inv, TypeOK, Escalation, EscalatesOnce, Inserter, Tell, Go, IsQuestion
<1>5. DecisionsReachTheStep'
  <2>1. ASSUME NEW b \in Askers, NEW k \in 1..Len(rows),
               ~IsQuestion, IsPending(k), Stands(b, k)
        PROVE  Stands(b, k)'
    <3>1. CASE b # a
      BY <2>1, <3>1 DEF Inv, TypeOK, Stands, Awaits, Tell, Go
    <3>2. CASE b = a /\ how = "cancelled"
      BY <3>2 DEF Inv, TypeOK, Stands, Tell
    <3>3. ASSUME b = a, pc[a] = "waiting", ~IsPending(at[a])
          PROVE  FALSE
      <4>1. told[a].how = "nothing"
        BY UntoldYet
      <4> QED
        BY <2>1, <3>3, <4>1 DEF Stands, Awaits
    <3> QED
      BY <2>1, <3>1, <3>2, <3>3
  <2>2. scene.askers \subseteq Askers
    BY DEF Inv, TypeOK, Askers
  <2>3. /\ UNCHANGED scene /\ rows' \in Seq(RowType) /\ Len(rows') = Len(rows)
        /\ \A k \in 1..Len(rows) : IsPending(k)' => IsPending(k)
    BY DEF Inv, TypeOK, IsPending
  <2>4. \A b \in scene.askers, k \in 1..Len(rows) :
           ~IsQuestion /\ IsPending(k)' /\ Stands(b, k) => Stands(b, k)'
    BY <2>1, <2>2, <2>3
  <2> QED
    BY <2>3, <2>4, WaitersKept
<1>6. NothingLeftPending'
  BY DEF Inv, TypeOK, Placed, NothingLeftPending, Tell, Go, IsQuestion, IsPending
<1> QED
  BY <1>1, <1>2, <1>3, <1>4, <1>5, <1>6 DEF Inv

\* It settles the row it waits on, if nobody has, and returns: what it reports
\* as an answer, or as an expiry, it has just written.
LEMMA SettleStep ==
    ASSUME Inv, NEW a \in Askers,
           NEW s, NEW t, SettledRow(s, t),
           NEW how, NEW text, [how |-> how, text |-> text] \in ToldType,
           pc[a] \notin {"asking", "asked", "told"},
           Settle(at[a], s, t), Tell(a, how, text),
           how = "answer" => IsPending(at[a]) /\ s = "answered" /\ t = text,
           how = "expired" => IsPending(at[a]) /\ s = "expired",
           how \notin {"approved", "rejected"},
           UNCHANGED <<scene, mine, at, late, cancelled, walks, asks, lives>>
    PROVE  Inv'
<1>1. rows \in Seq(RowType) /\ at[a] \in 1..Len(rows)
  BY DEF Inv, TypeOK, Placed
<1>2. /\ rows' \in Seq(RowType) /\ Len(rows') = Len(rows)
      /\ \A k \in 1..Len(rows) : k # at[a] => rows'[k] = rows[k]
      /\ ~IsPending(at[a]) => rows' = rows
      /\ IsPending(at[a]) => rows'[at[a]] = [status |-> s, answer |-> t, due |-> rows[at[a]].due]
  BY <1>1, SettleEffect
<1>3. \A k \in 1..Len(rows) : ~IsPending(k) => rows'[k] = rows[k]
  BY <1>1, <1>2
<1>4. \A k \in 1..Len(rows) : IsPending(k)' => IsPending(k) /\ k # at[a]
  <2>1. s # "pending"
    BY DEF SettledRow
  <2>2. ASSUME IsPending(at[a])'
        PROVE  FALSE
    BY <1>1, <1>2, <2>1, <2>2 DEF IsPending
  <2>3. ASSUME NEW k \in 1..Len(rows), k # at[a], IsPending(k)'
        PROVE  IsPending(k)
    BY <1>2, <2>3 DEF IsPending
  <2> QED
    BY <2>2, <2>3
<1>5. TypeOK'
  BY <1>2 DEF Inv, TypeOK, Tell, Go, IsQuestion
<1>6. Placed'
  BY <1>1, <1>2 DEF Inv, TypeOK, Placed, Tell, Go, IsQuestion
<1>7. ToldWhatIsRecorded'
  <2>1. ASSUME NEW b \in Askers, b # a
        PROVE  /\ told'[b].how = "answer" =>
                     rows'[at'[b]].status = "answered" /\ rows'[at'[b]].answer = told'[b].text
               /\ told'[b].how \in {"approved", "rejected", "expired"} =>
                     rows'[at'[b]].status = told'[b].how
    <3>1. told'[b] = told[b] /\ at'[b] = at[b]
      BY <2>1 DEF Inv, TypeOK, Tell
    <3>2. told[b].how \in {"answer", "approved", "rejected", "expired"} =>
             at[b] \in 1..Len(rows)
      BY DEF Inv, TypeOK, Placed
    <3>3. told[b].how \in {"answer", "approved", "rejected", "expired"} => ~IsPending(at[b])
      BY DEF Inv, ToldWhatIsRecorded, IsPending
    <3>4. told[b].how \in {"answer", "approved", "rejected", "expired"} =>
             rows'[at'[b]] = rows[at[b]]
      BY <1>3, <3>1, <3>2, <3>3
    <3> QED
      BY <3>1, <3>4 DEF Inv, ToldWhatIsRecorded
  <2>2. /\ told'[a].how = "answer" =>
               rows'[at'[a]].status = "answered" /\ rows'[at'[a]].answer = told'[a].text
        /\ told'[a].how \in {"approved", "rejected", "expired"} =>
               rows'[at'[a]].status = told'[a].how
    <3>1. told'[a] = [how |-> how, text |-> text] /\ at'[a] = at[a]
      BY DEF Inv, TypeOK, Tell
    <3> QED
      BY <1>2, <3>1
  <2> QED
    BY <2>1, <2>2 DEF ToldWhatIsRecorded
<1>8. Escalation'
  BY <1>1, <1>2 DEF Inv, TypeOK, Escalation, EscalatesOnce, Inserter, Tell, Go, IsQuestion
<1>9. DecisionsReachTheStep'
  <2>1. ASSUME NEW b \in Askers, NEW k \in 1..Len(rows),
               ~IsQuestion, IsPending(k)', Stands(b, k)
        PROVE  Stands(b, k)'
    <3>1. k # at[a]
      BY <1>4, <2>1
    <3>2. CASE b # a
      BY <2>1, <3>2 DEF Inv, TypeOK, Stands, Awaits, Tell, Go
    <3>3. b # a
      <4>1. told[a].how = "nothing"
        BY UntoldYet
      <4> QED
        BY <2>1, <3>1, <4>1 DEF Stands, Awaits
    <3> QED
      BY <3>2, <3>3
  <2>2. scene.askers \subseteq Askers
    BY DEF Inv, TypeOK, Askers
  <2>3. \A b \in scene.askers, k \in 1..Len(rows) :
           ~IsQuestion /\ IsPending(k)' /\ Stands(b, k) => Stands(b, k)'
    BY <2>1, <2>2
  <2> QED
    BY <1>2, <1>4, <2>3, WaitersKept
<1>10. NothingLeftPending'
  BY <1>1, <1>2, <1>4 DEF Inv, TypeOK, Placed, NothingLeftPending, Tell, Go, IsQuestion
<1> QED
  BY <1>5, <1>6, <1>7, <1>8, <1>9, <1>10 DEF Inv

-----------------------------------------------------------------------------
(* Questions.                                                              *)

\* AskQuestion inserts the first row, and then there is one inserter (askuser.go).
LEMMA AskQuestionStep ==
    ASSUME Inv, NEW a \in Askers, AskQuestion(a)
    PROVE  Inv'
<1>1. TypeOK'
  BY AppendEffect DEF Inv, TypeOK, AskQuestion, Go, IsQuestion
<1>2. Placed'
  BY AppendEffect DEF Inv, TypeOK, Placed, AskQuestion, Go, At, IsQuestion
<1>3. ToldWhatIsRecorded'
  BY AppendEffect DEF Inv, TypeOK, Placed, ToldWhatIsRecorded, AskQuestion, Go, At, IsQuestion
<1>4. Escalation'
  BY AppendEffect DEF Inv, TypeOK, Placed, Escalation, EscalatesOnce, Inserter, AskQuestion, Go, At, IsQuestion
<1>5. DecisionsReachTheStep'
  BY DEF DecisionsReachTheStep, AskQuestion, IsQuestion
<1>6. NothingLeftPending'
  BY AppendEffect DEF Inv, TypeOK, Placed, NothingLeftPending, AskQuestion, Go, At, IsQuestion, IsPending
<1> QED
  BY <1>1, <1>2, <1>3, <1>4, <1>5, <1>6 DEF Inv

\* Whoever has asked finds the one row there is.
LEMMA OneRow ==
    ASSUME Inv, IsQuestion, rows # << >>
    PROVE  Len(rows) = 1 /\ 1 \in 1..Len(rows)
<1>1. rows \in Seq(RowType) /\ Len(rows) <= 1
  BY DEF Inv, TypeOK
<1>2. Len(rows) \in Nat \ {0}
  BY <1>1, EmptySeq
<1>3. \A n \in Nat \ {0} : n <= 1 => n = 1 /\ 1 \in 1..n
  OBVIOUS
<1> QED
  BY <1>1, <1>2, <1>3, Zenon

\* resolvedResult reports what the row says.
LEMMA ResolvedStep ==
    ASSUME Inv, NEW a \in Askers, NEW i \in 1..Len(rows), IsQuestion,
           pc[a] \notin {"asking", "told"}, at' = [at EXCEPT ![a] = i],
           ~IsPending(i), Resolved(a, rows[i]),
           UNCHANGED <<scene, rows, mine, late, cancelled, walks, asks, lives>>
    PROVE  Inv'
<1> DEFINE how == IF rows[i].status = "answered" THEN "answer" ELSE "default"
<1>1. rows[i] \in RowType /\ i = 1
  BY DEF Inv, TypeOK
<1>2. Tell(a, how, rows[i].answer)
  BY DEF Resolved
<1>3. [how |-> how, text |-> rows[i].answer] \in ToldType
  BY <1>1 DEF RowType, ToldType
<1>4. /\ how = "answer" => rows[i].status = "answered"
      /\ how \notin {"approved", "rejected", "expired"}
  OBVIOUS
<1> HIDE DEF how
<1> QED
  BY <1>1, <1>2, <1>3, <1>4, TellStep

\* memoResult too, or that there is nothing to report.
LEMMA MemoStep ==
    ASSUME Inv, NEW a \in Askers, NEW i \in 1..Len(rows), IsQuestion,
           pc[a] \notin {"asking", "told"}, at' = [at EXCEPT ![a] = i],
           ~IsPending(i), Memo(a, rows[i]),
           UNCHANGED <<scene, rows, mine, late, cancelled, walks, asks, lives>>
    PROVE  Inv'
<1>1. CASE Resolved(a, rows[i])
  BY <1>1, ResolvedStep
<1>2. CASE Tell(a, "abort", "")
  <2>1. [how |-> "abort", text |-> ""] \in ToldType
    BY DEF ToldType
  <2>2. i = 1
    BY DEF Inv, TypeOK
  <2> QED
    BY <1>2, <2>1, <2>2, TellStep
<1> QED
  BY <1>1, <1>2 DEF Memo

\* The read-back: only the inserter goes to the machines, and it was the only one.
LEMMA ReadBackStep ==
    ASSUME Inv, NEW a \in Askers, ReadBack(a)
    PROVE  Inv'
<1>1. /\ pc[a] = "asked" /\ IsQuestion /\ rows # << >>
      /\ at' = [at EXCEPT ![a] = 1]
      /\ UNCHANGED <<scene, rows, mine, late, cancelled, asks, lives>>
  BY DEF Inv, Placed, ReadBack, At
<1>2. Len(rows) = 1 /\ 1 \in 1..Len(rows)
  BY <1>1, OneRow
<1>3. CASE ~IsPending(1) /\ (IF mine[a] THEN Resolved(a, rows[1]) ELSE Memo(a, rows[1]))
           /\ UNCHANGED walks
  BY <1>1, <1>2, <1>3, ResolvedStep, MemoStep
<1>4. CASE IsPending(1) /\ ~mine[a] /\ Go(a, "waiting") /\ UNCHANGED <<told, walks>>
  BY <1>1, <1>2, <1>4, MoveStep
<1>5. CASE /\ IsPending(1) /\ mine[a] /\ Go(a, "machines")
           /\ walks' = IF scene.channel = "agent" THEN walks + 1 ELSE walks
           /\ UNCHANGED told
  <2>1. walks = 0 /\ walks' \in {0, 1}
    BY <1>1, <1>5 DEF Inv, Escalation, Inserter
  <2>2. TypeOK'
    BY <1>1, <1>2, <1>5, <2>1 DEF Inv, TypeOK, Go, IsQuestion
  <2>3. Placed'
    BY <1>1, <1>2, <1>5 DEF Inv, TypeOK, Placed, Go, IsQuestion
  <2>4. ToldWhatIsRecorded'
    BY <1>1, <1>5, NotToldYet DEF Inv, ToldWhatIsRecorded
  <2>5. Escalation'
    <3>1. \A b \in Askers : ~(Inserter(b)')
      BY <1>1, <1>5 DEF Inv, TypeOK, Escalation, Inserter, Go
    <3> QED
      BY <1>1, <2>1, <3>1 DEF Inv, Escalation, EscalatesOnce, IsQuestion
  <2>6. DecisionsReachTheStep'
    BY <1>1 DEF DecisionsReachTheStep, IsQuestion
  <2>7. NothingLeftPending'
    BY <1>1, <1>5 DEF Inv, TypeOK, Placed, NothingLeftPending, Go, IsQuestion, IsPending
  <2> QED
    BY <2>2, <2>3, <2>4, <2>5, <2>6, <2>7 DEF Inv
<1> QED
  BY <1>3, <1>4, <1>5 DEF ReadBack

\* record: the answer written is the one reported, or the winner's is.
LEMMA RecordStep ==
    ASSUME Inv, NEW a \in Askers, NEW answer \in Answers, pc[a] = "machines",
           Record(a, answer),
           UNCHANGED <<scene, mine, at, late, cancelled, walks, asks, lives>>
    PROVE  Inv'
<1>1. IsQuestion /\ at[a] \in 1..Len(rows) /\ at' = [at EXCEPT ![a] = at[a]]
  BY SameRow DEF Inv, Placed
<1>2. CASE Settle(at[a], "aborted", "") /\ Tell(a, "abandoned", "")
  <2>1. SettledRow("aborted", "") /\ [how |-> "abandoned", text |-> ""] \in ToldType
    BY DEF SettledRow, ToldType
  <2> QED
    BY <1>2, <2>1, SettleStep
<1>3. CASE IsPending(at[a]) /\ Settle(at[a], "answered", answer) /\ Tell(a, "answer", answer)
  <2>1. SettledRow("answered", answer) /\ [how |-> "answer", text |-> answer] \in ToldType
    BY DEF SettledRow, ToldType
  <2> QED
    BY <1>3, <2>1, SettleStep
<1>4. CASE Tell(a, "refused", "") /\ UNCHANGED rows
  <2>1. [how |-> "refused", text |-> ""] \in ToldType
    BY DEF ToldType
  <2> QED
    BY <1>1, <1>4, <2>1, TellStep
<1>5. CASE ~IsPending(at[a]) /\ Resolved(a, rows[at[a]]) /\ UNCHANGED rows
  BY <1>1, <1>5, ResolvedStep
<1> QED
  BY <1>2, <1>3, <1>4, <1>5 DEF Record

\* answerFromMachines records, or leaves it to a person.
LEMMA AnswerFromMachinesStep ==
    ASSUME Inv, NEW a \in Askers, AnswerFromMachines(a)
    PROVE  Inv'
<1>1. /\ pc[a] = "machines"
      /\ UNCHANGED <<scene, mine, at, late, cancelled, walks, asks, lives>>
  BY DEF AnswerFromMachines, At
<1>2. CASE \E answer \in Answers : Record(a, answer)
  BY <1>1, <1>2, RecordStep
<1>3. CASE Go(a, "waiting") /\ UNCHANGED <<rows, told>>
  <2>1. at[a] \in 1..Len(rows) /\ at' = [at EXCEPT ![a] = at[a]]
    BY <1>1, SameRow
  <2> QED
    BY <1>1, <1>3, <2>1, MoveStep
<1> QED
  BY <1>2, <1>3 DEF AnswerFromMachines

\* A poll of the wait.
LEMMA PollStep ==
    ASSUME Inv, NEW a \in Askers, Poll(a)
    PROVE  Inv'
<1>1. pc[a] = "waiting" /\ IsQuestion
  BY DEF Poll, At
<1>2. at[a] \in 1..Len(rows) /\ at' = [at EXCEPT ![a] = at[a]]
  BY <1>1, SameRow DEF Poll
<1>3. CASE ~IsPending(at[a]) /\ Resolved(a, rows[at[a]])
  BY <1>1, <1>2, <1>3, ResolvedStep DEF Poll
<1>4. CASE Go(a, "expiring") /\ UNCHANGED told
  BY <1>1, <1>2, <1>4, MoveStep DEF Poll
<1> QED
  BY <1>3, <1>4 DEF Poll

\* expire reads once more.
LEMMA ExpireStep ==
    ASSUME Inv, NEW a \in Askers, Expire(a)
    PROVE  Inv'
<1>1. pc[a] = "expiring" /\ IsQuestion
  BY DEF Expire, At
<1>2. at[a] \in 1..Len(rows) /\ at' = [at EXCEPT ![a] = at[a]]
  BY <1>1, SameRow DEF Expire
<1>3. CASE ~IsPending(at[a]) /\ Resolved(a, rows[at[a]])
  BY <1>1, <1>2, <1>3, ResolvedStep DEF Expire
<1>4. CASE Go(a, "closing") /\ UNCHANGED told
  BY <1>1, <1>2, <1>4, MoveStep DEF Expire
<1> QED
  BY <1>3, <1>4 DEF Expire

\* It closes the row, or finds it closed; either way it reports no answer.
LEMMA CloseExpiredStep ==
    ASSUME Inv, NEW a \in Askers, CloseExpired(a)
    PROVE  Inv'
<1>1. /\ pc[a] = "closing"
      /\ UNCHANGED <<scene, mine, at, late, cancelled, walks, asks, lives>>
  BY DEF CloseExpired, At
<1>2. CASE Settle(at[a], "expired", Default) /\ Tell(a, "default", Default)
  <2>1. SettledRow("expired", Default) /\ [how |-> "default", text |-> Default] \in ToldType
    BY DEF SettledRow, ToldType
  <2> QED
    BY <1>1, <1>2, <2>1, SettleStep
<1>3. CASE Settle(at[a], "expired", "") /\ Tell(a, "abort", "")
  <2>1. SettledRow("expired", "") /\ [how |-> "abort", text |-> ""] \in ToldType
    BY DEF SettledRow, ToldType
  <2> QED
    BY <1>1, <1>3, <2>1, SettleStep
<1> QED
  BY <1>2, <1>3 DEF CloseExpired

\* A step that ended closes its question.
LEMMA AbandonStep ==
    ASSUME Inv, NEW a \in Askers, Abandon(a)
    PROVE  Inv'
<1>1. SettledRow("aborted", "") /\ [how |-> "abandoned", text |-> ""] \in ToldType
  BY DEF SettledRow, ToldType
<1> QED
  BY <1>1, SettleStep DEF Abandon, At

\* recordTerminal reports what it wrote.
LEMMA RecordTerminalStep ==
    ASSUME Inv, NEW a \in Askers, NEW answer \in Answers, RecordTerminal(a, answer)
    PROVE  Inv'
<1>1. SettledRow("answered", answer) /\ [how |-> "answer", text |-> answer] \in ToldType
  BY DEF SettledRow, ToldType
<1> QED
  BY <1>1, SettleStep DEF RecordTerminal, At

-----------------------------------------------------------------------------
(* Approvals.                                                              *)

\* RequestApprovalFor inserts only where no row is live, so the newest is the pending one.
LEMMA RequestApprovalStep ==
    ASSUME Inv, NEW a \in Askers, RequestApproval(a)
    PROVE  Inv'
<1>1. /\ pc[a] = "asking" /\ ~IsQuestion
      /\ UNCHANGED <<scene, mine, at, late, cancelled, walks, asks, lives>>
  BY DEF RequestApproval, At
<1>2. CASE Tell(a, "cancelled", "") /\ UNCHANGED rows
  <2>1. [how |-> "cancelled", text |-> ""] \in ToldType
    BY DEF ToldType
  <2>2. TypeOK'
    BY <1>1, <1>2, <2>1 DEF Inv, TypeOK, Tell, Go, IsQuestion
  <2>3. Placed'
    BY <1>1, <1>2 DEF Inv, TypeOK, Placed, Tell, Go, IsQuestion
  <2>4. ToldWhatIsRecorded'
    BY <1>1, <1>2 DEF Inv, TypeOK, ToldWhatIsRecorded, Tell
  <2>5. Escalation'
    BY <1>1, <1>2 DEF Inv, TypeOK, Escalation, EscalatesOnce, Tell, Go, IsQuestion
  <2>6. \A b \in scene.askers, k \in 1..Len(rows) :
           ~IsQuestion /\ IsPending(k)' /\ Stands(b, k) => Stands(b, k)'
    BY <1>1, <1>2 DEF Inv, TypeOK, Askers, Stands, Awaits, Tell, Go
  <2>7. rows' \in Seq(RowType) /\ \A k \in 1..Len(rows) : IsPending(k)' => IsPending(k)
    BY <1>1, <1>2 DEF Inv, TypeOK, IsPending
  <2>8. DecisionsReachTheStep'
    BY <1>1, <1>2, <2>6, <2>7, WaitersKept
  <2>9. NothingLeftPending'
    BY <1>1 DEF NothingLeftPending, IsQuestion
  <2> QED
    BY <2>2, <2>3, <2>4, <2>5, <2>8, <2>9 DEF Inv
<1>3. CASE /\ \E i \in DOMAIN rows : rows[i].status \in {"pending", "approved"}
           /\ Go(a, "asked") /\ UNCHANGED <<rows, told>>
  <2>1. rows # << >>
    BY <1>3
  <2>2. TypeOK'
    BY <1>1, <1>3 DEF Inv, TypeOK, Go, IsQuestion
  <2>3. Placed'
    BY <1>1, <1>3, <2>1 DEF Inv, TypeOK, Placed, Go, IsQuestion
  <2>4. ToldWhatIsRecorded'
    BY <1>1, <1>3 DEF Inv, ToldWhatIsRecorded
  <2>5. Escalation'
    BY <1>1, <1>3, <2>1 DEF Inv, TypeOK, Escalation, EscalatesOnce, Go, IsQuestion
  <2>6. \A b \in scene.askers, k \in 1..Len(rows) :
           ~IsQuestion /\ IsPending(k)' /\ Stands(b, k) => Stands(b, k)'
    BY <1>1, <1>3 DEF Inv, TypeOK, Askers, Stands, Awaits, Go
  <2>7. rows' \in Seq(RowType) /\ \A k \in 1..Len(rows) : IsPending(k)' => IsPending(k)
    BY <1>1, <1>3 DEF Inv, TypeOK, IsPending
  <2>8. DecisionsReachTheStep'
    BY <1>1, <1>3, <2>6, <2>7, WaitersKept
  <2>9. NothingLeftPending'
    BY <1>1 DEF NothingLeftPending, IsQuestion
  <2> QED
    BY <2>2, <2>3, <2>4, <2>5, <2>8, <2>9 DEF Inv
<1>4. CASE /\ ~\E i \in DOMAIN rows : rows[i].status \in {"pending", "approved"}
           /\ rows' = Append(rows, Pending) /\ Go(a, "asked") /\ UNCHANGED told
  <2>1. rows \in Seq(RowType)
    BY DEF Inv, TypeOK
  <2>2. /\ rows' \in Seq(RowType) /\ Len(rows') = Len(rows) + 1
        /\ \A k \in 1..Len(rows) : rows'[k] = rows[k]
        /\ rows' # << >>
    BY <1>4, <2>1, AppendEffect
  <2>3. TypeOK'
    BY <1>1, <1>4, <2>2 DEF Inv, TypeOK, Go, IsQuestion
  <2>4. Placed'
    BY <1>1, <1>4, <2>2 DEF Inv, TypeOK, Placed, Go, IsQuestion
  <2>5. ToldWhatIsRecorded'
    BY <1>1, <1>4, <2>2 DEF Inv, TypeOK, Placed, ToldWhatIsRecorded
  <2>6. Escalation'
    BY <1>1, <1>4, <2>2 DEF Inv, TypeOK, Escalation, EscalatesOnce, Go, IsQuestion
  <2>7. DecisionsReachTheStep'
    <3>1. a \in scene.askers /\ pc'[a] = "asked"
      BY <1>1, <1>4 DEF Inv, TypeOK, Placed, Go
    <3>2. \A k \in 1..Len(rows) : ~IsPending(k)'
      BY <1>4, <2>1, <2>2 DEF IsPending
    <3>3. \A k \in DOMAIN rows' : k \notin 1..Len(rows) => k = Len(rows')
      BY <2>1, <2>2
    <3> QED
      BY <1>1, <3>1, <3>2, <3>3 DEF DecisionsReachTheStep, Awaits
  <2>8. NothingLeftPending'
    BY <1>1 DEF NothingLeftPending, IsQuestion
  <2> QED
    BY <2>3, <2>4, <2>5, <2>6, <2>7, <2>8 DEF Inv
<1> QED
  BY <1>2, <1>3, <1>4 DEF RequestApproval

\* The newest row is there to be found.
LEMMA FindApprovalStep ==
    ASSUME Inv, NEW a \in Askers, FindApproval(a)
    PROVE  Inv'
<1>1. /\ pc[a] = "asked" /\ ~IsQuestion /\ rows # << >> /\ rows \in Seq(RowType)
      /\ UNCHANGED <<scene, rows, mine, late, cancelled, walks, asks, lives>>
  BY DEF FindApproval, At, Inv, Placed, TypeOK
<1>2. CASE Tell(a, "cancelled", "") /\ UNCHANGED at
  <2>1. [how |-> "cancelled", text |-> ""] \in ToldType
    BY DEF ToldType
  <2>2. TypeOK'
    BY <1>1, <1>2, <2>1 DEF Inv, TypeOK, Tell, Go, IsQuestion
  <2>3. Placed'
    BY <1>1, <1>2 DEF Inv, TypeOK, Placed, Tell, Go, IsQuestion
  <2>4. ToldWhatIsRecorded'
    BY <1>1, <1>2 DEF Inv, TypeOK, ToldWhatIsRecorded, Tell
  <2>5. Escalation'
    BY <1>1, <1>2 DEF Inv, TypeOK, Escalation, EscalatesOnce, Tell, Go, IsQuestion
  <2>6. \A b \in scene.askers, k \in 1..Len(rows) :
           ~IsQuestion /\ IsPending(k)' /\ Stands(b, k) => Stands(b, k)'
    BY <1>1, <1>2 DEF Inv, TypeOK, Askers, Stands, Awaits, Tell, Go
  <2>7. rows' \in Seq(RowType) /\ \A k \in 1..Len(rows) : IsPending(k)' => IsPending(k)
    BY <1>1, <1>2 DEF Inv, TypeOK, IsPending
  <2>8. DecisionsReachTheStep'
    BY <1>1, <1>2, <2>6, <2>7, WaitersKept
  <2>9. NothingLeftPending'
    BY <1>1 DEF NothingLeftPending, IsQuestion
  <2> QED
    BY <2>2, <2>3, <2>4, <2>5, <2>8, <2>9 DEF Inv
<1>3. CASE at' = [at EXCEPT ![a] = Len(rows)] /\ Go(a, "waiting") /\ UNCHANGED told
  <2>1. Len(rows) \in Nat \ {0}
    BY <1>1, EmptySeq
  <2>2. \A n \in Nat \ {0} : n \in 1..n
    OBVIOUS
  <2>3. Len(rows) \in 1..Len(rows)
    BY <2>1, <2>2, Zenon
  <2> QED
    BY <1>1, <1>3, <2>3, MoveStep
<1> QED
  BY <1>2, <1>3 DEF FindApproval

\* A round of awaitApproval.
LEMMA AwaitApprovalStep ==
    ASSUME Inv, NEW a \in Askers, AwaitApproval(a)
    PROVE  Inv'
<1>1. /\ pc[a] = "waiting" /\ ~IsQuestion
      /\ UNCHANGED <<scene, rows, mine, at, late, cancelled, walks, asks, lives>>
  BY DEF AwaitApproval, At
<1>2. at[a] \in 1..Len(rows) /\ at' = [at EXCEPT ![a] = at[a]]
  BY <1>1, SameRow
<1>3. CASE Tell(a, "cancelled", "")
  <2>1. [how |-> "cancelled", text |-> ""] \in ToldType
    BY DEF ToldType
  <2> QED
    BY <1>1, <1>2, <1>3, <2>1, TellStep
<1>4. CASE rows[at[a]].status \in {"approved", "rejected"} /\ Tell(a, rows[at[a]].status, "")
  <2>1. \A s \in {"approved", "rejected"} :
           [how |-> s, text |-> ""] \in ToldType /\ s # "answer"
    BY DEF ToldType
  <2>2. ~IsPending(at[a])
    BY <1>4 DEF IsPending
  <2> QED
    BY <1>1, <1>2, <1>4, <2>1, <2>2, TellStep
<1>5. CASE Go(a, "expiring") /\ UNCHANGED told
  BY <1>1, <1>2, <1>5, MoveStep
<1> QED
  BY <1>3, <1>4, <1>5 DEF AwaitApproval

\* DecideApproval(expired) reports an expiry only if it took.
LEMMA ExpireApprovalStep ==
    ASSUME Inv, NEW a \in Askers, ExpireApproval(a)
    PROVE  Inv'
<1>1. /\ pc[a] = "expiring" /\ ~IsQuestion /\ Settle(at[a], "expired", "")
      /\ UNCHANGED <<scene, mine, at, late, cancelled, walks, asks, lives>>
  BY DEF ExpireApproval, At
<1>2. at[a] \in 1..Len(rows) /\ at' = [at EXCEPT ![a] = at[a]]
  BY <1>1, SameRow
<1>3. CASE IsPending(at[a]) /\ Tell(a, "expired", "")
  <2>1. SettledRow("expired", "") /\ [how |-> "expired", text |-> ""] \in ToldType
    BY DEF SettledRow, ToldType
  <2> QED
    BY <1>1, <1>3, <2>1, SettleStep
<1>4. CASE ~IsPending(at[a]) /\ Go(a, "waiting") /\ UNCHANGED told
  <2>1. rows' = rows
    BY <1>1, <1>4 DEF Settle
  <2> QED
    BY <1>1, <1>2, <1>4, <2>1, MoveStep
<1> QED
  BY <1>3, <1>4 DEF ExpireApproval

-----------------------------------------------------------------------------
(* People, clocks and the process.                                         *)

\* A person settles a row somebody is still waiting on, or has left for good.
LEMMA AnswerStep ==
    ASSUME Inv, NEW i \in 1..Len(rows), Answer(i)
    PROVE  Inv'
<1>1. /\ rows \in Seq(RowType) /\ IsPending(i)
      /\ UNCHANGED <<scene, pc, mine, at, late, cancelled, told, walks, asks, lives>>
  BY DEF Inv, TypeOK, Answer
<1>2. PICK s, t : SettledRow(s, t) /\ Settle(i, s, t)
  <2>1. CASE \E answer \in Answers : Settle(i, "answered", answer)
    <3>1. \A answer \in Answers : SettledRow("answered", answer)
      BY DEF SettledRow
    <3> QED
      BY <2>1, <3>1
  <2>2. CASE \E status \in {"approved", "rejected"} : Settle(i, status, "")
    <3>1. \A status \in {"approved", "rejected"} : SettledRow(status, "")
      BY DEF SettledRow
    <3> QED
      BY <2>2, <3>1
  <2> QED
    BY <2>1, <2>2 DEF Answer
<1>3. /\ rows' \in Seq(RowType) /\ Len(rows') = Len(rows)
      /\ \A k \in 1..Len(rows) : k # i => rows'[k] = rows[k]
      /\ rows'[i] = [status |-> s, answer |-> t, due |-> rows[i].due]
  BY <1>1, <1>2, SettleEffect
<1>4. \A k \in 1..Len(rows) : ~IsPending(k) => rows'[k] = rows[k]
  BY <1>1, <1>3
<1>5. \A k \in 1..Len(rows) : IsPending(k)' => IsPending(k) /\ k # i
  <2>1. s # "pending"
    BY <1>2 DEF SettledRow
  <2>2. ASSUME IsPending(i)'
        PROVE  FALSE
    BY <1>3, <2>1, <2>2 DEF IsPending
  <2>3. ASSUME NEW k \in 1..Len(rows), k # i, IsPending(k)'
        PROVE  IsPending(k)
    BY <1>3, <2>3 DEF IsPending
  <2> QED
    BY <2>2, <2>3
<1>6. TypeOK'
  BY <1>1, <1>3 DEF Inv, TypeOK, IsQuestion
<1>7. Placed'
  BY <1>1, <1>3 DEF Inv, TypeOK, Placed, IsQuestion
<1>8. ToldWhatIsRecorded'
  <2> SUFFICES ASSUME NEW b \in Askers,
                      told[b].how \in {"answer", "approved", "rejected", "expired"}
               PROVE  rows'[at'[b]] = rows[at[b]]
    BY <1>1 DEF Inv, ToldWhatIsRecorded
  <2>1. at[b] \in 1..Len(rows)
    BY DEF Inv, TypeOK, Placed
  <2>2. ~IsPending(at[b])
    BY DEF Inv, ToldWhatIsRecorded, IsPending
  <2> QED
    BY <1>1, <1>4, <2>1, <2>2
<1>9. Escalation'
  BY <1>1, <1>3 DEF Inv, Escalation, EscalatesOnce, Inserter, IsQuestion
<1>10. DecisionsReachTheStep'
  <2>1. \A b \in scene.askers, k \in 1..Len(rows) :
           ~IsQuestion /\ IsPending(k)' /\ Stands(b, k) => Stands(b, k)'
    BY <1>1 DEF Stands, Awaits
  <2> QED
    BY <1>1, <1>3, <1>5, <2>1, WaitersKept
<1>11. NothingLeftPending'
  BY <1>1, <1>3, <1>5 DEF Inv, NothingLeftPending, IsQuestion
<1> QED
  BY <1>6, <1>7, <1>8, <1>9, <1>10, <1>11 DEF Inv

\* A deadline that passes is the call's own, or its row's (approval.go due).
LEMMA TimeUpEffect ==
    ASSUME Inv, NEW a \in Askers, TimeUp(a)
    PROVE  /\ rows' \in Seq(RowType) /\ Len(rows') = Len(rows) /\ late' \in [Askers -> BOOLEAN]
           /\ \A k \in 1..Len(rows) : /\ rows'[k].status = rows[k].status
                                       /\ rows'[k].answer = rows[k].answer
<1>1. /\ pc[a] = "waiting" /\ rows \in Seq(RowType) /\ at[a] \in 1..Len(rows)
      /\ UNCHANGED <<scene, pc, mine, at, cancelled, told, walks, asks, lives>>
  BY DEF Inv, TypeOK, Placed, TimeUp, At
<1>2. CASE late' = [late EXCEPT ![a] = TRUE] /\ UNCHANGED rows
  BY <1>1, <1>2 DEF Inv, TypeOK
<1>3. CASE rows' = [rows EXCEPT ![at[a]].due = TRUE] /\ UNCHANGED late
  <2> DEFINE row == [rows[at[a]] EXCEPT !.due = TRUE]
  <2>1. rows[at[a]] \in RowType
    BY <1>1, ElementOfSeq
  <2>2. /\ row \in RowType /\ row.status = rows[at[a]].status
        /\ row.answer = rows[at[a]].answer
    BY <2>1 DEF RowType
  <2>3. rows' = [rows EXCEPT ![at[a]] = row]
    BY <1>3
  <2>4. /\ rows' \in Seq(RowType) /\ Len(rows') = Len(rows)
        /\ \A k \in 1..Len(rows) : rows'[k] = IF k = at[a] THEN row ELSE rows[k]
    BY <1>1, <2>2, <2>3, RowReplaced, Zenon
  <2> HIDE DEF row
  <2> QED
    BY <1>1, <1>3, <2>2, <2>4 DEF Inv, TypeOK
<1> QED
  BY <1>2, <1>3 DEF TimeUp

\* A deadline that passes changes nothing else.
LEMMA TimeUpStep ==
    ASSUME Inv, NEW a \in Askers, TimeUp(a)
    PROVE  Inv'
<1>1. UNCHANGED <<scene, pc, mine, at, cancelled, told, walks, asks, lives>>
  BY DEF TimeUp
<1>2. /\ rows' \in Seq(RowType) /\ Len(rows') = Len(rows) /\ late' \in [Askers -> BOOLEAN]
      /\ \A k \in 1..Len(rows) : /\ rows'[k].status = rows[k].status
                                  /\ rows'[k].answer = rows[k].answer
  BY TimeUpEffect
<1>3. TypeOK'
  BY <1>1, <1>2 DEF Inv, TypeOK, IsQuestion
<1>4. Placed'
  BY <1>1, <1>2 DEF Inv, TypeOK, Placed, IsQuestion
<1>5. ToldWhatIsRecorded'
  <2> SUFFICES ASSUME NEW b \in Askers,
                      told[b].how \in {"answer", "approved", "rejected", "expired"}
               PROVE  /\ rows'[at'[b]].status = rows[at[b]].status
                      /\ rows'[at'[b]].answer = rows[at[b]].answer
    BY <1>1 DEF Inv, ToldWhatIsRecorded
  <2>1. at[b] \in 1..Len(rows)
    BY DEF Inv, TypeOK, Placed
  <2> QED
    BY <1>1, <1>2, <2>1
<1>6. Escalation'
  BY <1>1, <1>2 DEF Inv, Escalation, EscalatesOnce, Inserter, IsQuestion
<1>7. DecisionsReachTheStep'
  <2>1. \A b \in scene.askers, k \in 1..Len(rows) :
           ~IsQuestion /\ IsPending(k)' /\ Stands(b, k) => Stands(b, k)'
    BY <1>1 DEF Stands, Awaits
  <2>2. \A k \in 1..Len(rows) : IsPending(k)' => IsPending(k)
    BY <1>2 DEF IsPending
  <2> QED
    BY <1>1, <1>2, <2>1, <2>2, WaitersKept
<1>8. NothingLeftPending'
  BY <1>1, <1>2 DEF Inv, NothingLeftPending, IsQuestion, IsPending
<1> QED
  BY <1>3, <1>4, <1>5, <1>6, <1>7, <1>8 DEF Inv

\* A cancelled context touches no row.
LEMMA CancelStep ==
    ASSUME Inv, NEW a \in Askers, Cancel(a)
    PROVE  Inv'
<1>1. /\ cancelled' = [cancelled EXCEPT ![a] = TRUE]
      /\ UNCHANGED <<scene, rows, pc, mine, at, late, told, walks, asks, lives>>
  BY DEF Cancel
<1>2. TypeOK'
  BY <1>1 DEF Inv, TypeOK, IsQuestion
<1>3. Placed' /\ ToldWhatIsRecorded'
  BY <1>1 DEF Inv, Placed, ToldWhatIsRecorded, IsQuestion
<1>4. Escalation'
  BY <1>1 DEF Inv, Escalation, EscalatesOnce, Inserter, IsQuestion
<1>5. DecisionsReachTheStep' /\ NothingLeftPending'
  BY <1>1 DEF Inv, DecisionsReachTheStep, Awaits, NothingLeftPending, IsQuestion, IsPending
<1> QED
  BY <1>2, <1>3, <1>4, <1>5 DEF Inv

\* Asked again, a call has been told nothing.
LEMMA AgainStep ==
    ASSUME Inv, NEW a \in Askers, Again(a)
    PROVE  Inv'
<1>1. /\ pc[a] = "told" /\ a \in scene.askers /\ asks < MaxAsks
      /\ pc' = [pc EXCEPT ![a] = "asking"] /\ told' = [told EXCEPT ![a] = Nothing]
      /\ late' = [late EXCEPT ![a] = FALSE] /\ asks' = asks + 1
      /\ UNCHANGED <<scene, rows, mine, at, cancelled, walks, lives>>
  BY DEF Again, At, Go
<1>2. Nothing \in ToldType /\ Nothing.how = "nothing"
  BY DEF Nothing, ToldType
<1>3. TypeOK'
  BY <1>1, <1>2, Bounds DEF Inv, TypeOK, IsQuestion
<1>4. Placed'
  BY <1>1, <1>2 DEF Inv, TypeOK, Placed, IsQuestion
<1>5. ToldWhatIsRecorded'
  BY <1>1, <1>2 DEF Inv, TypeOK, ToldWhatIsRecorded
<1>6. Escalation'
  BY <1>1 DEF Inv, TypeOK, Escalation, EscalatesOnce, Inserter, IsQuestion
<1>7. DecisionsReachTheStep'
  <2>1. \A b \in scene.askers, k \in 1..Len(rows) :
           ~IsQuestion /\ IsPending(k)' /\ Stands(b, k) => Stands(b, k)'
    BY <1>1 DEF Inv, TypeOK, Askers, Stands, Awaits
  <2>2. rows' \in Seq(RowType) /\ \A k \in 1..Len(rows) : IsPending(k)' => IsPending(k)
    BY <1>1 DEF Inv, TypeOK, IsPending
  <2> QED
    BY <1>1, <2>1, <2>2, WaitersKept
<1>8. NothingLeftPending'
  BY <1>1 DEF Inv, TypeOK, NothingLeftPending, IsQuestion, IsPending
<1> QED
  BY <1>3, <1>4, <1>5, <1>6, <1>7, <1>8 DEF Inv

\* A process that dies loses places and keeps rows; who was not done asks again,
\* or is lost.
LEMMA CrashStep ==
    ASSUME Inv, Crash
    PROVE  Inv'
<1>1. PICK back \in SUBSET scene.askers :
         /\ pc' = [a \in Askers |-> IF a \in back THEN "asking" ELSE "told"]
         /\ told' = [a \in Askers |->
                       IF a \in back THEN Nothing
                       ELSE IF pc[a] # "told" THEN Lost ELSE told[a]]
  BY DEF Crash
<1>2. /\ lives < MaxLives /\ lives' = lives + 1
      /\ late' = [a \in Askers |-> FALSE] /\ cancelled' = [a \in Askers |-> FALSE]
      /\ UNCHANGED <<scene, rows, mine, at, walks, asks>>
  BY DEF Crash
<1>3. /\ Nothing \in ToldType /\ Nothing.how = "nothing"
      /\ Lost \in ToldType /\ Lost.how = "lost"
  BY DEF Nothing, Lost, ToldType
<1>4. TypeOK'
  BY <1>1, <1>2, <1>3, Bounds DEF Inv, TypeOK, IsQuestion
<1>5. Placed'
  BY <1>1, <1>2, <1>3 DEF Inv, TypeOK, Placed, IsQuestion
<1>6. ToldWhatIsRecorded'
  BY <1>1, <1>2, <1>3 DEF Inv, TypeOK, ToldWhatIsRecorded
<1>7. Escalation'
  BY <1>1, <1>2 DEF Inv, TypeOK, Escalation, EscalatesOnce, Inserter, IsQuestion
<1>8. DecisionsReachTheStep'
  <2>1. \A b \in scene.askers, k \in 1..Len(rows) :
           ~IsQuestion /\ IsPending(k)' /\ Stands(b, k) => Stands(b, k)'
    <3>1. \A b \in Askers :
             /\ b \in back => pc'[b] = "asking"
             /\ b \notin back /\ pc[b] # "told" => told'[b] = Lost
             /\ b \notin back /\ pc[b] = "told" => told'[b] = told[b]
      BY <1>1
    <3>2. ASSUME NEW b \in Askers, NEW k \in 1..Len(rows), Stands(b, k)
          PROVE  Stands(b, k)'
      <4>1. CASE b \in back
        BY <3>1, <4>1 DEF Stands, Awaits
      <4>2. CASE b \notin back /\ pc[b] # "told"
        BY <1>3, <3>1, <4>2 DEF Stands
      <4>3. CASE b \notin back /\ pc[b] = "told"
        BY <3>1, <3>2, <4>3 DEF Stands, Awaits
      <4> QED
        BY <4>1, <4>2, <4>3
    <3>3. scene.askers \subseteq Askers
      BY DEF Inv, TypeOK, Askers
    <3> QED
      BY <3>2, <3>3
  <2>2. rows' \in Seq(RowType) /\ \A k \in 1..Len(rows) : IsPending(k)' => IsPending(k)
    BY <1>2 DEF Inv, TypeOK, IsPending
  <2> QED
    BY <1>2, <2>1, <2>2, WaitersKept
<1>9. NothingLeftPending'
  <2> SUFFICES ASSUME IsQuestion, rows # << >>, IsPending(1)
               PROVE  \E a \in scene.askers :
                         pc'[a] # "told" \/ told'[a].how \in {"refused", "lost"}
    BY <1>2 DEF NothingLeftPending, IsQuestion, IsPending
  <2>1. PICK a \in scene.askers : pc[a] # "told" \/ told[a].how \in {"refused", "lost"}
    BY DEF Inv, NothingLeftPending
  <2>2. a \in Askers
    BY DEF Inv, TypeOK, Askers
  <2> QED
    BY <1>1, <1>3, <2>1, <2>2
<1> QED
  BY <1>4, <1>5, <1>6, <1>7, <1>8, <1>9 DEF Inv

-----------------------------------------------------------------------------
\* Nothing is asked yet.
LEMMA InitInv == Init => Inv
<1> SUFFICES ASSUME Init PROVE Inv
  OBVIOUS
<1>1. Nothing \in ToldType /\ Nothing.how = "nothing"
  BY DEF Nothing, ToldType
<1>2. rows \in Seq(RowType) /\ Len(rows) = 0 /\ rows = << >>
  BY EmptySeq DEF Init
<1>3. TypeOK
  BY <1>1, <1>2, Bounds DEF Init, TypeOK
<1>4. Placed /\ ToldWhatIsRecorded
  BY <1>1 DEF Init, Placed, ToldWhatIsRecorded
<1>5. Escalation
  BY DEF Init, Escalation, EscalatesOnce, Inserter
<1>6. DecisionsReachTheStep /\ NothingLeftPending
  BY <1>2 DEF DecisionsReachTheStep, NothingLeftPending
<1> QED
  BY <1>3, <1>4, <1>5, <1>6 DEF Inv

\* Every step keeps the invariant.
LEMMA StepInv == Inv /\ [Next]_vars => Inv'
<1> SUFFICES ASSUME Inv, [Next]_vars PROVE Inv'
  OBVIOUS
<1>1. ASSUME NEW a \in Askers, Call(a)
      PROVE  Inv'
  BY <1>1, AskQuestionStep, ReadBackStep, AnswerFromMachinesStep, PollStep, ExpireStep,
     CloseExpiredStep, AbandonStep, RequestApprovalStep, FindApprovalStep, AwaitApprovalStep,
     ExpireApprovalStep DEF Call
<1>2. ASSUME NEW a \in Askers,
             \/ TimeUp(a) \/ Cancel(a) \/ Again(a)
             \/ \E answer \in Answers : RecordTerminal(a, answer)
      PROVE  Inv'
  BY <1>2, TimeUpStep, CancelStep, AgainStep, RecordTerminalStep
<1>3. ASSUME NEW i \in DOMAIN rows, Answer(i)
      PROVE  Inv'
  <2>1. i \in 1..Len(rows)
    BY DEF Inv, TypeOK
  <2> QED
    BY <1>3, <2>1, AnswerStep
<1>4. CASE Crash
  BY <1>4, CrashStep
<1>5. CASE UNCHANGED vars
  BY <1>5 DEF vars, Inv, TypeOK, Placed, ToldWhatIsRecorded, Escalation, EscalatesOnce, Inserter,
              DecisionsReachTheStep, Awaits, NothingLeftPending, IsQuestion, IsPending
<1> QED
  BY <1>1, <1>2, <1>3, <1>4, <1>5 DEF Next

\* The inductive invariant holds in every state.
THEOREM Invariance == Spec => []Inv
<1> QED
  BY InitInv, StepInv, PTL DEF Spec

\* Types, with a question's single row, hold for any scenes and any number of
\* askers, restarts and later asks.
THEOREM TypeCorrect == Spec => []TypeOK
<1>1. Inv => TypeOK
  BY DEF Inv
<1> QED
  BY <1>1, Invariance, PTL

\* Who is told an answer is told the question's, and who is told a decision, or
\* that an approval expired, the approval's, for as long as the run lasts
\* (askuser.go record, resolvedResult, memoResult; approval.go awaitApproval).
\* What a question's own timeout reports (CloseExpired) is not part of it.
THEOREM ToldTruly == Spec => []ToldWhatIsRecorded
<1>1. Inv => ToldWhatIsRecorded
  BY DEF Inv
<1> QED
  BY <1>1, Invariance, PTL

\* A question reaches the responding agent at most once (askuser.go
\* answerFromMachines), however many cells ask and however often they restart.
THEOREM EscalatedAtMostOnce == Spec => []EscalatesOnce
<1>1. Inv => EscalatesOnce
  BY DEF Inv, Escalation
<1> QED
  BY <1>1, Invariance, PTL

\* A pending approval is the newest row, the one FindApproval reads, and somebody
\* waits on it or is on the way there, unless a step ended under its wait or its
\* process died (approval.go:52, 94-97).
THEOREM DecisionsReach == Spec => []DecisionsReachTheStep
<1>1. Inv => DecisionsReachTheStep
  BY DEF Inv
<1> QED
  BY <1>1, Invariance, PTL

\* A call that returns leaves no question pending with nobody waiting on it
\* (askuser.go Abandon, expire, record; questions.go CloseQuestion), whether or
\* not anybody comes back after a crash, but where the fence refused a machine's
\* answer or a caller's process died.
THEOREM QuestionsClosed == Spec => []NothingLeftPending
<1>1. Inv => NothingLeftPending
  BY DEF Inv
<1> QED
  BY <1>1, Invariance, PTL

-----------------------------------------------------------------------------
(* "A decision cannot be overwritten" (docs/control-flow.md:881).          *)

DecisionStands ==
    \A i \in 1..Len(rows) : ~IsPending(i) =>
        rows'[i].status = rows[i].status /\ rows'[i].answer = rows[i].answer

\* One statement writes a row's status, and it writes pending rows only.
LEMMA SettleKeeps ==
    ASSUME Inv, NEW i \in 1..Len(rows), NEW s, NEW t, SettledRow(s, t), Settle(i, s, t)
    PROVE  DecisionStands
<1>1. rows \in Seq(RowType)
  BY DEF Inv, TypeOK
<1>2. /\ \A k \in 1..Len(rows) : k # i => rows'[k] = rows[k]
      /\ ~IsPending(i) => rows' = rows
  BY <1>1, SettleEffect
<1> QED
  BY <1>2 DEF DecisionStands

\* The same, of every step.
LEMMA StepKeeps == Inv /\ [Next]_vars => DecisionStands
<1> SUFFICES ASSUME Inv, [Next]_vars PROVE DecisionStands
  OBVIOUS
<1>0. rows \in Seq(RowType)
  BY DEF Inv, TypeOK
<1>1. CASE UNCHANGED rows
  BY <1>1 DEF DecisionStands
<1>2. CASE rows' = Append(rows, Pending)
  <2>1. \A k \in 1..Len(rows) : rows'[k] = rows[k]
    BY <1>0, <1>2, AppendEffect
  <2> QED
    BY <2>1 DEF DecisionStands
<1>3. ASSUME NEW a \in Askers, pc[a] \in {"machines", "waiting", "expiring", "closing"},
             \/ Settle(at[a], "aborted", "") \/ Settle(at[a], "expired", "")
             \/ Settle(at[a], "expired", Default)
             \/ \E answer \in Answers : Settle(at[a], "answered", answer)
      PROVE  DecisionStands
  <2>1. at[a] \in 1..Len(rows)
    BY <1>3, SameRow
  <2>2. /\ SettledRow("aborted", "") /\ SettledRow("expired", "") /\ SettledRow("expired", Default)
        /\ \A answer \in Answers : SettledRow("answered", answer)
    BY DEF SettledRow
  <2> QED
    BY <1>3, <2>1, <2>2, SettleKeeps
<1>4. ASSUME NEW a \in Askers, Call(a)
      PROVE  DecisionStands
  <2>1. CASE AskQuestion(a) \/ RequestApproval(a)
    BY <1>1, <1>2, <2>1 DEF AskQuestion, RequestApproval
  <2>2. CASE ReadBack(a) \/ Poll(a) \/ Expire(a) \/ FindApproval(a) \/ AwaitApproval(a)
    BY <1>1, <2>2 DEF ReadBack, Poll, Expire, FindApproval, AwaitApproval
  <2>3. CASE AnswerFromMachines(a)
    BY <1>1, <1>3, <2>3 DEF AnswerFromMachines, Record, At
  <2>4. CASE CloseExpired(a) \/ Abandon(a) \/ ExpireApproval(a)
    BY <1>3, <2>4 DEF CloseExpired, Abandon, ExpireApproval, At
  <2> QED
    BY <1>4, <2>1, <2>2, <2>3, <2>4 DEF Call
<1>5. ASSUME NEW a \in Askers, TimeUp(a)
      PROVE  DecisionStands
  BY <1>5, TimeUpEffect DEF DecisionStands
<1>6. ASSUME NEW a \in Askers, NEW answer \in Answers, RecordTerminal(a, answer)
      PROVE  DecisionStands
  BY <1>3, <1>6 DEF RecordTerminal, At
<1>7. ASSUME NEW i \in DOMAIN rows, Answer(i)
      PROVE  DecisionStands
  <2>1. i \in 1..Len(rows)
    BY <1>0
  <2>2. /\ \A answer \in Answers : SettledRow("answered", answer)
        /\ \A status \in {"approved", "rejected"} : SettledRow(status, "")
    BY DEF SettledRow
  <2> QED
    BY <1>7, <2>1, <2>2, SettleKeeps DEF Answer
<1>8. CASE Crash \/ UNCHANGED vars \/ \E a \in Askers : Cancel(a) \/ Again(a)
  BY <1>1, <1>8 DEF Crash, Cancel, Again, vars
<1> QED
  BY <1>4, <1>5, <1>6, <1>7, <1>8 DEF Next

\* Whatever people, clocks, machines and restarts do, an answer or a decision
\* once on record is never changed (askuser.go, approval.go: the stores'
\* UPDATE ... WHERE status = 'pending').
THEOREM DecisionsStand == Spec => [][DecisionStands]_vars
<1> QED
  BY Invariance, StepKeeps, PTL DEF Spec

=============================================================================
