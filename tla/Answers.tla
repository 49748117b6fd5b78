------------------------------ MODULE Answers -------------------------------
(***************************************************************************)
(* A run that waits on a person: an agent's ask_user question              *)
(* (internal/agent/askuser.go) or an approval: step                        *)
(* (internal/pipeline/approval.go).  What is asked is a row, found again   *)
(* by its key within the run: two cells that ask the same question, two    *)
(* branches with the same approval, and the resumed run of a daemon that   *)
(* restarted, all come to the same row, while people, a seeded answer and  *)
(* a responding agent race to settle it.                                   *)
(*                                                                         *)
(*   asking -> asked -> machines -> waiting -> expiring -> closing -> told *)
(***************************************************************************)
EXTENDS Naturals, Sequences

CONSTANTS
    Scenes,    \* the situations looked at, records of SceneType
    Answers,   \* what people and agents may say
    Offered,   \* the ones among the question's options
    MaxAsks,   \* how often the askers ask again, together
    MaxLives   \* how often the process dies

Askers == UNION {s.askers : s \in Scenes}

ASSUME AnswersAssumption ==
    /\ \A s \in Scenes :
          /\ s.kind \in {"question", "approval"}
          /\ s.channel \in {"none", "seed", "agent"}
          /\ {s.default, s.fenced, s.cancels} \subseteq BOOLEAN
    /\ Offered \subseteq Answers /\ "" \notin Answers
    /\ MaxAsks \in Nat /\ MaxLives \in Nat

VARIABLES
    scene,     \* one of Scenes
    rows,      \* the rows of this run under the one key, oldest first
    pc,        \* where each asker's call is
    mine,      \* AskQuestion: whether the asker inserted the row
    at,        \* the row it was given
    late,      \* whether its own wait has run out (questions)
    cancelled, \* whether its step's context has ended
    told,      \* what the call returned
    walks,     \* responder conversations begun
    asks, lives

vars == <<scene, rows, pc, mine, at, late, cancelled, told, walks, asks, lives>>

Default == "default"
Pending == [status |-> "pending", answer |-> "", due |-> FALSE]
Nothing == [how |-> "nothing", text |-> ""]
Lost == [how |-> "lost", text |-> ""]
RowType ==
    [status : {"pending", "answered", "approved", "rejected", "expired", "aborted"},
     answer : Answers \cup {"", Default}, due : BOOLEAN]
ToldType ==
    [how : {"nothing", "answer", "default", "abort", "abandoned", "refused",
            "approved", "rejected", "expired", "cancelled", "lost"},
     text : Answers \cup {"", Default}]

IsQuestion == scene.kind = "question"

TypeOK ==
    /\ scene \in Scenes
    /\ rows \in Seq(RowType)
    /\ IsQuestion => Len(rows) <= 1
    /\ pc \in [Askers -> {"asking", "asked", "machines", "waiting", "expiring",
                          "closing", "told"}]
    /\ mine \in [Askers -> BOOLEAN]
    /\ at \in [Askers -> 0..Len(rows)]
    /\ late \in [Askers -> BOOLEAN] /\ cancelled \in [Askers -> BOOLEAN]
    /\ told \in [Askers -> ToldType]
    /\ walks \in Nat /\ asks \in 0..MaxAsks /\ lives \in 0..MaxLives

Init ==
    /\ scene \in Scenes
    /\ rows = << >>
    /\ pc = [a \in Askers |-> IF a \in scene.askers THEN "asking" ELSE "told"]
    /\ mine = [a \in Askers |-> FALSE]
    /\ at = [a \in Askers |-> 0]
    /\ late = [a \in Askers |-> FALSE]
    /\ cancelled = [a \in Askers |-> FALSE]
    /\ told = [a \in Askers |-> Nothing]
    /\ walks = 0 /\ asks = 0 /\ lives = 0

At(a, place) == pc[a] = place
Go(a, place) == pc' = [pc EXCEPT ![a] = place]

\* The call returns.
Tell(a, how, text) ==
    /\ Go(a, "told")
    /\ told' = [told EXCEPT ![a] = [how |-> how, text |-> text]]

\* Both stores' UPDATE ... WHERE status = 'pending'.
IsPending(i) == rows[i].status = "pending"
Settle(i, status, answer) ==
    rows' = IF IsPending(i)
            THEN [rows EXCEPT ![i] = [status |-> status, answer |-> answer, due |-> @.due]]
            ELSE rows

\* The options fence of AnswerQuestion.
Admits(answer) == scene.fenced => answer \in Offered

-----------------------------------------------------------------------------
(* Questions.                                                              *)

\* AskQuestion's insert, which a row of the same key turns into nothing.  It
\* runs with the cancellation taken off, and so does the read after it.
AskQuestion(a) ==
    /\ At(a, "asking") /\ IsQuestion
    /\ mine' = [mine EXCEPT ![a] = rows = << >>]
    /\ rows' = IF rows = << >> THEN Append(rows, Pending) ELSE rows
    /\ Go(a, "asked")
    /\ UNCHANGED <<scene, at, late, cancelled, told, walks, asks, lives>>

\* resolvedResult: an answer, or what stands in for one.
Resolved(a, row) ==
    Tell(a, IF row.status = "answered" THEN "answer" ELSE "default", row.answer)

\* memoResult: an ending without an answer is repeated, not dressed up.
Memo(a, row) ==
    IF row.status = "answered" \/ row.answer # "" THEN Resolved(a, row)
    ELSE Tell(a, "abort", "")

\* Mutant: whoever finds the row pending tries the machines.
EveryoneWalks(a) ==
    /\ At(a, "asked") /\ IsQuestion
    /\ at' = [at EXCEPT ![a] = 1]
    /\ \/ ~IsPending(1) /\ Memo(a, rows[1]) /\ UNCHANGED walks
       \/ /\ IsPending(1) /\ Go(a, "machines")
          /\ walks' = IF scene.channel = "agent" THEN walks + 1 ELSE walks
          /\ UNCHANGED told
    /\ UNCHANGED <<scene, rows, mine, late, cancelled, asks, lives>>

\* The read-back: a row settled meanwhile ends the call, and of the others only
\* the one who inserted it goes to the machines.
ReadBack(a) ==
    /\ At(a, "asked") /\ IsQuestion
    /\ at' = [at EXCEPT ![a] = 1]
    /\ \/ /\ ~IsPending(1)
          /\ IF mine[a] THEN Resolved(a, rows[1]) ELSE Memo(a, rows[1])
          /\ UNCHANGED walks
       \/ /\ IsPending(1) /\ ~mine[a]
          /\ Go(a, "waiting") /\ UNCHANGED <<told, walks>>
       \/ /\ IsPending(1) /\ mine[a]
          /\ Go(a, "machines")
          /\ walks' = IF scene.channel = "agent" THEN walks + 1 ELSE walks
          /\ UNCHANGED told
    /\ UNCHANGED <<scene, rows, mine, late, cancelled, asks, lives>>

\* Mutant: a write that lost its race is reported as if it had won.
RecordOwn(a, answer) ==
    /\ Settle(at[a], "answered", answer)
    /\ Tell(a, "answer", answer)

\* record: a seeded answer or a responder's.  Losing the race is to be told the
\* winner's; an answer the fence refuses ends the call and leaves the row.
Record(a, answer) ==
    \/ /\ cancelled[a]
       /\ Settle(at[a], "aborted", "") /\ Tell(a, "abandoned", "")
    \/ /\ ~cancelled[a] /\ IsPending(at[a]) /\ Admits(answer)
       /\ Settle(at[a], "answered", answer) /\ Tell(a, "answer", answer)
    \/ /\ ~cancelled[a] /\ IsPending(at[a]) /\ ~Admits(answer)
       /\ Tell(a, "refused", "") /\ UNCHANGED rows
    \/ /\ ~cancelled[a] /\ ~IsPending(at[a])
       /\ Resolved(a, rows[at[a]]) /\ UNCHANGED rows

\* answerFromMachines: a seed at once; a responder when its conversation is
\* over, which may have come to nothing; else a person is waited on.
AnswerFromMachines(a) ==
    /\ At(a, "machines")
    /\ \/ scene.channel # "none" /\ \E answer \in Answers : Record(a, answer)
       \/ /\ scene.channel # "seed"
          /\ Go(a, "waiting") /\ UNCHANGED <<rows, told>>
    /\ UNCHANGED <<scene, mine, at, late, cancelled, walks, asks, lives>>

\* Mutant: the clock is never looked at.
PollForever(a) ==
    /\ At(a, "waiting") /\ IsQuestion /\ ~cancelled[a]
    /\ ~IsPending(at[a]) /\ Resolved(a, rows[at[a]])
    /\ UNCHANGED <<scene, rows, mine, at, late, cancelled, walks, asks, lives>>

Poll(a) ==
    /\ At(a, "waiting") /\ IsQuestion /\ ~cancelled[a]
    /\ \/ ~IsPending(at[a]) /\ Resolved(a, rows[at[a]])
       \/ IsPending(at[a]) /\ late[a] /\ Go(a, "expiring") /\ UNCHANGED told
    /\ UNCHANGED <<scene, rows, mine, at, late, cancelled, walks, asks, lives>>

\* expire reads the row once more; with its context gone it cannot.
Expire(a) ==
    /\ At(a, "expiring") /\ IsQuestion
    /\ IF ~cancelled[a] /\ ~IsPending(at[a])
       THEN Resolved(a, rows[at[a]])
       ELSE Go(a, "closing") /\ UNCHANGED told
    /\ UNCHANGED <<scene, rows, mine, at, late, cancelled, walks, asks, lives>>

\* And closes it: whether the write took is not asked.
CloseExpired(a) ==
    /\ At(a, "closing")
    /\ IF scene.default
       THEN Settle(at[a], "expired", Default) /\ Tell(a, "default", Default)
       ELSE Settle(at[a], "expired", "") /\ Tell(a, "abort", "")
    /\ UNCHANGED <<scene, mine, at, late, cancelled, walks, asks, lives>>

\* Mutant: the row of a step that ended is left as it is.
AbandonQuietly(a) ==
    /\ At(a, "waiting") /\ IsQuestion /\ cancelled[a]
    /\ Tell(a, "abandoned", "")
    /\ UNCHANGED <<scene, rows, mine, at, late, cancelled, walks, asks, lives>>

\* The step ended under the wait: the row is closed with it.
Abandon(a) ==
    /\ At(a, "waiting") /\ IsQuestion /\ cancelled[a]
    /\ Settle(at[a], "aborted", "") /\ Tell(a, "abandoned", "")
    /\ UNCHANGED <<scene, mine, at, late, cancelled, walks, asks, lives>>

\* recordTerminal: somebody typed it at this run's own terminal.  A refused or
\* late line changes nothing and they are prompted again.
RecordTerminal(a, answer) ==
    /\ At(a, "waiting") /\ IsQuestion /\ ~cancelled[a]
    /\ IsPending(at[a]) /\ Admits(answer)
    /\ Settle(at[a], "answered", answer) /\ Tell(a, "answer", answer)
    /\ UNCHANGED <<scene, mine, at, late, cancelled, walks, asks, lives>>

-----------------------------------------------------------------------------
(* Approvals.                                                              *)

\* Mutant: a resumed step asks again.
RequestAnew(a) ==
    /\ At(a, "asking") /\ ~IsQuestion
    /\ rows' = Append(rows, Pending)
    /\ Go(a, "asked")
    /\ UNCHANGED <<scene, mine, at, late, cancelled, told, walks, asks, lives>>

\* RequestApprovalFor: an insert that a live row turns into nothing, then a read
\* of the newest.
RequestApproval(a) ==
    /\ At(a, "asking") /\ ~IsQuestion
    /\ IF cancelled[a]
       THEN Tell(a, "cancelled", "") /\ UNCHANGED rows
       ELSE /\ rows' = IF \E i \in DOMAIN rows : rows[i].status \in {"pending", "approved"}
                       THEN rows ELSE Append(rows, Pending)
            /\ Go(a, "asked") /\ UNCHANGED told
    /\ UNCHANGED <<scene, mine, at, late, cancelled, walks, asks, lives>>

FindApproval(a) ==
    /\ At(a, "asked") /\ ~IsQuestion
    /\ IF cancelled[a]
       THEN Tell(a, "cancelled", "") /\ UNCHANGED at
       ELSE at' = [at EXCEPT ![a] = Len(rows)] /\ Go(a, "waiting") /\ UNCHANGED told
    /\ UNCHANGED <<scene, rows, mine, late, cancelled, walks, asks, lives>>

\* One round of awaitApproval.  The deadline counts from when it was asked, so
\* it is the row's; a cancelled wait leaves the row for whoever resumes it.
AwaitApproval(a) ==
    /\ At(a, "waiting") /\ ~IsQuestion
    /\ LET row == rows[at[a]] IN
       \/ cancelled[a] /\ Tell(a, "cancelled", "")
       \/ /\ ~cancelled[a] /\ row.status \in {"approved", "rejected"}
          /\ Tell(a, row.status, "")
       \/ /\ ~cancelled[a] /\ row.status \in {"pending", "expired"} /\ row.due
          /\ Go(a, "expiring") /\ UNCHANGED told
    /\ UNCHANGED <<scene, rows, mine, at, late, cancelled, walks, asks, lives>>

\* DecideApproval(expired): refused if somebody decided in between, and theirs
\* is read in the next round.
ExpireApproval(a) ==
    /\ At(a, "expiring") /\ ~IsQuestion
    /\ Settle(at[a], "expired", "")
    /\ IF IsPending(at[a]) THEN Tell(a, "expired", "")
       ELSE Go(a, "waiting") /\ UNCHANGED told
    /\ UNCHANGED <<scene, mine, at, late, cancelled, walks, asks, lives>>

-----------------------------------------------------------------------------
(* People, clocks and the process.                                         *)

\* steps questions answer, steps approvals approve and reject, the web pages.
Answer(i) ==
    /\ IsPending(i)
    /\ \/ IsQuestion /\ \E answer \in Answers : Admits(answer) /\ Settle(i, "answered", answer)
       \/ ~IsQuestion /\ \E status \in {"approved", "rejected"} : Settle(i, status, "")
    /\ UNCHANGED <<scene, pc, mine, at, late, cancelled, told, walks, asks, lives>>

TimeUp(a) ==
    /\ At(a, "waiting")
    /\ \/ IsQuestion /\ ~late[a] /\ late' = [late EXCEPT ![a] = TRUE] /\ UNCHANGED rows
       \/ /\ ~IsQuestion /\ ~rows[at[a]].due
          /\ rows' = [rows EXCEPT ![at[a]].due = TRUE] /\ UNCHANGED late
    /\ UNCHANGED <<scene, pc, mine, at, cancelled, told, walks, asks, lives>>

\* The step's own timeout, an abort, a failing sibling.
Cancel(a) ==
    /\ scene.cancels /\ pc[a] # "told" /\ ~cancelled[a]
    /\ cancelled' = [cancelled EXCEPT ![a] = TRUE]
    /\ UNCHANGED <<scene, rows, pc, mine, at, late, told, walks, asks, lives>>

\* A later turn or attempt asks the same; a rejected or expired approval that is
\* retried.
Again(a) ==
    /\ a \in scene.askers /\ At(a, "told") /\ ~cancelled[a] /\ asks < MaxAsks
    /\ ~IsQuestion => told[a].how \in {"rejected", "expired"}
    /\ Go(a, "asking")
    /\ late' = [late EXCEPT ![a] = FALSE]
    /\ told' = [told EXCEPT ![a] = Nothing]
    /\ asks' = asks + 1
    /\ UNCHANGED <<scene, rows, mine, at, cancelled, walks, lives>>

\* The process dies.  A resumed run takes its steps up from their start, and who
\* asks the same finds the same row; but the run may never be resumed (its job is
\* gone, its row aborted, nothing starts a killed steps run again), and an agent
\* may put it in other words, under another key.  Recovery closes no row.
Crash ==
    /\ lives < MaxLives
    /\ lives' = lives + 1
    /\ \E back \in SUBSET scene.askers :
          /\ pc' = [a \in Askers |-> IF a \in back THEN "asking" ELSE "told"]
          /\ told' = [a \in Askers |->
                        IF a \in back THEN Nothing
                        ELSE IF pc[a] # "told" THEN Lost ELSE told[a]]
    /\ late' = [a \in Askers |-> FALSE]
    /\ cancelled' = [a \in Askers |-> FALSE]
    /\ UNCHANGED <<scene, rows, mine, at, walks, asks>>

-----------------------------------------------------------------------------
\* What a call does of its own accord.
Call(a) ==
    \/ AskQuestion(a) \/ ReadBack(a) \/ AnswerFromMachines(a) \/ Poll(a)
    \/ Expire(a) \/ CloseExpired(a) \/ Abandon(a)
    \/ RequestApproval(a) \/ FindApproval(a) \/ AwaitApproval(a) \/ ExpireApproval(a)

Next ==
    \/ \E a \in Askers : \/ Call(a) \/ TimeUp(a) \/ Cancel(a) \/ Again(a)
                         \/ \E answer \in Answers : RecordTerminal(a, answer)
    \/ \E i \in DOMAIN rows : Answer(i)
    \/ Crash

Spec == Init /\ [][Next]_vars

\* Calls go on, a responder's conversation is bounded, waits run out.  Nothing
\* is assumed of people.
FairSpec ==
    /\ Spec
    /\ \A a \in Askers : WF_vars(Call(a)) /\ WF_vars(TimeUp(a))

-----------------------------------------------------------------------------
\* What a call reports as a person's, or an agent's, word is what the record
\* says, now and ever after: an answer is the question's, a decision or an expiry
\* the approval's (askuser.go record, "the row - not this process - is the answer
\* of record"; docs/control-flow.md:881, "A decision cannot be overwritten").  Of
\* a question's timeout it says nothing: CloseExpired reports the default, or an
\* abort, over an answer given since its read too (askuser.go:539-561).
ToldWhatIsRecorded ==
    \A a \in Askers :
        /\ told[a].how = "answer" =>
              rows[at[a]].status = "answered" /\ rows[at[a]].answer = told[a].text
        /\ told[a].how \in {"approved", "rejected", "expired"} =>
              rows[at[a]].status = told[a].how

\* One question goes to the responding agent once, however many cells ask it and
\* however often the run is resumed (askuser.go answerFromMachines, "so two
\* racing cells do not both escalate").
EscalatesOnce == walks <= 1

\* The call waits on this row, or is on its way to find the newest.
Awaits(a, i) ==
    \/ pc[a] \in {"asking", "asked"}
    \/ pc[a] \in {"waiting", "expiring"} /\ at[a] = i

\* A pending approval has a waiter that its decision will reach, and is never an
\* older row on which "a decision ... did nothing" (approval.go:52).  Without one
\* it is left only where the step ended under its wait, which closes nothing
\* (approval.go:94-97), or the process died on it.
DecisionsReachTheStep ==
    ~IsQuestion => \A i \in DOMAIN rows : IsPending(i) =>
        /\ i = Len(rows)
        /\ \E a \in scene.askers : Awaits(a, i) \/ told[a].how \in {"cancelled", "lost"}

\* A call that ends leaves no question open behind it, whoever it shared it with
\* and however it ends ("A question left pending after its step is gone is
\* unanswerable", questions.go CloseQuestion): a pending one has somebody waiting,
\* was refused its machine's answer by the fence, or outlived its process.
NothingLeftPending ==
    IsQuestion /\ rows # << >> /\ IsPending(1) =>
        \E a \in scene.askers : pc[a] # "told" \/ told[a].how \in {"refused", "lost"}

\* A waiter on an approval that another waiter let expire: the row is neither
\* decided nor its own to expire (approval.go:99-112), so it polls until its step
\* is ended.
LeftPolling(a) ==
    /\ ~IsQuestion /\ scene.askers # {a}
    /\ At(a, "waiting") /\ ~cancelled[a] /\ rows[at[a]].status = "expired"

\* Every wait ends, with nobody answering too: a question's, however many share
\* it (askuser.go), and an approval's (approval.go:32, "blocks until someone
\* approves or rejects, or the wait expires") - but for a second waiter's, which
\* the first one's expiry leaves polling.
AsksEnd ==
    \A a \in Askers : (pc[a] # "told") ~> (pc[a] = "told" \/ LeftPolling(a))
=============================================================================
