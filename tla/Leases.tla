------------------------------- MODULE Leases -------------------------------
(***************************************************************************)
(* The machines of one worker mapping (internal/venue: lease, pool;        *)
(* internal/pipeline: leases, venue).  A scope (a job's run, or a poll's   *)
(* round of checks) counts toward a machine through the process's Registry;*)
(* the last one out gives it back.  A mapping is                           *)
(*                                                                         *)
(*   a parked instance, started for its first user and stopped after its   *)
(*   last: one entry, through every life of the machine;                   *)
(*   a launched machine shared by every scope: one entry per machine; or   *)
(*   an exclusive pool of launched machines, capped, with a queue.         *)
(*                                                                         *)
(*   step: new -> (landing | sibling | queued) -> claimed -> acquiring ->  *)
(*         using (-> hit -> leaving -> new) -> done                        *)
(*                                                                         *)
(* The registry is one value, and the code under Registry.mu is operators  *)
(* from a registry to a registry.  The cloud accepts every give-back.      *)
(***************************************************************************)
EXTENDS Integers, FiniteSets, Sequences, SequencesExt

CONSTANTS
    Scopes,      \* every Leases of the process
    Checks,      \* the ones that ride along (CheckLeases)
    Tags,        \* the tags mapped to this worker
    Steps,       \* placed steps: each runs in a scope, on a tag
    ScopeOf,
    TagOf,
    Scenes,      \* the mappings looked at, who uses them and what may happen: SceneType
    Retries,     \* venueRetries
    MaxEntries   \* bound: entries alive, or still referred to, at once

Entries == 1..MaxEntries
None == 0
Nobody == "nobody"

SceneType ==
    [rung: {"stopped", "launch"}, exclusive: BOOLEAN, max: Nat, idle: BOOLEAN,  \* the mapping
     cast: SUBSET Steps,      \* the steps there are
     reclaims: Nat,           \* machines the cloud may take away
     fails: BOOLEAN,          \* acquisitions may fail
     aborts: SUBSET Scopes,   \* scopes somebody may cancel
     closes: BOOLEAN]         \* the daemon may stop

ASSUME LeasesAssumption ==
    /\ Checks \subseteq Scopes /\ Nobody \notin Scopes
    /\ ScopeOf \in [Steps -> Scopes] /\ TagOf \in [Steps -> Tags]
    /\ IsFiniteSet(Scopes) /\ IsFiniteSet(Tags) /\ IsFiniteSet(Steps)
    /\ Scenes \subseteq SceneType
    /\ \A m \in Scenes : m.exclusive => m.rung = "launch"     \* parsePool
    /\ Retries \in Nat /\ MaxEntries \in Nat \ {0}

VARIABLES
    scene,    \* the mapping, and what is looked at on it
    reg,      \* Registry: entries, current, the pool, live, closed
    scope,    \* [scope]: Leases
    step,     \* [step]: where it is, and the entry it is at
    cloud,    \* [machine]: "off", "running" or "dead" (reclaimed by the cloud)
    closing,  \* where Registry.Close is
    reclaims  \* machines taken away so far

vars == <<scene, reg, scope, step, cloud, closing, reclaims>>

Parked == scene.rung = "stopped"
Machine(e) == IF Parked THEN 1 ELSE e
Rides(s) == s \in Checks

NewEntry ==
    [refs |-> 0, jobs |-> 0, holder |-> Nobody, retired |-> FALSE,
     timer |-> "none", stale |-> FALSE,     \* the idle timer; a fired one superseded
     gone |-> "no", by |-> Nobody,          \* gone, and who is giving it back
     lease |-> "none", owes |-> FALSE]      \* lease.acquired and err; lease.release

EntryType ==
    [refs: Nat, jobs: Nat, holder: Scopes \cup {Nobody}, retired: BOOLEAN,
     timer: {"none", "armed", "fired"}, stale: BOOLEAN,
     gone: {"no", "going", "yes"}, by: Scopes \cup {Nobody},
     lease: {"none", "acquiring", "acquired", "failed"}, owes: BOOLEAN]

TypeOK ==
    /\ scene \in Scenes
    /\ reg.entry \in [Entries -> EntryType] /\ reg.current \in Entries \cup {None}
    /\ ToSet(reg.members) \subseteq Entries /\ IsInjective(reg.members)
    /\ reg.reserved \in [Scopes -> 0..1]
    /\ ToSet(reg.waiters) \subseteq Steps /\ IsInjective(reg.waiters)
    /\ reg.got \in [Steps -> Entries \cup {None}] /\ reg.live \subseteq Entries
    /\ scope \in [Scopes -> [phase: {"open", "releasing", "closed"}, cancelled: BOOLEAN,
                             held: [Tags -> Entries \cup {None}], owed: [Entries -> Nat],
                             claiming: BOOLEAN]]
    /\ step \in [Steps -> [pc: {"new", "landing", "sibling", "queued", "claimed", "acquiring",
                                "using", "hit", "leaving", "done"},
                           at: Entries \cup {None}, tries: 0..Retries]]
    /\ cloud \in [Entries -> {"off", "running", "dead"}]
    /\ closing \in {"no", "waiting", "forced", "closed"}
    /\ reclaims \in 0..scene.reclaims

Init ==
    /\ scene \in Scenes
    /\ reg = [entry |-> [e \in Entries |-> NewEntry], current |-> None, members |-> <<>>,
              reserved |-> [s \in Scopes |-> 0], waiters |-> <<>>, got |-> [p \in Steps |-> None],
              live |-> {}, closed |-> FALSE]
    /\ scope = [s \in Scopes |-> [phase |-> "open", cancelled |-> FALSE,
                                  held |-> [t \in Tags |-> None], owed |-> [e \in Entries |-> 0],
                                  claiming |-> FALSE]]
    /\ step = [p \in Steps |-> [pc |-> IF p \in scene.cast THEN "new" ELSE "done",
                                 at |-> None, tries |-> 0]]
    /\ cloud = [e \in Entries |-> "off"]
    /\ closing = "no" /\ reclaims = 0

-----------------------------------------------------------------------------
(* Under Registry.mu.                                                      *)

\* An identifier nothing refers to any more stands for a new entry.
Unused(r) ==
    {e \in Entries :
        /\ e \notin r.live /\ ~r.entry[e].stale /\ r.entry[e].refs = 0
        /\ \A p \in Steps : step[p].pc = "landing" => step[p].at # e}

FreshEntry(r) == CHOOSE e \in Unused(r) : TRUE

Born(r) ==
    LET e == FreshEntry(r)
    IN  [r EXCEPT !.entry[e] = NewEntry, !.live = @ \cup {e}]

\* pool.warmest: members are kept coldest first, so it is the last that will do.
Warmest(r, forJob) ==
    LET Fits(e) == ~forJob \/ (r.entry[e].jobs = 0 /\ r.entry[e].lease # "failed")
        fit == {i \in DOMAIN r.members : Fits(r.members[i])}
    IN  IF fit = {} THEN None ELSE r.members[Max(fit)]

Reserved(r) == SumFunction(r.reserved)
Room(r) == scene.max = 0 \/ Len(r.members) + Reserved(r) < scene.max

\* Registry.count and stopIdle; a timer that fired already is left to stand down.
Count(r, e, s) ==
    LET n   == r.entry[e]
        job == scene.exclusive /\ ~Rides(s)
    IN  [r EXCEPT !.entry[e] = [n EXCEPT !.refs = n.refs + 1,
                                         !.jobs = IF job THEN n.jobs + 1 ELSE n.jobs,
                                         !.holder = IF job THEN s ELSE n.holder,
                                         !.timer = "none",
                                         !.stale = n.stale \/ n.timer = "fired"]]

Member(r) == [Born(r) EXCEPT !.members = <<FreshEntry(r)>> \o @]

\* serve, of the first waiter: never of one behind another that still waits.
ServeNext(r) ==
    LET p    == Head(r.waiters)
        free == Warmest(r, TRUE)
        with == IF free = None THEN Member(r) ELSE r
        e    == IF free = None THEN Head(with.members) ELSE free
    IN  IF r.waiters # <<>> /\ (free # None \/ Room(r))
        THEN [Count(with, e, ScopeOf[p]) EXCEPT !.waiters = Tail(@), !.got[p] = e]
        ELSE r

Serving(r) ==
    LET served[n \in Nat] == IF n = 0 THEN r ELSE ServeNext(served[n - 1])
    IN  served

Serve(r) == IF r.closed THEN r ELSE Serving(r)[Len(r.waiters)]

\* Mutant: a machine's place is free, and nobody is told.
LeaveQuietly(r, e) == [r EXCEPT !.members = RemoveFirst(@, e)]

LeavePool(r, e) ==
    IF Contains(r.members, e) THEN Serve([r EXCEPT !.members = RemoveFirst(@, e)]) ELSE r

Forget(r, e) ==
    IF scene.exclusive THEN LeavePool(r, e)
    ELSE [r EXCEPT !.current = IF @ = e THEN None ELSE @]

\* A parked machine stays findable until its park lands.
TakeOut(r, e, who) ==
    LET out == [r EXCEPT !.entry[e] = [@ EXCEPT !.gone = "going", !.by = who]]
    IN  IF Parked THEN out ELSE Forget(out, e)

\* A job's hold ends: the machine is its pool's warmest, and the next waiter's.
LetGo(r, e) ==
    LET left == [r EXCEPT !.entry[e].jobs = @ - 1]
        free == [left EXCEPT !.entry[e].holder = Nobody,
                             !.members = IF Contains(@, e) THEN Append(RemoveFirst(@, e), e) ELSE @]
    IN  IF left.entry[e].jobs > 0 THEN left
        ELSE IF Contains(free.members, e) THEN Serve(free) ELSE free

Holding(r, e) == r.entry[e].lease = "acquired" /\ r.entry[e].owes

\* Registry.drop.
DropRef(r, e, s) ==
    LET less == [r EXCEPT !.entry[e].refs = @ - 1]
        left == IF scene.exclusive /\ ~Rides(s) THEN LetGo(less, e) ELSE less
    IN  IF left.entry[e].refs > 0 \/ left.entry[e].gone # "no" THEN left
        ELSE IF left.closed \/ left.entry[e].retired \/ ~scene.idle \/ ~Holding(left, e)
        THEN TakeOut(left, e, s)
        ELSE [left EXCEPT !.entry[e].timer = "armed"]

\* Mutant: nobody's place is kept.
RetireOnly(r, e) == Forget([r EXCEPT !.entry[e].retired = TRUE], e)

\* retire keeps the place of the job holding the machine (reserveFor).
Retire(r, e) ==
    LET h    == r.entry[e].holder
        kept == IF h # Nobody /\ ~r.entry[e].retired /\ Contains(r.members, e)
                THEN [r EXCEPT !.reserved[h] = @ + 1] ELSE r
    IN  Forget([kept EXCEPT !.entry[e].retired = TRUE], e)

-----------------------------------------------------------------------------
(* A step asks for its tag's machine (Leases.claim).                       *)

Claimed(p, sc, e) ==
    /\ scope' = [scope EXCEPT ![ScopeOf[p]] = [sc EXCEPT !.held[TagOf[p]] = e]]
    /\ step' = [step EXCEPT ![p].pc = "claimed", ![p].at = e]

Await(p, sc, pc, e) ==
    /\ scope' = [scope EXCEPT ![ScopeOf[p]] = sc]
    /\ step' = [step EXCEPT ![p].pc = pc, ![p].at = e]

\* Registry.hold.
ClaimShared(p, sc) ==
    LET c    == reg.current
        with == IF c = None THEN [Born(reg) EXCEPT !.current = FreshEntry(reg)] ELSE reg
    IN  IF c # None /\ reg.entry[c].gone # "no"
        THEN Await(p, sc, "landing", c) /\ UNCHANGED reg
        ELSE /\ reg' = Count(with, with.current, ScopeOf[p])
             /\ Claimed(p, sc, with.current)

\* Registry.take, by a check: any machine of the pool, or one of its own.
Ride(p, sc) ==
    LET free == Warmest(reg, FALSE)
        with == IF free = None THEN Member(reg) ELSE reg
        e    == IF free = None THEN Head(with.members) ELSE free
    IN  reg' = Count(with, e, ScopeOf[p]) /\ Claimed(p, sc, e)

\* Mutant: a machine that is free goes to whoever asks.
TakeFree(p, sc) ==
    LET s    == ScopeOf[p]
        free == Warmest(reg, TRUE)
        with == IF free = None THEN Member(reg) ELSE reg
        e    == IF free = None THEN Head(with.members) ELSE free
    IN  IF free # None \/ Len(reg.members) < scene.max
        THEN reg' = Count([with EXCEPT !.reserved[s] = 0], e, s) /\ Claimed(p, sc, e)
        ELSE /\ reg' = [reg EXCEPT !.waiters = Append(@, p)]
             /\ Await(p, [sc EXCEPT !.claiming = TRUE], "queued", None)

\* Registry.take, by a job: its kept place, or its turn.
TakeTurn(p, sc) ==
    LET s    == ScopeOf[p]
        kept == reg.reserved[s] > 0
        r    == IF kept THEN [reg EXCEPT !.reserved[s] = @ - 1] ELSE reg
        free == Warmest(r, TRUE)
        with == IF free = None THEN Member(r) ELSE r
        e    == IF free = None THEN Head(with.members) ELSE free
    IN  IF (kept \/ r.waiters = <<>>) /\ (free # None \/ kept \/ Room(r))
        THEN reg' = Count(with, e, s) /\ Claimed(p, sc, e)
        ELSE /\ reg' = [r EXCEPT !.waiters = Append(@, p)]
             /\ Await(p, [sc EXCEPT !.claiming = TRUE], "queued", None)

\* claimPool: one machine per pool, however many of the scope's tags name it.
ClaimPool(p, sc) ==
    LET own == {o \in {sc.held[t] : t \in Tags} \ {None} :
                   ~reg.entry[o].retired /\ reg.entry[o].gone = "no"}
    IN  IF sc.claiming THEN Await(p, sc, "sibling", None) /\ UNCHANGED reg
        ELSE IF own # {}
        THEN \E o \in own : reg' = Count(reg, o, ScopeOf[p]) /\ Claimed(p, sc, o)
        ELSE IF Rides(ScopeOf[p]) THEN Ride(p, sc) ELSE TakeTurn(p, sc)

\* Leases.claim; a machine somebody watched die is still owed its release.
\* Resolve claims again, so a step that has its machine may find it retired.
Claim(p) ==
    LET s    == ScopeOf[p]
        h    == scope[s].held[TagOf[p]]
        dead == h # None /\ reg.entry[h].retired
        sc   == IF dead THEN [scope[s] EXCEPT !.owed[h] = @ + 1, !.held[TagOf[p]] = None]
                ELSE scope[s]
    IN  /\ step[p].pc = "new" \/ (step[p].pc = "claimed" /\ dead)
        /\ IF h # None /\ ~dead THEN Claimed(p, sc, h) /\ UNCHANGED reg
           ELSE IF scene.exclusive THEN ClaimPool(p, sc)
           ELSE ClaimShared(p, sc)
        /\ UNCHANGED <<scene, cloud, closing, reclaims>>

\* The park landed, or the sibling's claim settled: the step looks again.
Wake(p) ==
    /\ \/ step[p].pc = "landing" /\ reg.entry[step[p].at].gone = "yes"
       \/ step[p].pc = "sibling" /\ ~scope[ScopeOf[p]].claiming
    /\ step' = [step EXCEPT ![p].pc = "new", ![p].at = None]
    /\ UNCHANGED <<scene, reg, scope, cloud, closing, reclaims>>

\* queue: handed a machine.
Served(p) ==
    /\ step[p].pc = "queued" /\ reg.got[p] # None
    /\ Claimed(p, [scope[ScopeOf[p]] EXCEPT !.claiming = FALSE], reg.got[p])
    /\ reg' = [reg EXCEPT !.got[p] = None]
    /\ UNCHANGED <<scene, cloud, closing, reclaims>>

\* Mutant: what was handed over in the same instant is nobody's.
LeaveEmptyHanded(p) ==
    LET s == ScopeOf[p]
    IN  /\ scope[s].cancelled /\ step[p].pc \in {"landing", "sibling", "queued"}
        /\ reg' = [reg EXCEPT !.waiters = RemoveFirst(@, p), !.got[p] = None]
        /\ scope' = [scope EXCEPT ![s].claiming = IF step[p].pc = "queued" THEN FALSE ELSE @]
        /\ step' = [step EXCEPT ![p].pc = "done", ![p].at = None]
        /\ UNCHANGED <<scene, cloud, closing, reclaims>>

\* A cancelled step stops waiting, and one whose park takes too long to land
\* (parkWait); a machine handed over in the same instant is counted toward its
\* scope (leave, adopt).
Leave(p) ==
    LET s    == ScopeOf[p]
        took == step[p].pc = "queued" /\ reg.got[p] # None
    IN  /\ \/ scope[s].cancelled /\ step[p].pc \in {"landing", "sibling", "queued"}
           \/ step[p].pc = "landing"
        /\ reg' = [reg EXCEPT !.waiters = RemoveFirst(@, p), !.got[p] = None]
        /\ scope' = [scope EXCEPT ![s].claiming = IF step[p].pc = "queued" THEN FALSE ELSE @,
                                  ![s].held[TagOf[p]] = IF took THEN reg.got[p] ELSE @]
        /\ step' = [step EXCEPT ![p].pc = "done", ![p].at = None]
        /\ UNCHANGED <<scene, cloud, closing, reclaims>>

-----------------------------------------------------------------------------
(* lease.resolve, under the entry's own lock.                              *)

OnMachine(p, e) ==
    step' = [step EXCEPT ![p].pc = IF cloud[Machine(e)] = "dead" THEN "hit" ELSE "using"]

\* Cancelled already, the acquirer gives its machine up itself.
Resolve(p) ==
    LET e == step[p].at
    IN  /\ step[p].pc = "claimed" /\ reg.entry[e].lease # "acquiring"
        /\ IF reg.entry[e].lease = "acquired" THEN OnMachine(p, e) /\ UNCHANGED reg
           ELSE IF reg.entry[e].lease = "failed" \/ scope[ScopeOf[p]].cancelled
           THEN step' = [step EXCEPT ![p].pc = "done"] /\ UNCHANGED reg
           ELSE /\ reg' = [reg EXCEPT !.entry[e].lease = "acquiring"]
                /\ step' = [step EXCEPT ![p].pc = "acquiring"]
        /\ UNCHANGED <<scene, scope, cloud, closing, reclaims>>

\* Mutant: a machine found running is nobody's to park, its own start or not.
AcquiredAfresh(p) ==
    LET e == step[p].at
        m == Machine(e)
    IN  /\ step[p].pc = "acquiring"
        /\ reg' = [reg EXCEPT !.entry[e].lease = "acquired", !.entry[e].owes = cloud[m] # "running"]
        /\ cloud' = [cloud EXCEPT ![m] = "running"]
        /\ step' = [step EXCEPT ![p].pc = "using"]
        /\ UNCHANGED <<scene, scope, closing, reclaims>>

\* A machine found running is not this acquisition's to give back, and one the
\* entry started earlier still is.
Acquired(p) ==
    LET e == step[p].at
        m == Machine(e)
    IN  /\ step[p].pc = "acquiring"
        /\ reg' = [reg EXCEPT !.entry[e].lease = "acquired",
                              !.entry[e].owes = @ \/ cloud[m] # "running"]
        /\ cloud' = [cloud EXCEPT ![m] = "running"]
        /\ step' = [step EXCEPT ![p].pc = "using"]
        /\ UNCHANGED <<scene, scope, closing, reclaims>>

\* "The resolver leaving is no answer about the machine"; a real error sticks.
AcquireFails(p) ==
    LET e   == step[p].at
        own == scope[ScopeOf[p]].cancelled
    IN  /\ step[p].pc = "acquiring" /\ (scene.fails \/ own)
        /\ reg' = [reg EXCEPT !.entry[e].lease = IF own THEN "none" ELSE "failed"]
        /\ step' = [step EXCEPT ![p].pc = "done"]
        /\ UNCHANGED <<scene, scope, cloud, closing, reclaims>>

-----------------------------------------------------------------------------
(* On the machine.                                                         *)

\* Done, well or badly; so may a step be within the grace of a reclaim.
Finish(p) ==
    /\ step[p].pc \in {"using", "hit"}
    /\ step' = [step EXCEPT ![p].pc = "done"]
    /\ UNCHANGED <<scene, reg, scope, cloud, closing, reclaims>>

\* External: the cloud takes a machine away.
Reclaim(m) ==
    /\ cloud[m] = "running" /\ reclaims < scene.reclaims
    /\ reclaims' = reclaims + 1
    /\ cloud' = [cloud EXCEPT ![m] = "dead"]
    /\ step' = [p \in Steps |->
                   IF step[p].pc = "using" /\ Machine(step[p].at) = m
                   THEN [step[p] EXCEPT !.pc = "hit"] ELSE step[p]]
    /\ UNCHANGED <<scene, reg, scope, closing>>

\* Abandon, up to retire: only the machine this step watched die.
Abandon(p) ==
    LET h    == scope[ScopeOf[p]].held[TagOf[p]]
        same == /\ h # None /\ reg.entry[h].lease = "acquired"
                /\ Machine(h) = Machine(step[p].at)
    IN  /\ step[p].pc = "hit" /\ (h # None => reg.entry[h].lease # "acquiring")
        /\ reg' = IF ~same THEN reg
                  ELSE IF Parked THEN [reg EXCEPT !.entry[h].lease = "none"]
                  ELSE Retire(reg, h)
        /\ step' = [step EXCEPT ![p].pc = "leaving", ![p].at = IF same /\ ~Parked THEN h ELSE None]
        /\ UNCHANGED <<scene, scope, cloud, closing, reclaims>>

\* Abandon's last section, then re-placed, or finished (releaseIfReclaimed).
\* A sibling's claim may have let go of the machine in between.
Abandoned(p) ==
    LET s == ScopeOf[p]
        h == scope[s].held[TagOf[p]]
    IN  /\ step[p].pc = "leaving"
        /\ scope' = IF h = None \/ h # step[p].at THEN scope
                    ELSE [scope EXCEPT ![s].held[TagOf[p]] = None, ![s].owed[h] = @ + 1]
        /\ \E again \in BOOLEAN :
              /\ again => step[p].tries < Retries /\ ~scope[s].cancelled
              /\ step' = [step EXCEPT ![p] =
                             [pc |-> IF again THEN "new" ELSE "done", at |-> None,
                              tries |-> IF again THEN @.tries + 1 ELSE @.tries]]
        /\ UNCHANGED <<scene, reg, cloud, closing, reclaims>>

-----------------------------------------------------------------------------
(* A scope ends (ReleaseAll), whichever way its steps did.                 *)

StepsOf(s) == {p \in Steps : ScopeOf[p] = s}

EndScope(s) ==
    /\ scope[s].phase = "open" /\ \A p \in StepsOf(s) : step[p].pc = "done"
    /\ scope' = [scope EXCEPT ![s].phase = "releasing", ![s].held = [t \in Tags |-> None],
                              ![s].owed = [e \in Entries |->
                                  @[e] + Cardinality({t \in Tags : scope[s].held[t] = e})]]
    /\ UNCHANGED <<scene, reg, step, cloud, closing, reclaims>>

Drop(s, e) ==
    /\ scope[s].phase = "releasing" /\ scope[s].owed[e] > 0
    /\ reg' = DropRef(reg, e, s)
    /\ scope' = [scope EXCEPT ![s].owed[e] = @ - 1]
    /\ UNCHANGED <<scene, step, cloud, closing, reclaims>>

\* Mutant: a scope ends, and the place kept for it stays kept.
EndReserved(s) ==
    /\ scope[s].phase = "releasing" /\ \A e \in Entries : scope[s].owed[e] = 0
    /\ \A e \in Entries : reg.entry[e].gone = "going" => reg.entry[e].by # s
    /\ scope' = [scope EXCEPT ![s].phase = "closed"]
    /\ UNCHANGED <<scene, reg, step, cloud, closing, reclaims>>

\* After the drops and what they gave back.
Unreserve(s) ==
    /\ scope[s].phase = "releasing" /\ \A e \in Entries : scope[s].owed[e] = 0
    /\ \A e \in Entries : reg.entry[e].gone = "going" => reg.entry[e].by # s
    /\ reg' = IF reg.reserved[s] = 0 THEN reg ELSE Serve([reg EXCEPT !.reserved[s] = 0])
    /\ scope' = [scope EXCEPT ![s].phase = "closed"]
    /\ UNCHANGED <<scene, step, cloud, closing, reclaims>>

\* An abort, or a deadline.
Cancel(s) ==
    /\ s \in scene.aborts /\ scope[s].phase = "open" /\ ~scope[s].cancelled
    /\ scope' = [scope EXCEPT ![s].cancelled = TRUE]
    /\ UNCHANGED <<scene, reg, step, cloud, closing, reclaims>>

-----------------------------------------------------------------------------
(* The registry's own steps.                                               *)

Fire(e) ==
    /\ reg.entry[e].timer = "armed"
    /\ reg' = [reg EXCEPT !.entry[e].timer = "fired"]
    /\ UNCHANGED <<scene, scope, step, cloud, closing, reclaims>>

\* Mutant: a timer that fired gives the machine back, taken meanwhile or not.
ExpireBlindly(e) ==
    /\ reg.entry[e].timer = "fired" \/ reg.entry[e].stale
    /\ reg' = LET off == [reg EXCEPT !.entry[e].timer = "none", !.entry[e].stale = FALSE]
              IN  IF off.entry[e].gone # "no" THEN off ELSE TakeOut(off, e, Nobody)
    /\ UNCHANGED <<scene, scope, step, cloud, closing, reclaims>>

\* expire: one superseded finds the entry held again, or its window another's.
Expire(e) ==
    /\ \/ /\ reg.entry[e].timer = "fired"
          /\ reg' = LET off == [reg EXCEPT !.entry[e].timer = "none"]
                    IN  IF off.entry[e].gone # "no" THEN off ELSE TakeOut(off, e, Nobody)
       \/ /\ reg.entry[e].stale
          /\ reg' = [reg EXCEPT !.entry[e].stale = FALSE]
    /\ UNCHANGED <<scene, scope, step, cloud, closing, reclaims>>

\* giveBack waits out an acquisition in flight (lease.give).
GiveBack(e) ==
    /\ reg.entry[e].gone = "going" /\ reg.entry[e].lease # "acquiring"
    /\ cloud' = [cloud EXCEPT ![Machine(e)] = IF reg.entry[e].owes THEN "off" ELSE @]
    /\ reg' = [Forget(reg, e) EXCEPT !.live = @ \ {e},
                                     !.entry[e] = [@ EXCEPT !.owes = FALSE, !.gone = "yes",
                                                            !.by = Nobody]]
    /\ UNCHANGED <<scene, scope, step, closing, reclaims>>

\* The sequence without the elements of a set.
Without(q, S) ==
    LET kept[n \in Nat] == IF n = 0 THEN <<>>
                           ELSE IF q[n] \in S THEN kept[n - 1] ELSE Append(kept[n - 1], q[n])
    IN  kept[Len(q)]

\* takeOut of each; the registry is closed, and nobody is served.
TakeOutAll(r, es) ==
    [r EXCEPT !.entry = [e \in Entries |-> IF e \notin es THEN r.entry[e]
                                           ELSE [r.entry[e] EXCEPT !.gone = "going", !.by = Nobody]],
              !.members = IF Parked THEN @ ELSE Without(@, es),
              !.current = IF Parked \/ @ \notin es THEN @ ELSE None]

\* The daemon stops: it cancels every scope, waits for the ones it can, and
\* closes the registry.  What is idle goes at once.
Close ==
    /\ scene.closes /\ closing = "no"
    /\ scope' = [s \in Scopes |-> [scope[s] EXCEPT !.cancelled = TRUE]]
    /\ LET idle == {e \in (ToSet(reg.members) \cup {reg.current}) \ {None} :
                       reg.entry[e].refs = 0 /\ reg.entry[e].gone = "no"}
           shut == [reg EXCEPT !.closed = TRUE,
                               !.entry = [e \in Entries |->
                                   IF e \notin idle THEN reg.entry[e]
                                   ELSE [reg.entry[e] EXCEPT
                                            !.stale = reg.entry[e].stale \/ reg.entry[e].timer = "fired",
                                            !.timer = "none"]]]
       IN  reg' = TakeOutAll(shut, idle)
    /\ closing' = "waiting"
    /\ UNCHANGED <<scene, step, cloud, reclaims>>

\* giveBackHeld: closeWait is over, and the process is exiting.
CloseForce ==
    /\ closing = "waiting" /\ reg.live # {}
    /\ reg' = TakeOutAll(reg, {e \in reg.live : reg.entry[e].gone = "no"})
    /\ closing' = "forced"
    /\ UNCHANGED <<scene, scope, step, cloud, reclaims>>

CloseReturn ==
    /\ \/ closing = "waiting" /\ reg.live = {}
       \/ closing = "forced" /\ \A e \in Entries : reg.entry[e].gone # "going"
    /\ \A e \in Entries : reg.entry[e].timer # "fired" /\ ~reg.entry[e].stale
    /\ closing' = "closed"
    /\ UNCHANGED <<scene, reg, scope, step, cloud, reclaims>>

-----------------------------------------------------------------------------
StepNext(p) ==
    \/ Claim(p) \/ Wake(p) \/ Served(p) \/ Leave(p) \/ Resolve(p) \/ Acquired(p)
    \/ AcquireFails(p) \/ Finish(p) \/ Abandon(p) \/ Abandoned(p)

ScopeNext(s) == EndScope(s) \/ Unreserve(s) \/ \E e \in Entries : Drop(s, e)
EntryNext(e) == Fire(e) \/ Expire(e) \/ GiveBack(e)

Progress ==
    \/ \E p \in Steps : StepNext(p)
    \/ \E e \in Entries : EntryNext(e)
    \/ CloseForce \/ CloseReturn
    \/ \E s \in Scopes : ScopeNext(s)

FromOutside == Close \/ (\E s \in Scopes : Cancel(s)) \/ (\E m \in Entries : Reclaim(m))

\* The process is gone once Close returned.  Bound: there are identifiers for
\* the entries one step may need, a waiter's each and one more.
Spare == Cardinality(Unused(reg)) > Len(reg.waiters)
Next == closing # "closed" /\ Spare /\ (Progress \/ FromOutside)

Spec == Init /\ [][Next]_vars

\* Whatever can go on goes on: steps end, acquisitions and give-backs answer,
\* timers fire.  Nothing has to be cancelled, reclaimed or closed.
FairSpec == Spec /\ WF_vars(closing # "closed" /\ Spare /\ Progress)

-----------------------------------------------------------------------------
(* Properties.                                                             *)

Holds(s, e) == Cardinality({t \in Tags : scope[s].held[t] = e}) + scope[s].owed[e]

\* An entry's count is exactly what its scopes will give up when they end,
\* through every order of claims, abandons, hand-overs and cancellations: one
\* too many and the machine bills for ever, one too few and it is stopped
\* under somebody.
CountsAddUp ==
    \A e \in reg.live :
        reg.entry[e].refs = SumFunction([s \in Scopes |-> Holds(s, e)])
                            + Cardinality({p \in Steps : reg.got[p] = e})

\* "One job finishing never stops a machine another is mid-step on"
\* (docs/infra.md:240): while a step is on a machine, steps does not give it
\* back; only Close does, when it has waited long enough.
NotUnderAUser ==
    closing \notin {"forced", "closed"} =>
        \A p \in Steps : step[p].pc \in {"using", "hit"} => cloud[Machine(step[p].at)] # "off"

\* A machine steps started, and that runs, is owed its give-back by an entry
\* that Close waits for and that somebody is still going to let go of.
NothingLeftBilling ==
    \A m \in Entries : cloud[m] = "running" =>
        \E e \in reg.live :
            /\ Machine(e) = m /\ reg.entry[e].owes
            /\ reg.entry[e].refs > 0 \/ reg.entry[e].timer # "none" \/ reg.entry[e].gone = "going"

\* "?max= caps how many" (docs/infra.md:241): the machines jobs hold, the
\* places kept for evicted ones counted, never exceed it.
MaxHolds ==
    scene.exclusive /\ scene.max > 0 =>
        Cardinality({e \in ToSet(reg.members) : reg.entry[e].jobs > 0}) + Reserved(reg) <= scene.max

NoCheckYet == \A p \in scene.cast : Rides(ScopeOf[p]) => step[p].pc = "new" /\ step[p].tries = 0

\* An exclusive machine serves one job at a time, and as long as no check has
\* ridden along the pool is never larger than ?max=, kept places counted.
PoolHolds ==
    scene.exclusive =>
        /\ \A s, o \in Scopes \ Checks : \A e \in ToSet(reg.members) :
              s # o => ~(Holds(s, e) > 0 /\ Holds(o, e) > 0)
        /\ NoCheckYet /\ scene.max > 0 => Len(reg.members) + Reserved(reg) <= scene.max

\* No wake-up is lost: a job waits only while there is no room, and no free
\* machine but the ones whose places are kept for somebody.
NobodyWaitsForNothing ==
    reg.waiters # <<>> /\ ~reg.closed =>
        /\ ~Room(reg)
        /\ Cardinality({e \in ToSet(reg.members) :
                           reg.entry[e].jobs = 0 /\ reg.entry[e].lease # "failed"}) <= Reserved(reg)

\* "The evicted job is re-placed through the same pool ahead of jobs already
\* waiting" (docs/infra.md:241): no step of a job queues for its replacement,
\* whichever of the job's steps, or of the checks riding along, saw the
\* machine die first.
EvictedGoesFirst ==
    closing \notin {"forced", "closed"} =>
        \A p \in Steps : scene.exclusive /\ step[p].tries > 0 => step[p].pc # "queued"

\* Every step gets its turn and ends, or the process does; and then nothing
\* of steps' own is left running.
EverythingEnds ==
    <>[](/\ closing = "closed" \/ \A p \in Steps : step[p].pc = "done"
         /\ \A m \in Entries : cloud[m] # "running")
=============================================================================
