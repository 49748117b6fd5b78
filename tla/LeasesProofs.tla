---------------------------- MODULE LeasesProofs ----------------------------
(***************************************************************************)
(* Leases, for any number of scopes, checks, tags, steps and machines, on  *)
(* every mapping the code accepts: the inductive invariant, a lemma for    *)
(* every action, and the properties.  Good adds to the registry's promises *)
(* (RegistryProofs) what is true of every step, of every scope's books and *)
(* of the cloud's machines; it is stated of values, so that an action is   *)
(* taken apart into changes of one step, one scope and the registry, each  *)
(* of which keeps it.                                                      *)
(***************************************************************************)
EXTENDS RegistryProofs

-----------------------------------------------------------------------------
(* The invariant, and changes of a step or of the registry.                *)

\* A scope's books, and a step's place.
ScopeType ==
    [phase: {"open", "releasing", "closed"}, cancelled: BOOLEAN,
     held: [Tags -> Entries \cup {None}], owed: [Entries -> Nat], claiming: BOOLEAN]

StepType ==
    [pc: {"new", "landing", "sibling", "queued", "claimed", "acquiring", "using", "hit", "leaving", "done"},
     at: Entries \cup {None}, tries: 0..Retries]

Cloud == [Entries -> {"off", "running", "dead"}]

\* What every scope holds: Holds, of the scopes as given.
HeldIn(h, e) == {t \in Tags : h[t] = e}
Held(sc) == [s \in Scopes |-> [e \in Entries |-> Cardinality(HeldIn(sc[s].held, e)) + sc[s].owed[e]]]

\* Close has stopped waiting.
Over(cg) == cg \in {"forced", "closed"}
\* No check has asked for a machine yet.
NoCheck(st) == \A p \in scene.cast : Rides(ScopeOf[p]) => st[p].pc = "new" /\ st[p].tries = 0
\* The places of a step that has a machine.
On == {"claimed", "acquiring", "using", "hit"}

\* What is true of a step: what it is at, its scope holds.
StepOk(r, sc, cl, cg, p, n) ==
    LET s == ScopeOf[p]
    IN  /\ p \notin scene.cast => n.pc = "done"
        /\ n.pc = "sibling" => s \in Jobs
        /\ n.pc = "landing" => ~scene.exclusive
        /\ n.pc # "done" => sc[s].phase = "open"
        /\ n.pc \in On => n.at \in Entries /\ Held(sc)[s][n.at] > 0
        /\ n.pc = "leaving" /\ n.at # None => r.entry[n.at].retired /\ Held(sc)[s][n.at] > 0
        /\ n.pc # "done" /\ (n.tries > 0 \/ n.pc \in On \cup {"leaving"}) =>
              \E e \in Entries : Held(sc)[s][e] > 0
        /\ n.pc = "queued" <=> InLine(r, p)
        /\ n.pc = "queued" => sc[s].claiming /\ sc[s].held[TagOf[p]] = None
        /\ ~Over(cg) /\ scene.exclusive /\ n.tries > 0 => n.pc # "queued"
        /\ n.pc = "acquiring" => r.entry[n.at].lease = "acquiring" /\ n.at \in r.live
        /\ ~Over(cg) /\ n.pc \in {"using", "hit"} => cl[Machine(n.at)] # "off"

\* One step acquires an entry's machine, and the others wait.
OneAcquirer(st) ==
    \A p, q \in Steps : st[p].pc = "acquiring" /\ st[q].pc = "acquiring" /\ st[p].at = st[q].at => p = q

\* What is true of a scope's books: until it ends it owes only what died.
ScopeOk(r, sc, cg, s) ==
    /\ sc[s].phase # "open" => \A t \in Tags : sc[s].held[t] = None
    /\ sc[s].phase = "open" => \A e \in Entries : sc[s].owed[e] > 0 => r.entry[e].retired
    /\ sc[s].phase = "closed" => r.reserved[s] = 0 /\ \A e \in Entries : sc[s].owed[e] = 0
    /\ cg # "no" => sc[s].cancelled

\* A scope that claims has a step in the queue.
Claiming(sc, st, s) ==
    sc[s].claiming => s \in Jobs /\ \E p \in Steps : ScopeOf[p] = s /\ st[p].pc = "queued"

\* A job that has a machine, or was handed one, has a place in the pool.
Placed(r, sc, cg, s) ==
    /\ ~Over(cg) /\ scene.exclusive /\ sc[s].phase = "open"
    /\ (\E e \in Entries : Held(sc)[s][e] > 0) \/ \E p \in Steps : ScopeOf[p] = s /\ r.got[p] # None
    => HasPlace(r, s)

\* The pool is within ?max= until a check rides along.
Capped(r, st) == scene.exclusive /\ NoCheck(st) /\ scene.max > 0 => Within(r)

\* What was acquired is not off.
Up(r, cl) == \A e \in r.live : r.entry[e].lease = "acquired" => cl[Machine(e)] # "off"

\* What runs is owed by an entry somebody is going to let go of.
Billed(r, cl) ==
    \A m \in Entries : cl[m] = "running" =>
        \E e \in r.live : Machine(e) = m /\ r.entry[e].owes /\ Kept(r, e)

\* The types of the rest of the state.
Shape(sc, st, cl, cg, rc) ==
    /\ sc \in [Scopes -> ScopeType] /\ st \in [Steps -> StepType] /\ cl \in Cloud
    /\ cg \in {"no", "waiting", "forced", "closed"} /\ rc \in 0..scene.reclaims

\* What the registry promises, with the scopes as they are.
Sound(r, sc, cg) ==
    Core(r, Held(sc)) /\ Idle(r) /\ (~Over(cg) => Quiet(r)) /\ Settled(r) /\ (r.closed <=> cg # "no")

\* The invariant.
Good(r, sc, st, cl, cg, rc) ==
    /\ Shape(sc, st, cl, cg, rc)
    /\ Sound(r, sc, cg)
    /\ \A p \in Steps : StepOk(r, sc, cl, cg, p, st[p])
    /\ OneAcquirer(st)
    /\ \A s \in Scopes : ScopeOk(r, sc, cg, s)
    /\ \A s \in Scopes : Claiming(sc, st, s)
    /\ \A s \in Jobs : Placed(r, sc, cg, s)
    /\ Capped(r, st)
    /\ Up(r, cl) /\ Billed(r, cl)

-----------------------------------------------------------------------------
\* What a scope holds is a natural: its tags that name the entry, and what it owes.
LEMMA HeldType ==
    ASSUME NEW sc \in [Scopes -> ScopeType]
    PROVE  /\ Held(sc) \in HoldingType
           /\ \A s \in Scopes : \A e \in Entries :
                 /\ Held(sc)[s][e] = Cardinality(HeldIn(sc[s].held, e)) + sc[s].owed[e]
                 /\ Cardinality(HeldIn(sc[s].held, e)) \in Nat /\ sc[s].owed[e] \in Nat
                 /\ Cardinality(HeldIn(sc[s].held, e)) > 0 <=> \E t \in Tags : sc[s].held[t] = e
                 /\ Held(sc)[s][e] > 0 <=> (\E t \in Tags : sc[s].held[t] = e) \/ sc[s].owed[e] > 0
<1>1. ASSUME NEW s \in Scopes, NEW e \in Entries
      PROVE  /\ Cardinality(HeldIn(sc[s].held, e)) \in Nat /\ sc[s].owed[e] \in Nat
             /\ Cardinality(HeldIn(sc[s].held, e)) > 0 <=> \E t \in Tags : sc[s].held[t] = e
  <2>1. sc[s].owed[e] \in Nat
    BY DEF ScopeType
  <2>2. IsFiniteSet(HeldIn(sc[s].held, e))
    BY Constants, FS_Subset DEF HeldIn
  <2>3. Cardinality(HeldIn(sc[s].held, e)) \in Nat
    BY <2>2, FS_CardinalityType
  <2>4. Cardinality(HeldIn(sc[s].held, e)) = 0 <=> HeldIn(sc[s].held, e) = {}
    BY <2>2, FS_EmptySet
  <2> QED
    BY <2>1, <2>3, <2>4 DEF HeldIn
<1>2. \A s \in Scopes : \A e \in Entries :
         Held(sc)[s][e] = Cardinality(HeldIn(sc[s].held, e)) + sc[s].owed[e]
  BY DEF Held
<1>3. Held(sc) \in HoldingType
  BY <1>1 DEF Held, HoldingType
<1>4. \A s \in Scopes : \A e \in Entries :
         Held(sc)[s][e] > 0 <=> (\E t \in Tags : sc[s].held[t] = e) \/ sc[s].owed[e] > 0
  <2> SUFFICES ASSUME NEW s \in Scopes, NEW e \in Entries
               PROVE  Held(sc)[s][e] > 0 <=> (\E t \in Tags : sc[s].held[t] = e) \/ sc[s].owed[e] > 0
    OBVIOUS
  <2>1. Held(sc)[s][e] = Cardinality(HeldIn(sc[s].held, e)) + sc[s].owed[e]
    BY <1>2
  <2>2. /\ Cardinality(HeldIn(sc[s].held, e)) \in Nat /\ sc[s].owed[e] \in Nat
        /\ Cardinality(HeldIn(sc[s].held, e)) > 0 <=> \E t \in Tags : sc[s].held[t] = e
    BY <1>1
  <2>3. Held(sc)[s][e] > 0 <=> Cardinality(HeldIn(sc[s].held, e)) > 0 \/ sc[s].owed[e] > 0
    BY <2>1, <2>2
  <2> QED
    BY <2>2, <2>3
<1> QED
  BY <1>1, <1>2, <1>3, <1>4

\* One step's place replaced.
Became(st, st1, p, n) == st1 = [st EXCEPT ![p] = n]

\* A step goes on, and everything else stays as it is.
LEMMA StepTo ==
    ASSUME NEW r, NEW sc, NEW st, NEW cl, NEW cg, NEW rc, Good(r, sc, st, cl, cg, rc),
           NEW p \in Steps, NEW n \in StepType, NEW st1, Became(st, st1, p, n),
           StepOk(r, sc, cl, cg, p, n), st[p].pc # "queued", n.pc # "queued",
           n.pc = "acquiring" => \A q \in Steps \ {p} : st[q].pc = "acquiring" => st[q].at # n.at,
           scene.exclusive /\ Rides(ScopeOf[p]) /\ n.pc = "new" /\ n.tries = 0 =>
               st[p].pc = "new" /\ st[p].tries = 0,
           scene.cast \subseteq Steps
    PROVE  Good(r, sc, st1, cl, cg, rc)
<1>1. /\ Shape(sc, st, cl, cg, rc) /\ Sound(r, sc, cg)
      /\ \A q \in Steps : StepOk(r, sc, cl, cg, q, st[q])
      /\ OneAcquirer(st)
      /\ \A s \in Scopes : ScopeOk(r, sc, cg, s)
      /\ \A s \in Scopes : Claiming(sc, st, s)
      /\ \A s \in Jobs : Placed(r, sc, cg, s)
      /\ Capped(r, st) /\ Up(r, cl) /\ Billed(r, cl)
  BY DEF Good
<1>2. st \in [Steps -> StepType]
  BY <1>1 DEF Shape
<1>3. st1 \in [Steps -> StepType] /\ st1[p] = n /\ \A q \in Steps \ {p} : st1[q] = st[q]
  BY <1>2 DEF Became
<1>4. Shape(sc, st1, cl, cg, rc)
  BY <1>1, <1>3 DEF Shape
<1>5. ASSUME NEW q \in Steps PROVE StepOk(r, sc, cl, cg, q, st1[q])
  <2>1. CASE q = p
    BY <1>3, <2>1
  <2>2. CASE q # p
    BY <1>1, <1>3, <2>2
  <2> QED
    BY <2>1, <2>2
<1>6. OneAcquirer(st1)
  <2> SUFFICES ASSUME NEW q \in Steps, NEW o \in Steps, st1[q].pc = "acquiring", st1[o].pc = "acquiring",
                      st1[q].at = st1[o].at
               PROVE  q = o
    BY DEF OneAcquirer
  <2>1. CASE q = p /\ o # p
    BY <1>3, <2>1
  <2>2. CASE q # p /\ o = p
    BY <1>3, <2>2
  <2>3. CASE q # p /\ o # p
    BY <1>1, <1>3, <2>3 DEF OneAcquirer
  <2> QED
    BY <2>1, <2>2, <2>3
<1>7. ASSUME NEW s \in Scopes PROVE Claiming(sc, st1, s)
  <2>1. \A q \in Steps : st[q].pc = "queued" => st1[q].pc = "queued"
    BY <1>3
  <2> QED
    BY <1>1, <2>1 DEF Claiming
<1>8. Capped(r, st1)
  <2>1. scene.exclusive /\ NoCheck(st1) => NoCheck(st)
    BY <1>3 DEF NoCheck
  <2> QED
    BY <1>1, <2>1 DEF Capped
<1> QED
  BY <1>1, <1>4, <1>5, <1>6, <1>7, <1>8 DEF Good

-----------------------------------------------------------------------------
\* The registry changes, and the cloud: what its users have stays theirs.
LEMMA RegTo ==
    ASSUME NEW r, NEW sc, NEW st, NEW cl, NEW cg, NEW rc, Good(r, sc, st, cl, cg, rc),
           NEW x, NEW cl1 \in Cloud, NEW S, Sound(x, sc, cg), Calm(r, x, S),
           scene.exclusive /\ scene.max > 0 /\ Within(r) => Within(x),
           ~Over(cg) => \A s \in Jobs : sc[s].phase = "open" => s \in S,
           \A s \in Scopes : x.reserved[s] > 0 => r.reserved[s] > 0 \/ sc[s].phase # "closed",
           \A q \in Steps : st[q].pc = "acquiring" => x.entry[st[q].at].lease = "acquiring" /\ st[q].at \in x.live,
           \A q \in Steps : ~Over(cg) /\ st[q].pc \in {"using", "hit"} => cl1[Machine(st[q].at)] # "off",
           Up(x, cl1), Billed(x, cl1)
    PROVE  Good(x, sc, st, cl1, cg, rc)
<1>1. /\ Shape(sc, st, cl, cg, rc) /\ Sound(r, sc, cg)
      /\ \A q \in Steps : StepOk(r, sc, cl, cg, q, st[q])
      /\ OneAcquirer(st)
      /\ \A s \in Scopes : ScopeOk(r, sc, cg, s)
      /\ \A s \in Scopes : Claiming(sc, st, s)
      /\ \A s \in Jobs : Placed(r, sc, cg, s)
      /\ Capped(r, st)
  BY DEF Good
<1>2. /\ sc \in [Scopes -> ScopeType] /\ st \in [Steps -> StepType] /\ Core(r, Held(sc))
      /\ x \in Registry /\ Shape(sc, st, cl1, cg, rc)
  BY <1>1 DEF Shape, Sound, Core, Typed
<1>3. /\ \A p \in Steps : InLine(x, p) <=> InLine(r, p)
      /\ \A p \in Steps : x.got[p] # None => r.got[p] # None \/ HasPlace(x, ScopeOf[p])
      /\ PlacesKept(r, x, S)
      /\ \A f \in Entries : r.entry[f].refs > 0 /\ r.entry[f].retired => x.entry[f].retired
  BY DEF Calm
<1>4. ASSUME NEW s \in Scopes, NEW e \in Entries, Held(sc)[s][e] > 0, r.entry[e].retired
      PROVE  x.entry[e].retired
  <2>1. r.entry[e].refs > 0
    BY <1>2, <1>4, HeldIs
  <2> QED
    BY <1>3, <1>4, <2>1
<1>5. ASSUME NEW p \in Steps PROVE StepOk(x, sc, cl1, cg, p, st[p])
  <2>1. StepOk(r, sc, cl, cg, p, st[p]) /\ ScopeOf[p] \in Scopes
    BY <1>1, Constants
  <2>2. st[p].at \in Entries \cup {None}
    BY <1>2 DEF StepType
  <2>3. st[p].pc = "leaving" /\ st[p].at # None => x.entry[st[p].at].retired
    BY <1>4, <2>1, <2>2 DEF StepOk
  <2>4. /\ InLine(x, p) <=> InLine(r, p)
        /\ st[p].pc = "acquiring" => x.entry[st[p].at].lease = "acquiring" /\ st[p].at \in x.live
        /\ ~Over(cg) /\ st[p].pc \in {"using", "hit"} => cl1[Machine(st[p].at)] # "off"
    BY <1>3
  <2> QED
    BY <2>1, <2>3, <2>4 DEF StepOk
<1>6. ASSUME NEW s \in Scopes PROVE ScopeOk(x, sc, cg, s)
  <2>1. ScopeOk(r, sc, cg, s)
    BY <1>1
  <2>2. \A e \in Entries : sc[s].owed[e] > 0 => Held(sc)[s][e] > 0
    BY <1>2, HeldType
  <2>3. sc[s].phase = "open" => \A e \in Entries : sc[s].owed[e] > 0 => x.entry[e].retired
    BY <1>4, <2>1, <2>2 DEF ScopeOk
  <2>4. sc[s].phase = "closed" => x.reserved[s] = 0
    <3>1. x.reserved[s] \in 0..1
      BY <1>2, Parts
    <3>2. sc[s].phase = "closed" => ~(x.reserved[s] > 0)
      <4>1. sc[s].phase = "closed" => r.reserved[s] = 0
        BY <2>1 DEF ScopeOk
      <4>2. x.reserved[s] > 0 => r.reserved[s] > 0 \/ sc[s].phase # "closed"
        OBVIOUS
      <4> QED
        BY <4>1, <4>2
    <3> QED
      BY <3>1, <3>2
  <2> QED
    BY <2>1, <2>3, <2>4 DEF ScopeOk
<1>7. ASSUME NEW s \in Jobs PROVE Placed(x, sc, cg, s)
  <2> SUFFICES ASSUME ~Over(cg), scene.exclusive, sc[s].phase = "open",
                      (\E e \in Entries : Held(sc)[s][e] > 0) \/ \E p \in Steps : ScopeOf[p] = s /\ x.got[p] # None
               PROVE  HasPlace(x, s)
    BY DEF Placed
  <2>1. s \in S
    OBVIOUS
  <2>2. HasPlace(r, s) => HasPlace(x, s)
    BY <1>3, <2>1 DEF PlacesKept
  <2>3. CASE HasPlace(r, s)
    BY <2>2, <2>3
  <2>4. CASE ~HasPlace(r, s)
    <3>1. /\ ~(\E e \in Entries : Held(sc)[s][e] > 0)
          /\ ~(\E p \in Steps : ScopeOf[p] = s /\ r.got[p] # None)
      BY <1>1, <2>4 DEF Placed
    <3>2. PICK p \in Steps : ScopeOf[p] = s /\ x.got[p] # None
      BY <3>1
    <3> QED
      BY <1>3, <3>1, <3>2
  <2> QED
    BY <2>3, <2>4
<1>8. Capped(x, st)
  BY <1>1 DEF Capped
<1> QED
  BY <1>1, <1>2, <1>5, <1>6, <1>7, <1>8 DEF Good

\* What a step is on is held, and not about to be reused.
LEMMA OnHeld ==
    ASSUME NEW r, NEW sc, NEW st, NEW cl, NEW cg, NEW rc, Good(r, sc, st, cl, cg, rc),
           NEW p \in Steps, st[p].pc \in On
    PROVE  /\ st[p].at \in Entries /\ Held(sc)[ScopeOf[p]][st[p].at] > 0 /\ r.entry[st[p].at].refs > 0
           /\ ~Over(cg) => r.entry[st[p].at].gone = "no" /\ st[p].at \in r.live
<1>1. StepOk(r, sc, cl, cg, p, st[p]) /\ Core(r, Held(sc)) /\ (~Over(cg) => Quiet(r)) /\ ScopeOf[p] \in Scopes
  BY Constants DEF Good, Sound
<1>2. st[p].at \in Entries /\ Held(sc)[ScopeOf[p]][st[p].at] > 0
  BY <1>1 DEF StepOk
<1>3. /\ r.entry[st[p].at].refs > 0 /\ (r.entry[st[p].at].gone = "no" => st[p].at \in r.live)
      /\ Quiet(r) => r.entry[st[p].at].gone = "no"
  BY <1>1, <1>2, HeldIs
<1> QED
  BY <1>1, <1>2, <1>3

\* A change of the registry that is calm and steady.
LEMMA RegSteady ==
    ASSUME NEW r, NEW sc, NEW st, NEW cl, NEW cg, NEW rc, Good(r, sc, st, cl, cg, rc),
           NEW x, NEW S, Sound(x, sc, cg), Calm(r, x, S), Steady(r, x),
           scene.exclusive /\ scene.max > 0 /\ Within(r) => Within(x),
           ~Over(cg) => \A s \in Jobs : sc[s].phase = "open" => s \in S,
           \A s \in Scopes : x.reserved[s] > 0 => r.reserved[s] > 0 \/ sc[s].phase # "closed"
    PROVE  Good(x, sc, st, cl, cg, rc)
<1>1. /\ \A q \in Steps : StepOk(r, sc, cl, cg, q, st[q])
      /\ Up(r, cl) /\ Billed(r, cl) /\ cl \in Cloud
  BY DEF Good, Shape
<1>2. x.live \subseteq Entries /\ r.live \subseteq Entries
  BY Parts DEF Good, Sound, Core, Typed
<1>3. ASSUME NEW q \in Steps, st[q].pc = "acquiring"
      PROVE  x.entry[st[q].at].lease = "acquiring" /\ st[q].at \in x.live
  <2>1. st[q].pc \in On
    BY <1>3 DEF On
  <2>2. st[q].at \in Entries /\ r.entry[st[q].at].refs > 0
    BY <2>1, OnHeld
  <2>3. r.entry[st[q].at].lease = "acquiring" /\ st[q].at \in r.live
    BY <1>1, <1>3 DEF StepOk
  <2> QED
    BY <2>2, <2>3 DEF Steady
<1>4. \A q \in Steps : ~Over(cg) /\ st[q].pc \in {"using", "hit"} => cl[Machine(st[q].at)] # "off"
  BY <1>1 DEF StepOk
<1>5. Up(x, cl)
  BY <1>1, <1>2 DEF Up, Steady
<1>6. Billed(x, cl)
  <2> SUFFICES ASSUME NEW m \in Entries, cl[m] = "running"
               PROVE  \E e \in x.live : Machine(e) = m /\ x.entry[e].owes /\ Kept(x, e)
    BY DEF Billed
  <2>1. PICK e \in r.live : Machine(e) = m /\ r.entry[e].owes /\ Kept(r, e)
    BY <1>1 DEF Billed
  <2> QED
    BY <1>2, <2>1 DEF Steady
<1> QED
  BY <1>1, <1>3, <1>4, <1>5, <1>6, RegTo

-----------------------------------------------------------------------------
(* Changes of a scope's books.                                             *)

\* Holdings that agree everywhere are the same.
LEMMA SameHoldings ==
    ASSUME NEW G \in HoldingType, NEW H \in HoldingType, \A s \in Scopes : \A e \in Entries : G[s][e] = H[s][e]
    PROVE  G = H
<1>1. \A s \in Scopes : G[s] = H[s]
  BY DEF HoldingType
<1> QED
  BY <1>1 DEF HoldingType

\* Another scope's books say nothing of what a scope holds.
LEMMA HeldOther ==
    ASSUME NEW sc, NEW sc1, NEW o \in Scopes, NEW e \in Entries, sc1[o] = sc[o]
    PROVE  Held(sc1)[o][e] = Held(sc)[o][e]
BY DEF Held

\* One scope's books replaced.
ScopeIs(sc, sc1, s, n) == sc1 = [sc EXCEPT ![s] = n]

\* One scope's books replaced.
LEMMA ScopeIsTyped ==
    ASSUME NEW sc \in [Scopes -> ScopeType], NEW s \in Scopes, NEW n \in ScopeType, NEW sc1, ScopeIs(sc, sc1, s, n)
    PROVE  sc1 \in [Scopes -> ScopeType] /\ sc1[s] = n /\ \A o \in Scopes \ {s} : sc1[o] = sc[o]
BY DEF ScopeIs

\* A scope's books change, and what it holds does not.
LEMMA ScopeTo ==
    ASSUME NEW r, NEW sc, NEW st, NEW cl, NEW cg, NEW rc, Good(r, sc, st, cl, cg, rc),
           NEW s \in Scopes, NEW n \in ScopeType, NEW sc1, ScopeIs(sc, sc1, s, n),
           \A e \in Entries : Held(sc1)[s][e] = Held(sc)[s][e],
           ScopeOk(r, sc1, cg, s), n.claiming = sc[s].claiming,
           n.phase = sc[s].phase \/ (n.phase # "open" /\ \A p \in Steps : ScopeOf[p] = s => st[p].pc = "done"),
           \A t \in Tags : n.held[t] \in {sc[s].held[t], None}
    PROVE  Good(r, sc1, st, cl, cg, rc)
<1>1. /\ Shape(sc, st, cl, cg, rc) /\ Sound(r, sc, cg)
      /\ \A q \in Steps : StepOk(r, sc, cl, cg, q, st[q])
      /\ OneAcquirer(st)
      /\ \A o \in Scopes : ScopeOk(r, sc, cg, o)
      /\ \A o \in Scopes : Claiming(sc, st, o)
      /\ \A o \in Jobs : Placed(r, sc, cg, o)
      /\ Capped(r, st) /\ Up(r, cl) /\ Billed(r, cl)
  BY DEF Good
<1>2. sc \in [Scopes -> ScopeType]
  BY <1>1 DEF Shape
<1>3. sc1 \in [Scopes -> ScopeType] /\ sc1[s] = n /\ \A o \in Scopes \ {s} : sc1[o] = sc[o]
  BY <1>2, ScopeIsTyped
<1>4. Held(sc1) = Held(sc)
  <2>1. Held(sc) \in HoldingType /\ Held(sc1) \in HoldingType
    BY <1>2, <1>3, HeldType
  <2>2. \A o \in Scopes : \A e \in Entries : Held(sc1)[o][e] = Held(sc)[o][e]
    <3> SUFFICES ASSUME NEW o \in Scopes, NEW e \in Entries PROVE Held(sc1)[o][e] = Held(sc)[o][e]
      OBVIOUS
    <3>1. CASE o = s
      BY <3>1
    <3>2. CASE o # s
      BY <1>3, <3>2, HeldOther
    <3> QED
      BY <3>1, <3>2
  <2> QED
    BY <2>1, <2>2, SameHoldings
<1>5. Shape(sc1, st, cl, cg, rc) /\ Sound(r, sc1, cg)
  BY <1>1, <1>3, <1>4 DEF Shape, Sound
<1>6. ASSUME NEW q \in Steps PROVE StepOk(r, sc1, cl, cg, q, st[q])
  <2>1. StepOk(r, sc, cl, cg, q, st[q]) /\ ScopeOf[q] \in Scopes /\ TagOf[q] \in Tags
    BY <1>1, Constants
  <2>2. st[q].pc # "done" => sc1[ScopeOf[q]].phase = "open"
    BY <1>3, <2>1 DEF StepOk
  <2>3. st[q].pc = "queued" => sc1[ScopeOf[q]].claiming /\ sc1[ScopeOf[q]].held[TagOf[q]] = None
    BY <1>3, <2>1 DEF StepOk
  <2> QED
    BY <1>4, <2>1, <2>2, <2>3 DEF StepOk
<1>7. ASSUME NEW o \in Scopes PROVE ScopeOk(r, sc1, cg, o) /\ Claiming(sc1, st, o)
  <2>1. CASE o = s
    BY <1>1, <1>3, <2>1 DEF Claiming
  <2>2. CASE o # s
    BY <1>1, <1>3, <2>2 DEF Claiming, ScopeOk
  <2> QED
    BY <2>1, <2>2
<1>8. ASSUME NEW o \in Jobs PROVE Placed(r, sc1, cg, o)
  <2>1. Placed(r, sc, cg, o) /\ o \in Scopes
    BY <1>1 DEF Jobs
  <2>2. sc1[o].phase = "open" => sc[o].phase = "open"
    BY <1>3, <2>1
  <2> QED
    BY <1>4, <2>1, <2>2 DEF Placed
<1> QED
  BY <1>1, <1>5, <1>6, <1>7, <1>8 DEF Good

\* A dead machine is owed its release.
LEMMA Owing ==
    ASSUME NEW r, NEW sc, NEW st, NEW cl, NEW cg, NEW rc, Good(r, sc, st, cl, cg, rc),
           NEW s \in Scopes, NEW t \in Tags, NEW h \in Entries, sc[s].held[t] = h, r.entry[h].retired,
           NEW n \in ScopeType, NEW sc1, ScopeIs(sc, sc1, s, n),
           n.phase = sc[s].phase, n.cancelled = sc[s].cancelled, n.claiming = sc[s].claiming,
           n.held[t] = None, \A u \in Tags \ {t} : n.held[u] = sc[s].held[u],
           n.owed[h] = sc[s].owed[h] + 1, \A e \in Entries \ {h} : n.owed[e] = sc[s].owed[e]
    PROVE  Good(r, sc1, st, cl, cg, rc) /\ \A o \in Scopes : \A e \in Entries : Held(sc1)[o][e] = Held(sc)[o][e]
<1>1. /\ sc \in [Scopes -> ScopeType] /\ ScopeOk(r, sc, cg, s)
  BY DEF Good, Shape
<1>2. sc1 \in [Scopes -> ScopeType] /\ sc1[s] = n /\ \A o \in Scopes \ {s} : sc1[o] = sc[o]
  BY <1>1, ScopeIsTyped
<1>3. None \notin Entries
  BY Constants
<1>4. ASSUME NEW e \in Entries PROVE Held(sc1)[s][e] = Held(sc)[s][e]
  <2>1. /\ Held(sc)[s][e] = Cardinality(HeldIn(sc[s].held, e)) + sc[s].owed[e]
        /\ Held(sc1)[s][e] = Cardinality(HeldIn(n.held, e)) + n.owed[e]
        /\ Cardinality(HeldIn(sc[s].held, e)) \in Nat /\ sc[s].owed[e] \in Nat
    BY <1>1, <1>2, HeldType
  <2>2. CASE e = h
    <3>1. HeldIn(n.held, e) = HeldIn(sc[s].held, e) \ {t} /\ t \in HeldIn(sc[s].held, e)
      BY <1>3, <2>2 DEF HeldIn
    <3>2. IsFiniteSet(HeldIn(sc[s].held, e))
      BY Constants, FS_Subset DEF HeldIn
    <3>3. Cardinality(HeldIn(n.held, e)) = Cardinality(HeldIn(sc[s].held, e)) - 1
      BY <3>1, <3>2, FS_RemoveElement
    <3>4. n.owed[e] = sc[s].owed[e] + 1
      BY <2>2
    <3> QED
      BY <2>1, <3>3, <3>4
  <2>3. CASE e # h
    <3>1. HeldIn(n.held, e) = HeldIn(sc[s].held, e)
      BY <1>3, <2>3 DEF HeldIn
    <3> QED
      BY <2>1, <2>3, <3>1
  <2> QED
    BY <2>2, <2>3
<1>5. sc[s].phase = "open"
  BY <1>1, <1>3 DEF ScopeOk
<1>6. ScopeOk(r, sc1, cg, s)
  BY <1>1, <1>2, <1>5 DEF ScopeOk
<1>7. \A u \in Tags : n.held[u] \in {sc[s].held[u], None}
  OBVIOUS
<1>8. Good(r, sc1, st, cl, cg, rc)
  BY <1>4, <1>6, <1>7, ScopeTo
<1>9. \A o \in Scopes : \A e \in Entries : Held(sc1)[o][e] = Held(sc)[o][e]
  <2> SUFFICES ASSUME NEW o \in Scopes, NEW e \in Entries PROVE Held(sc1)[o][e] = Held(sc)[o][e]
    OBVIOUS
  <2>1. CASE o = s
    BY <1>4, <2>1
  <2>2. CASE o # s
    BY <1>2, <2>2, HeldOther
  <2> QED
    BY <2>1, <2>2
<1> QED
  BY <1>8, <1>9

-----------------------------------------------------------------------------
\* A steady change leaves machines up, and their bills owed.
LEMMA SteadyFacts ==
    ASSUME NEW r, NEW sc, NEW st, NEW cl, NEW cg, NEW rc, Good(r, sc, st, cl, cg, rc),
           NEW x \in Registry, Steady(r, x)
    PROVE  /\ Up(x, cl) /\ Billed(x, cl)
           /\ \A q \in Steps : st[q].pc = "acquiring" => x.entry[st[q].at].lease = "acquiring" /\ st[q].at \in x.live
<1>1. /\ \A q \in Steps : StepOk(r, sc, cl, cg, q, st[q])
      /\ Up(r, cl) /\ Billed(r, cl) /\ cl \in Cloud
  BY DEF Good, Shape
<1>2. x.live \subseteq Entries /\ r.live \subseteq Entries
  BY Parts DEF Good, Sound, Core, Typed
<1>3. ASSUME NEW q \in Steps, st[q].pc = "acquiring"
      PROVE  x.entry[st[q].at].lease = "acquiring" /\ st[q].at \in x.live
  <2>1. st[q].pc \in On
    BY <1>3 DEF On
  <2>2. st[q].at \in Entries /\ r.entry[st[q].at].refs > 0
    BY <2>1, OnHeld
  <2>3. r.entry[st[q].at].lease = "acquiring" /\ st[q].at \in r.live
    BY <1>1, <1>3 DEF StepOk
  <2> QED
    BY <2>2, <2>3 DEF Steady
<1>5. Up(x, cl)
  BY <1>1, <1>2 DEF Up, Steady
<1>6. Billed(x, cl)
  <2> SUFFICES ASSUME NEW m \in Entries, cl[m] = "running"
               PROVE  \E e \in x.live : Machine(e) = m /\ x.entry[e].owes /\ Kept(x, e)
    BY DEF Billed
  <2>1. PICK e \in r.live : Machine(e) = m /\ r.entry[e].owes /\ Kept(r, e)
    BY <1>1 DEF Billed
  <2> QED
    BY <1>2, <2>1 DEF Steady
<1> QED
  BY <1>3, <1>5, <1>6

\* Retired machines that somebody holds stay retired.
StillDead(r, x) == \A f \in Entries : r.entry[f].refs > 0 /\ r.entry[f].retired => x.entry[f].retired

\* A step that stands still while others move.
LEMMA StepFrame ==
    ASSUME NEW r, NEW sc, NEW st, NEW cl, NEW cg, NEW rc, Good(r, sc, st, cl, cg, rc),
           NEW x \in Registry, Steady(r, x), StillDead(r, x), NEW sc1,
           NEW q \in Steps, InLine(x, q) <=> InLine(r, q),
           st[q].pc = "done" \/ (/\ sc1[ScopeOf[q]].phase = sc[ScopeOf[q]].phase
                                 /\ \A e \in Entries : Held(sc)[ScopeOf[q]][e] > 0 => Held(sc1)[ScopeOf[q]][e] > 0),
           st[q].pc = "queued" => sc1[ScopeOf[q]].claiming /\ sc1[ScopeOf[q]].held[TagOf[q]] = None
    PROVE  StepOk(x, sc1, cl, cg, q, st[q])
<1>1. StepOk(r, sc, cl, cg, q, st[q]) /\ ScopeOf[q] \in Scopes /\ Core(r, Held(sc)) /\ st[q].at \in Entries \cup {None}
  BY Constants DEF Good, Sound, Shape, StepType
<1>2. st[q].pc = "acquiring" => x.entry[st[q].at].lease = "acquiring" /\ st[q].at \in x.live
  BY SteadyFacts
<1>3. CASE st[q].pc = "done"
  BY <1>1, <1>3 DEF StepOk, On
<1>4. CASE st[q].pc # "done"
  <2>1. /\ sc1[ScopeOf[q]].phase = sc[ScopeOf[q]].phase
        /\ \A e \in Entries : Held(sc)[ScopeOf[q]][e] > 0 => Held(sc1)[ScopeOf[q]][e] > 0
    BY <1>4
  <2>2. st[q].pc = "leaving" /\ st[q].at # None => x.entry[st[q].at].retired
    <3> SUFFICES ASSUME st[q].pc = "leaving", st[q].at # None PROVE x.entry[st[q].at].retired
      OBVIOUS
    <3>1. r.entry[st[q].at].retired /\ Held(sc)[ScopeOf[q]][st[q].at] > 0 /\ st[q].at \in Entries
      BY <1>1 DEF StepOk
    <3>2. r.entry[st[q].at].refs > 0
      BY <1>1, <3>1, HeldIs
    <3> QED
      BY <3>1, <3>2 DEF StillDead
  <2>3. (\E e \in Entries : Held(sc)[ScopeOf[q]][e] > 0) => \E e \in Entries : Held(sc1)[ScopeOf[q]][e] > 0
    BY <2>1
  <2>4. /\ st[q].pc \in On => st[q].at \in Entries /\ Held(sc1)[ScopeOf[q]][st[q].at] > 0
        /\ st[q].pc = "leaving" /\ st[q].at # None => Held(sc1)[ScopeOf[q]][st[q].at] > 0
    BY <1>1, <2>1 DEF StepOk
  <2> QED
    BY <1>1, <1>2, <2>1, <2>2, <2>3, <2>4 DEF StepOk
<1> QED
  BY <1>3, <1>4

-----------------------------------------------------------------------------
(* Claims and the queue.                                                   *)

\* A scope takes hold of one more machine, by a tag that named none.
LEMMA HeldMore ==
    ASSUME NEW sc \in [Scopes -> ScopeType], NEW s \in Scopes, NEW t \in Tags, NEW e \in Entries,
           sc[s].held[t] = None, NEW n \in ScopeType, NEW sc1, ScopeIs(sc, sc1, s, n),
           n.held[t] = e, \A u \in Tags \ {t} : n.held[u] = sc[s].held[u], n.owed = sc[s].owed
    PROVE  /\ Held(sc1) = More(Held(sc), s, e)
           /\ \A o \in Scopes : \A f \in Entries : Held(sc)[o][f] > 0 => Held(sc1)[o][f] > 0
           /\ Held(sc1)[s][e] > 0
           /\ \A o \in Scopes \ {s} : \A f \in Entries : Held(sc1)[o][f] = Held(sc)[o][f]
<1>1. sc1 \in [Scopes -> ScopeType] /\ sc1[s] = n /\ \A o \in Scopes \ {s} : sc1[o] = sc[o]
  BY ScopeIsTyped
<1>2. None \notin Entries
  BY Constants
<1>3. Held(sc) \in HoldingType /\ Held(sc1) \in HoldingType
  BY <1>1, HeldType
<1>4. /\ More(Held(sc), s, e) \in HoldingType
      /\ \A o \in Scopes : \A f \in Entries :
            More(Held(sc), s, e)[o][f] = IF o = s /\ f = e THEN Held(sc)[o][f] + 1 ELSE Held(sc)[o][f]
  BY <1>3, MoreHeld
<1>5. \A o \in Scopes \ {s} : \A f \in Entries : Held(sc1)[o][f] = Held(sc)[o][f]
  BY <1>1, HeldOther
<1>6. ASSUME NEW f \in Entries
      PROVE  Held(sc1)[s][f] = IF f = e THEN Held(sc)[s][f] + 1 ELSE Held(sc)[s][f]
  <2>1. /\ Held(sc)[s][f] = Cardinality(HeldIn(sc[s].held, f)) + sc[s].owed[f]
        /\ Cardinality(HeldIn(sc[s].held, f)) \in Nat /\ sc[s].owed[f] \in Nat
    BY HeldType
  <2>2. Held(sc1)[s][f] = Cardinality(HeldIn(n.held, f)) + sc[s].owed[f]
    BY <1>1, HeldType
  <2>3. CASE f = e
    <3>1. HeldIn(n.held, f) = HeldIn(sc[s].held, f) \cup {t} /\ t \notin HeldIn(sc[s].held, f)
      BY <1>2, <2>3 DEF HeldIn
    <3>2. IsFiniteSet(HeldIn(sc[s].held, f))
      BY Constants, FS_Subset DEF HeldIn
    <3>3. Cardinality(HeldIn(n.held, f)) = Cardinality(HeldIn(sc[s].held, f)) + 1
      BY <3>1, <3>2, FS_AddElement
    <3> QED
      BY <2>1, <2>2, <2>3, <3>3
  <2>4. CASE f # e
    <3>1. HeldIn(n.held, f) = HeldIn(sc[s].held, f)
      BY <1>2, <2>4 DEF HeldIn
    <3> QED
      BY <2>1, <2>2, <2>4, <3>1
  <2> QED
    BY <2>3, <2>4
<1>7. \A o \in Scopes : \A f \in Entries : Held(sc1)[o][f] = More(Held(sc), s, e)[o][f]
  <2> SUFFICES ASSUME NEW o \in Scopes, NEW f \in Entries
               PROVE  Held(sc1)[o][f] = More(Held(sc), s, e)[o][f]
    OBVIOUS
  <2>1. More(Held(sc), s, e)[o][f] = IF o = s /\ f = e THEN Held(sc)[o][f] + 1 ELSE Held(sc)[o][f]
    BY <1>4
  <2>2. CASE o = s
    BY <1>6, <2>1, <2>2
  <2>3. CASE o # s
    BY <1>5, <2>1, <2>3
  <2> QED
    BY <2>2, <2>3
<1>8. Held(sc1) = More(Held(sc), s, e)
  <2>1. More(Held(sc), s, e) \in HoldingType
    BY <1>4
  <2> QED
    BY <1>3, <1>7, <2>1, SameHoldings
<1>9. \A f \in Entries : Held(sc)[s][f] \in Nat
  BY <1>3 DEF HoldingType
<1>10. \A f \in Entries : Held(sc)[s][f] > 0 => Held(sc1)[s][f] > 0
  BY <1>6, <1>9
<1>11. Held(sc1)[s][e] > 0
  BY <1>6, <1>9
<1>12. \A o \in Scopes : \A f \in Entries : Held(sc)[o][f] > 0 => Held(sc1)[o][f] > 0
  BY <1>5, <1>10
<1> QED
  BY <1>5, <1>8, <1>11, <1>12

\* One step's place replaced.
LEMMA StepIsTyped ==
    ASSUME NEW st \in [Steps -> StepType], NEW p \in Steps, NEW n \in StepType, NEW st1, Became(st, st1, p, n)
    PROVE  st1 \in [Steps -> StepType] /\ st1[p] = n /\ \A q \in Steps \ {p} : st1[q] = st[q]
BY DEF Became

\* A step asks, and its tag names no machine.
Asked(sc, st, p) ==
    /\ st[p].pc \in {"new", "claimed"} /\ ~sc[ScopeOf[p]].claiming
    /\ sc[ScopeOf[p]].held[TagOf[p]] = None

\* The registry counts a scope toward a machine.
Takes(r, x, sc, cg, s, e) ==
    /\ e \in Entries /\ Core(x, More(Held(sc), s, e)) /\ Taken(r, x) /\ Settled(x)
    /\ scene.exclusive /\ ~Rides(s) /\ scene.max > 0 /\ Within(r) => Within(x)
    /\ ~Over(cg) /\ scene.exclusive /\ ~Rides(s) => HasPlace(x, s)
    /\ \A o \in Scopes : x.reserved[o] > 0 => r.reserved[o] > 0

\* The scope's tag names it, and nothing else of the scope changes.
Tagged(sc, sc1, s, t, e, m) ==
    /\ m \in ScopeType /\ ScopeIs(sc, sc1, s, m)
    /\ m.phase = sc[s].phase /\ m.cancelled = sc[s].cancelled
    /\ m.claiming = sc[s].claiming /\ m.owed = sc[s].owed
    /\ m.held[t] = e /\ \A u \in Tags \ {t} : m.held[u] = sc[s].held[u]

\* The step has it.
HasClaimed(st, st1, p, e, n) ==
    n \in StepType /\ Became(st, st1, p, n) /\ n.pc = "claimed" /\ n.at = e

\* A step claims a machine that is counted for it at once.
LEMMA ClaimTo ==
    ASSUME NEW r, NEW sc, NEW st, NEW cl, NEW cg, NEW rc, Good(r, sc, st, cl, cg, rc), SceneOk,
           NEW p \in Steps, Asked(sc, st, p), NEW e, NEW x, Takes(r, x, sc, cg, ScopeOf[p], e),
           NEW sc1, NEW m, Tagged(sc, sc1, ScopeOf[p], TagOf[p], e, m),
           NEW st1, NEW n, HasClaimed(st, st1, p, e, n)
    PROVE  Good(x, sc1, st1, cl, cg, rc)
<1>20. st[p].pc \in {"new", "claimed"} /\ ~sc[ScopeOf[p]].claiming /\ sc[ScopeOf[p]].held[TagOf[p]] = None
  BY DEF Asked
<1>21. e \in Entries /\ Core(x, More(Held(sc), ScopeOf[p], e)) /\ Taken(r, x) /\ Settled(x)
  BY DEF Takes
<1>24. scene.exclusive /\ ~Rides(ScopeOf[p]) /\ scene.max > 0 /\ Within(r) => Within(x)
  BY DEF Takes
<1>25. ~Over(cg) /\ scene.exclusive /\ ~Rides(ScopeOf[p]) => HasPlace(x, ScopeOf[p])
  BY DEF Takes
<1>26. \A o \in Scopes : x.reserved[o] > 0 => r.reserved[o] > 0
  BY DEF Takes
<1>22. /\ m \in ScopeType /\ ScopeIs(sc, sc1, ScopeOf[p], m)
      /\ m.phase = sc[ScopeOf[p]].phase /\ m.cancelled = sc[ScopeOf[p]].cancelled
      /\ m.claiming = sc[ScopeOf[p]].claiming /\ m.owed = sc[ScopeOf[p]].owed
      /\ m.held[TagOf[p]] = e /\ \A u \in Tags \ {TagOf[p]} : m.held[u] = sc[ScopeOf[p]].held[u]
  BY DEF Tagged
<1>23. n \in StepType /\ Became(st, st1, p, n) /\ n.pc = "claimed" /\ n.at = e
  BY DEF HasClaimed
<1> DEFINE s == ScopeOf[p]
<1>1. /\ Shape(sc, st, cl, cg, rc) /\ Sound(r, sc, cg)
      /\ \A q \in Steps : StepOk(r, sc, cl, cg, q, st[q])
      /\ OneAcquirer(st)
      /\ \A o \in Scopes : ScopeOk(r, sc, cg, o)
      /\ \A o \in Scopes : Claiming(sc, st, o)
      /\ \A o \in Jobs : Placed(r, sc, cg, o)
      /\ Capped(r, st)
  BY DEF Good
<1>2. /\ sc \in [Scopes -> ScopeType] /\ st \in [Steps -> StepType] /\ Core(r, Held(sc))
      /\ r \in Registry /\ x \in Registry /\ s \in Scopes /\ TagOf[p] \in Tags
      /\ \A q \in Steps : ScopeOf[q] \in Scopes
  BY <1>1, <1>21, Constants DEF Shape, Sound, Core, Typed
<1>3. sc1 \in [Scopes -> ScopeType] /\ sc1[s] = m /\ \A o \in Scopes \ {s} : sc1[o] = sc[o]
  BY <1>2, <1>22, ScopeIsTyped
<1>4. st1 \in [Steps -> StepType] /\ st1[p] = n /\ \A q \in Steps \ {p} : st1[q] = st[q]
  BY <1>2, <1>23, StepIsTyped
<1>5. /\ Held(sc1) = More(Held(sc), s, e)
      /\ \A o \in Scopes : \A f \in Entries : Held(sc)[o][f] > 0 => Held(sc1)[o][f] > 0
      /\ Held(sc1)[s][e] > 0
      /\ \A o \in Scopes \ {s} : \A f \in Entries : Held(sc1)[o][f] = Held(sc)[o][f]
  BY <1>2, <1>20, <1>21, <1>22, HeldMore
<1>6. Calm(r, x, Scopes) /\ Steady(r, x) /\ x.closed = r.closed
  BY <1>2, <1>21, TakenCalm
<1>7. /\ \A q \in Steps : (InLine(x, q) <=> InLine(r, q)) /\ x.got[q] = r.got[q]
      /\ PlacesKept(r, x, Scopes) /\ StillDead(r, x)
      /\ (Quiet(r) => Quiet(x)) /\ (Idle(r) => Idle(x))
  BY <1>6, <1>21 DEF Calm, StillDead, Taken
<1>8. StepOk(r, sc, cl, cg, p, st[p])
  BY <1>1
<1>9. sc[s].phase = "open" /\ p \in scene.cast /\ ~InLine(r, p)
  BY <1>8, <1>20 DEF StepOk
<1>10. Shape(sc1, st1, cl, cg, rc)
  BY <1>1, <1>3, <1>4 DEF Shape
<1>11. Sound(x, sc1, cg)
  <2>1. Core(x, Held(sc1))
    BY <1>5, <1>21
  <2> QED
    BY <1>1, <1>6, <1>7, <1>21, <1>24, <2>1 DEF Sound
<1>12. ASSUME NEW q \in Steps PROVE StepOk(x, sc1, cl, cg, q, st1[q])
  <2>1. CASE q = p
    <3>1. n.pc = "claimed" /\ n.at = e /\ ~InLine(x, p) /\ sc1[s].phase = "open" /\ Held(sc1)[s][e] > 0
      BY <1>3, <1>5, <1>7, <1>9, <1>22, <1>23
    <3> QED
      BY <1>4, <1>9, <1>21, <1>23, <2>1, <3>1 DEF StepOk, On
  <2>2. CASE q # p
    <3>1. st1[q] = st[q] /\ (InLine(x, q) <=> InLine(r, q)) /\ ScopeOf[q] \in Scopes
      BY <1>2, <1>4, <1>7, <2>2
    <3>2. /\ sc1[ScopeOf[q]].phase = sc[ScopeOf[q]].phase
          /\ \A f \in Entries : Held(sc)[ScopeOf[q]][f] > 0 => Held(sc1)[ScopeOf[q]][f] > 0
      BY <1>3, <1>5, <1>22, <3>1
    <3>3. st[q].pc = "queued" => sc1[ScopeOf[q]].claiming /\ sc1[ScopeOf[q]].held[TagOf[q]] = None
      <4>1. st[q].pc = "queued" => sc[ScopeOf[q]].claiming /\ sc[ScopeOf[q]].held[TagOf[q]] = None
        BY <1>1 DEF StepOk
      <4>2. st[q].pc = "queued" => ScopeOf[q] # s
        BY <1>20, <4>1
      <4> QED
        BY <1>3, <3>1, <4>1, <4>2
    <3>4. StepOk(x, sc1, cl, cg, q, st[q])
      BY <1>2, <1>6, <1>7, <3>1, <3>2, <3>3, StepFrame
    <3> QED
      BY <3>1, <3>4
  <2> QED
    BY <2>1, <2>2
<1>13. OneAcquirer(st1)
  <2>1. \A q \in Steps : st1[q].pc = "acquiring" => q # p /\ st1[q] = st[q]
    BY <1>4, <1>23
  <2> QED
    BY <1>1, <2>1 DEF OneAcquirer
<1>14. ASSUME NEW o \in Scopes PROVE ScopeOk(x, sc1, cg, o) /\ Claiming(sc1, st1, o)
  <2>0. ScopeOk(r, sc, cg, o) /\ Claiming(sc, st, o)
    BY <1>1
  <2>1. \A f \in Entries : sc[o].owed[f] > 0 /\ r.entry[f].retired => x.entry[f].retired
    <3> SUFFICES ASSUME NEW f \in Entries, sc[o].owed[f] > 0, r.entry[f].retired PROVE x.entry[f].retired
      OBVIOUS
    <3>1. Held(sc)[o][f] > 0
      BY <1>2, HeldType
    <3>2. r.entry[f].refs > 0
      BY <1>2, <3>1, HeldIs
    <3> QED
      BY <1>7, <3>2 DEF StillDead
  <2>2. sc1[o].phase = sc[o].phase /\ sc1[o].cancelled = sc[o].cancelled /\ sc1[o].owed = sc[o].owed
        /\ sc1[o].claiming = sc[o].claiming
    BY <1>3, <1>22
  <2>3. sc1[o].phase # "open" => sc1[o] = sc[o]
    BY <1>3, <1>9, <1>22
  <2>4. r.reserved[o] = 0 => x.reserved[o] = 0
    <3>1. x.reserved[o] \in 0..1 /\ (x.reserved[o] > 0 => r.reserved[o] > 0)
      BY <1>2, <1>26, Parts
    <3> QED
      BY <3>1
  <2>5. ScopeOk(x, sc1, cg, o)
    BY <2>0, <2>1, <2>2, <2>3, <2>4 DEF ScopeOk
  <2>6. \A q \in Steps : st[q].pc = "queued" => st1[q].pc = "queued"
    BY <1>4, <1>20
  <2>7. Claiming(sc1, st1, o)
    BY <2>0, <2>2, <2>6 DEF Claiming
  <2> QED
    BY <2>5, <2>7
<1>15. ASSUME NEW o \in Jobs PROVE Placed(x, sc1, cg, o)
  <2>1. Placed(r, sc, cg, o) /\ o \in Scopes /\ ~Rides(o) /\ (HasPlace(r, o) => HasPlace(x, o))
    BY <1>1, <1>7, Constants DEF PlacesKept
  <2>2. CASE o = s
    BY <1>25, <2>1, <2>2 DEF Placed
  <2>3. CASE o # s
    <3>1. sc1[o].phase = sc[o].phase /\ \A f \in Entries : Held(sc1)[o][f] = Held(sc)[o][f]
      BY <1>3, <1>5, <2>1, <2>3
    <3> QED
      BY <1>7, <2>1, <3>1 DEF Placed
  <2> QED
    BY <2>2, <2>3
<1>16. Capped(x, st1)
  <2>1. NoCheck(st1) => ~Rides(s) /\ NoCheck(st)
    <3>1. NoCheck(st1) => ~Rides(s)
      BY <1>4, <1>9, <1>23 DEF NoCheck
    <3>2. NoCheck(st1) /\ ~Rides(s) => NoCheck(st)
      <4> SUFFICES ASSUME NoCheck(st1), ~Rides(s), NEW q \in scene.cast, Rides(ScopeOf[q])
                   PROVE  st[q].pc = "new" /\ st[q].tries = 0
        BY DEF NoCheck
      <4>1. q \in Steps /\ q # p
        BY DEF SceneOk, SceneType
      <4>2. st1[q] = st[q]
        BY <1>4, <4>1
      <4> QED
        BY <4>2 DEF NoCheck
    <3> QED
      BY <3>1, <3>2
  <2> QED
    BY <1>1, <1>9, <1>24, <2>1 DEF Capped
<1>17. Up(x, cl) /\ Billed(x, cl)
  BY <1>2, <1>6, SteadyFacts
<1> QED
  BY <1>10, <1>11, <1>12, <1>13, <1>14, <1>15, <1>16, <1>17 DEF Good

\* A step joins its pool's queue.
LEMMA QueueTo ==
    ASSUME NEW r, NEW sc, NEW st, NEW cl, NEW cg, NEW rc, Good(r, sc, st, cl, cg, rc), SceneOk, scene.exclusive,
           NEW p \in Steps, st[p].pc \in {"new", "claimed"}, ~sc[ScopeOf[p]].claiming, ScopeOf[p] \in Jobs,
           sc[ScopeOf[p]].held[TagOf[p]] = None, r.reserved[ScopeOf[p]] = 0,
           \A f \in Members(r) : r.entry[f].holder # ScopeOf[p],
           r.waiters = <<>> => Warmest(r, TRUE) = None /\ ~Room(r),
           NEW x, Queued(r, x, p),
           NEW m \in ScopeType, NEW sc1, ScopeIs(sc, sc1, ScopeOf[p], m),
           m.phase = sc[ScopeOf[p]].phase, m.cancelled = sc[ScopeOf[p]].cancelled,
           m.owed = sc[ScopeOf[p]].owed, m.held = sc[ScopeOf[p]].held, m.claiming,
           NEW n \in StepType, NEW st1, Became(st, st1, p, n), n.pc = "queued", n.tries = st[p].tries
    PROVE  Good(x, sc1, st1, cl, cg, rc)
<1> DEFINE s == ScopeOf[p]
<1>1. /\ Shape(sc, st, cl, cg, rc) /\ Sound(r, sc, cg)
      /\ \A q \in Steps : StepOk(r, sc, cl, cg, q, st[q])
      /\ OneAcquirer(st)
      /\ \A o \in Scopes : ScopeOk(r, sc, cg, o)
      /\ \A o \in Scopes : Claiming(sc, st, o)
      /\ \A o \in Jobs : Placed(r, sc, cg, o)
      /\ Capped(r, st) /\ Up(r, cl) /\ Billed(r, cl)
  BY DEF Good
<1>2. /\ sc \in [Scopes -> ScopeType] /\ st \in [Steps -> StepType] /\ Core(r, Held(sc)) /\ Settled(r)
      /\ r \in Registry /\ s \in Scopes /\ TagOf[p] \in Tags /\ ~Rides(s)
      /\ \A q \in Steps : ScopeOf[q] \in Scopes
  BY <1>1, Constants DEF Shape, Sound, Core, Typed
<1>3. sc1 \in [Scopes -> ScopeType] /\ sc1[s] = m /\ \A o \in Scopes \ {s} : sc1[o] = sc[o]
  BY <1>2, ScopeIsTyped
<1>4. st1 \in [Steps -> StepType] /\ st1[p] = n /\ \A q \in Steps \ {p} : st1[q] = st[q]
  BY <1>2, StepIsTyped
<1>5. \A o \in Scopes : \A f \in Entries : Held(sc1)[o][f] = Held(sc)[o][f]
  <2> SUFFICES ASSUME NEW o \in Scopes, NEW f \in Entries PROVE Held(sc1)[o][f] = Held(sc)[o][f]
    OBVIOUS
  <2>1. CASE o = s
    BY <1>3, <2>1 DEF Held
  <2>2. CASE o # s
    BY <1>3, <2>2, HeldOther
  <2> QED
    BY <2>1, <2>2
<1>6. Held(sc1) = Held(sc)
  BY <1>2, <1>3, <1>5, HeldType, SameHoldings
<1>7. \A q \in Steps : InLine(r, q) => ScopeOf[q] # s
  BY <1>1 DEF StepOk
<1>8. /\ Core(x, Held(sc)) /\ Settled(x) /\ (Within(r) => Within(x))
      /\ (Quiet(r) => Quiet(x)) /\ (Idle(r) => Idle(x))
      /\ \A q \in Steps : InLine(x, q) <=> InLine(r, q) \/ q = p
      /\ \A o \in Scopes : HasPlace(x, o) <=> HasPlace(r, o)
  BY <1>2, <1>7, EnqueueIs
<1>9. /\ x.entry = r.entry /\ x.live = r.live /\ x.got = r.got /\ x.reserved = r.reserved /\ x.closed = r.closed
      /\ x \in Registry
  BY DEF Queued
<1>10. Steady(r, x) /\ StillDead(r, x)
  BY <1>9 DEF Steady, StillDead, Kept
<1>11. StepOk(r, sc, cl, cg, p, st[p])
  BY <1>1
<1>12. sc[s].phase = "open" /\ p \in scene.cast
  BY <1>11 DEF StepOk
<1>13. Shape(sc1, st1, cl, cg, rc) /\ Sound(x, sc1, cg)
  BY <1>1, <1>3, <1>4, <1>6, <1>8, <1>9 DEF Shape, Sound
<1>14. ~Over(cg) => n.tries = 0
  <2> SUFFICES ASSUME ~Over(cg), n.tries # 0 PROVE FALSE
    OBVIOUS
  <2>1. n.tries > 0
    BY LeasesAssumption DEF StepType
  <2>2. \E e \in Entries : Held(sc)[s][e] > 0
    BY <1>11, <2>1 DEF StepOk
  <2>3. HasPlace(r, s)
    BY <1>1, <1>12, <2>2 DEF Placed
  <2> QED
    BY <2>3 DEF HasPlace
<1>15. ASSUME NEW q \in Steps PROVE StepOk(x, sc1, cl, cg, q, st1[q])
  <2>1. CASE q = p
    <3>1. InLine(x, p) /\ sc1[s].phase = "open" /\ sc1[s].claiming /\ sc1[s].held[TagOf[p]] = None
      BY <1>3, <1>8, <1>12
    <3>2. n.tries > 0 => \E e \in Entries : Held(sc1)[s][e] > 0
      BY <1>6, <1>11 DEF StepOk
    <3>3. ~Over(cg) => ~(n.tries > 0)
      BY <1>14
    <3> QED
      BY <1>4, <1>12, <2>1, <3>1, <3>2, <3>3 DEF StepOk, On
  <2>2. CASE q # p
    <3>1. st1[q] = st[q] /\ (InLine(x, q) <=> InLine(r, q)) /\ ScopeOf[q] \in Scopes
      BY <1>2, <1>4, <1>8, <2>2
    <3>2. /\ sc1[ScopeOf[q]].phase = sc[ScopeOf[q]].phase
          /\ \A f \in Entries : Held(sc)[ScopeOf[q]][f] > 0 => Held(sc1)[ScopeOf[q]][f] > 0
      BY <1>3, <1>6, <3>1
    <3>3. st[q].pc = "queued" => sc1[ScopeOf[q]].claiming /\ sc1[ScopeOf[q]].held[TagOf[q]] = None
      <4>1. st[q].pc = "queued" => sc[ScopeOf[q]].claiming /\ sc[ScopeOf[q]].held[TagOf[q]] = None
        BY <1>1 DEF StepOk
      <4> QED
        BY <1>3, <3>1, <4>1
    <3>4. StepOk(x, sc1, cl, cg, q, st[q])
      BY <1>9, <1>10, <3>1, <3>2, <3>3, StepFrame
    <3> QED
      BY <3>1, <3>4
  <2> QED
    BY <2>1, <2>2
<1>16. OneAcquirer(st1)
  <2>1. \A q \in Steps : st1[q].pc = "acquiring" => q # p /\ st1[q] = st[q]
    BY <1>4
  <2> QED
    BY <1>1, <2>1 DEF OneAcquirer
<1>17. ASSUME NEW o \in Scopes PROVE ScopeOk(x, sc1, cg, o) /\ Claiming(sc1, st1, o)
  <2>0. ScopeOk(r, sc, cg, o) /\ Claiming(sc, st, o)
    BY <1>1
  <2>1. sc1[o].phase = sc[o].phase /\ sc1[o].cancelled = sc[o].cancelled /\ sc1[o].owed = sc[o].owed
        /\ sc1[o].held = sc[o].held
    BY <1>3
  <2>2. ScopeOk(x, sc1, cg, o)
    BY <1>9, <2>0, <2>1 DEF ScopeOk
  <2>3. \A q \in Steps : st[q].pc = "queued" => st1[q].pc = "queued"
    BY <1>4
  <2>4. Claiming(sc1, st1, o)
    <3>1. CASE o = s
      BY <1>4, <3>1 DEF Claiming
    <3>2. CASE o # s
      BY <1>3, <2>0, <2>3, <3>2 DEF Claiming
    <3> QED
      BY <3>1, <3>2
  <2> QED
    BY <2>2, <2>4
<1>18. ASSUME NEW o \in Jobs PROVE Placed(x, sc1, cg, o)
  <2>1. Placed(r, sc, cg, o) /\ o \in Scopes /\ (HasPlace(r, o) => HasPlace(x, o))
    BY <1>1, <1>8, Constants
  <2>2. sc1[o].phase = sc[o].phase
    BY <1>3, <2>1
  <2> QED
    BY <1>6, <1>9, <2>1, <2>2 DEF Placed
<1>19. Capped(x, st1)
  <2>1. NoCheck(st1) => NoCheck(st)
    <3> SUFFICES ASSUME NoCheck(st1), NEW q \in scene.cast, Rides(ScopeOf[q])
                 PROVE  st[q].pc = "new" /\ st[q].tries = 0
      BY DEF NoCheck
    <3>1. q \in Steps /\ q # p
      BY <1>2 DEF SceneOk, SceneType
    <3>2. st1[q] = st[q]
      BY <1>4, <3>1
    <3> QED
      BY <3>2 DEF NoCheck
  <2> QED
    BY <1>1, <1>8, <2>1 DEF Capped
<1>20. Up(x, cl) /\ Billed(x, cl)
  BY <1>9, <1>10, SteadyFacts
<1> QED
  BY <1>13, <1>15, <1>16, <1>17, <1>18, <1>19, <1>20 DEF Good

-----------------------------------------------------------------------------
\* A step leaves the line, with a machine or without.
LEMMA LineTo ==
    ASSUME NEW r, NEW sc, NEW st, NEW cl, NEW cg, NEW rc, Good(r, sc, st, cl, cg, rc), SceneOk,
           NEW p \in Steps, st[p].pc = "queued", NEW x, Unlined(r, x, p),
           NEW m \in ScopeType, NEW sc1, ScopeIs(sc, sc1, ScopeOf[p], m),
           m.phase = sc[ScopeOf[p]].phase, m.cancelled = sc[ScopeOf[p]].cancelled,
           ~m.claiming, m.owed = sc[ScopeOf[p]].owed,
           m.held[TagOf[p]] = r.got[p],
           \A u \in Tags \ {TagOf[p]} : m.held[u] = sc[ScopeOf[p]].held[u],
           NEW n \in StepType, NEW st1, Became(st, st1, p, n),
           n.pc = "done" \/ (n.pc = "claimed" /\ n.at = r.got[p] /\ r.got[p] # None)
    PROVE  Good(x, sc1, st1, cl, cg, rc)
<1> DEFINE s == ScopeOf[p]
<1>1. /\ Shape(sc, st, cl, cg, rc) /\ Sound(r, sc, cg)
      /\ \A q \in Steps : StepOk(r, sc, cl, cg, q, st[q])
      /\ OneAcquirer(st)
      /\ \A o \in Scopes : ScopeOk(r, sc, cg, o)
      /\ \A o \in Scopes : Claiming(sc, st, o)
      /\ \A o \in Jobs : Placed(r, sc, cg, o)
      /\ Capped(r, st) /\ Up(r, cl) /\ Billed(r, cl)
  BY DEF Good
<1>2. /\ sc \in [Scopes -> ScopeType] /\ st \in [Steps -> StepType] /\ Core(r, Held(sc)) /\ Settled(r)
      /\ r \in Registry /\ s \in Scopes /\ TagOf[p] \in Tags
      /\ \A q \in Steps : ScopeOf[q] \in Scopes
  BY <1>1, Constants DEF Shape, Sound, Core, Typed
<1>3. sc1 \in [Scopes -> ScopeType] /\ sc1[s] = m /\ \A o \in Scopes \ {s} : sc1[o] = sc[o]
  BY <1>2, ScopeIsTyped
<1>4. st1 \in [Steps -> StepType] /\ st1[p] = n /\ \A q \in Steps \ {p} : st1[q] = st[q]
  BY <1>2, StepIsTyped
<1>5. StepOk(r, sc, cl, cg, p, st[p])
  BY <1>1
<1>6. sc[s].phase = "open" /\ p \in scene.cast /\ InLine(r, p) /\ sc[s].held[TagOf[p]] = None
  BY <1>5 DEF StepOk
<1>7. s \in Jobs /\ ~Rides(s) /\ \A q \in Steps \ {p} : InLine(r, q) => ScopeOf[q] # s
  <2>1. Queue(r)
    BY <1>2 DEF Core
  <2> QED
    BY <1>6, <2>1, Constants DEF Queue
<1>8. r.got[p] \in Entries \cup {None} /\ None \notin Entries
  BY <1>2, Parts, Constants
<1>9. /\ Held(sc1) = Gained(r, Held(sc), p)
      /\ \A o \in Scopes : \A f \in Entries : Held(sc)[o][f] > 0 => Held(sc1)[o][f] > 0
      /\ r.got[p] # None => Held(sc1)[s][r.got[p]] > 0
      /\ r.got[p] = None => Held(sc1) = Held(sc)
      /\ \A o \in Scopes \ {s} : \A f \in Entries : Held(sc1)[o][f] = Held(sc)[o][f]
  <2>1. CASE r.got[p] = None
    <3>1. \A t \in Tags : m.held[t] = sc[s].held[t]
      BY <1>6, <2>1
    <3>2. \A f \in Entries : HeldIn(m.held, f) = HeldIn(sc[s].held, f)
      BY <3>1 DEF HeldIn
    <3>3. \A o \in Scopes : \A f \in Entries : Held(sc1)[o][f] = Held(sc)[o][f]
      <4> SUFFICES ASSUME NEW o \in Scopes, NEW f \in Entries PROVE Held(sc1)[o][f] = Held(sc)[o][f]
        OBVIOUS
      <4>1. CASE o = s
        BY <1>3, <3>2, <4>1 DEF Held
      <4>2. CASE o # s
        BY <1>3, <4>2, HeldOther
      <4> QED
        BY <4>1, <4>2
    <3>4. Held(sc1) = Held(sc)
      BY <1>2, <1>3, <3>3, HeldType, SameHoldings
    <3> QED
      BY <2>1, <3>4 DEF Gained
  <2>2. CASE r.got[p] # None
    <3>1. r.got[p] \in Entries
      BY <1>8, <2>2
    <3>2. /\ Held(sc1) = More(Held(sc), s, r.got[p])
          /\ \A o \in Scopes : \A f \in Entries : Held(sc)[o][f] > 0 => Held(sc1)[o][f] > 0
          /\ Held(sc1)[s][r.got[p]] > 0
          /\ \A o \in Scopes \ {s} : \A f \in Entries : Held(sc1)[o][f] = Held(sc)[o][f]
      BY <1>2, <1>6, <3>1, HeldMore
    <3> QED
      BY <2>2, <3>2 DEF Gained
  <2> QED
    BY <2>1, <2>2
<1>10. /\ Core(x, Gained(r, Held(sc), p)) /\ (Settled(r) => Settled(x)) /\ (Within(r) => Within(x))
       /\ (Quiet(r) => Quiet(x)) /\ (Idle(r) => Idle(x))
       /\ ~InLine(x, p) /\ \A q \in Steps \ {p} : (InLine(x, q) <=> InLine(r, q)) /\ x.got[q] = r.got[q]
       /\ \A o \in Scopes : HasPlace(x, o) <=> HasPlace(r, o)
  BY <1>2, UnlinedCore
<1>11. /\ x.entry = r.entry /\ x.live = r.live /\ x.reserved = r.reserved /\ x.closed = r.closed
       /\ x \in Registry
  BY DEF Unlined
<1>12. Steady(r, x) /\ StillDead(r, x)
  BY <1>11 DEF Steady, StillDead, Kept
<1>13. Shape(sc1, st1, cl, cg, rc)
  BY <1>1, <1>3, <1>4 DEF Shape
<1>23. Sound(x, sc1, cg)
  <2>1. Core(x, Held(sc1))
    BY <1>9, <1>10
  <2> QED
    BY <1>1, <1>10, <1>11, <2>1 DEF Sound
<1>15. ASSUME NEW q \in Steps PROVE StepOk(x, sc1, cl, cg, q, st1[q])
  <2>1. CASE q = p
    <3>1. ~InLine(x, p) /\ sc1[s].phase = "open"
      BY <1>3, <1>6, <1>10
    <3>2. n.pc = "claimed" => n.at \in Entries /\ Held(sc1)[s][n.at] > 0
      BY <1>8, <1>9
    <3> QED
      BY <1>4, <1>6, <2>1, <3>1, <3>2 DEF StepOk, On
  <2>2. CASE q # p
    <3>1. st1[q] = st[q] /\ (InLine(x, q) <=> InLine(r, q)) /\ ScopeOf[q] \in Scopes
      BY <1>2, <1>4, <1>10, <2>2
    <3>2. /\ sc1[ScopeOf[q]].phase = sc[ScopeOf[q]].phase
          /\ \A f \in Entries : Held(sc)[ScopeOf[q]][f] > 0 => Held(sc1)[ScopeOf[q]][f] > 0
      BY <1>3, <1>9, <3>1
    <3>3. st[q].pc = "queued" => sc1[ScopeOf[q]].claiming /\ sc1[ScopeOf[q]].held[TagOf[q]] = None
      <4>1. st[q].pc = "queued" => sc[ScopeOf[q]].claiming /\ sc[ScopeOf[q]].held[TagOf[q]] = None
                                   /\ InLine(r, q)
        BY <1>1 DEF StepOk
      <4>2. st[q].pc = "queued" => ScopeOf[q] # s
        BY <1>7, <2>2, <4>1
      <4> QED
        BY <1>3, <3>1, <4>1, <4>2
    <3>4. StepOk(x, sc1, cl, cg, q, st[q])
      BY <1>11, <1>12, <3>1, <3>2, <3>3, StepFrame
    <3> QED
      BY <3>1, <3>4
  <2> QED
    BY <2>1, <2>2
<1>16. OneAcquirer(st1)
  <2>1. \A q \in Steps : st1[q].pc = "acquiring" => q # p /\ st1[q] = st[q]
    BY <1>4
  <2> QED
    BY <1>1, <2>1 DEF OneAcquirer
<1>17. ASSUME NEW o \in Scopes PROVE ScopeOk(x, sc1, cg, o) /\ Claiming(sc1, st1, o)
  <2>0. ScopeOk(r, sc, cg, o) /\ Claiming(sc, st, o)
    BY <1>1
  <2>1. CASE o = s
    BY <1>3, <1>6, <1>11, <2>0, <2>1 DEF ScopeOk, Claiming
  <2>2. CASE o # s
    <3>1. sc1[o] = sc[o]
      BY <1>3, <2>2
    <3>2. \A q \in Steps : ScopeOf[q] = o => st1[q] = st[q]
      BY <1>4, <2>2
    <3>3. ScopeOk(x, sc1, cg, o)
      BY <1>11, <2>0, <3>1 DEF ScopeOk
    <3>4. Claiming(sc1, st1, o)
      BY <2>0, <3>1, <3>2 DEF Claiming
    <3> QED
      BY <3>3, <3>4
  <2> QED
    BY <2>1, <2>2
<1>18. ASSUME NEW o \in Jobs PROVE Placed(x, sc1, cg, o)
  <2>1. Placed(r, sc, cg, o) /\ o \in Scopes /\ (HasPlace(r, o) => HasPlace(x, o))
    BY <1>1, <1>10, Constants
  <2>2. sc1[o].phase = sc[o].phase
    BY <1>3, <2>1
  <2>3. x.got[p] = None
    BY <1>10 DEF InLine
  <2>4. (\E q \in Steps : ScopeOf[q] = o /\ x.got[q] # None) => \E q \in Steps : ScopeOf[q] = o /\ r.got[q] # None
    BY <1>10, <2>3
  <2>5. (\E e \in Entries : Held(sc1)[o][e] > 0) =>
           (\E e \in Entries : Held(sc)[o][e] > 0) \/ \E q \in Steps : ScopeOf[q] = o /\ r.got[q] # None
    <3>1. CASE o = s /\ r.got[p] # None
      BY <3>1
    <3>2. CASE o = s /\ r.got[p] = None
      BY <1>9, <3>2
    <3>3. CASE o # s
      BY <1>9, <2>1, <3>3
    <3> QED
      BY <3>1, <3>2, <3>3
  <2> QED
    BY <2>1, <2>2, <2>4, <2>5 DEF Placed
<1>19. Capped(x, st1)
  <2>1. NoCheck(st1) => NoCheck(st)
    <3> SUFFICES ASSUME NoCheck(st1), NEW q \in scene.cast, Rides(ScopeOf[q])
                 PROVE  st[q].pc = "new" /\ st[q].tries = 0
      BY DEF NoCheck
    <3>1. q \in Steps /\ q # p
      BY <1>7 DEF SceneOk, SceneType
    <3>2. st1[q] = st[q]
      BY <1>4, <3>1
    <3> QED
      BY <3>2 DEF NoCheck
  <2> QED
    BY <1>1, <1>10, <2>1 DEF Capped
<1>20. Up(x, cl) /\ Billed(x, cl)
  BY <1>11, <1>12, SteadyFacts
<1> QED
  BY <1>13, <1>15, <1>16, <1>17, <1>18, <1>19, <1>20, <1>23 DEF Good

-----------------------------------------------------------------------------
(* A scope ends.                                                           *)

\* A scope that ended lets go of a machine, once.
LEMMA DropTo ==
    ASSUME NEW r, NEW sc, NEW st, NEW cl, NEW cg, NEW rc, Good(r, sc, st, cl, cg, rc), SceneOk, Stocked(r),
           NEW s \in Scopes, sc[s].phase = "releasing", NEW e \in Entries, sc[s].owed[e] > 0,
           NEW m \in ScopeType, NEW sc1, ScopeIs(sc, sc1, s, m),
           m.phase = sc[s].phase, m.cancelled = sc[s].cancelled, m.claiming = sc[s].claiming,
           m.held = sc[s].held, m.owed[e] = sc[s].owed[e] - 1,
           \A f \in Entries \ {e} : m.owed[f] = sc[s].owed[f]
    PROVE  Good(DropRef(r, e, s), sc1, st, cl, cg, rc)
<1> DEFINE x == DropRef(r, e, s)
<1>1. /\ Shape(sc, st, cl, cg, rc) /\ Sound(r, sc, cg)
      /\ \A q \in Steps : StepOk(r, sc, cl, cg, q, st[q])
      /\ OneAcquirer(st)
      /\ \A o \in Scopes : ScopeOk(r, sc, cg, o)
      /\ \A o \in Scopes : Claiming(sc, st, o)
      /\ \A o \in Jobs : Placed(r, sc, cg, o)
      /\ Capped(r, st)
  BY DEF Good
<1>2. /\ sc \in [Scopes -> ScopeType] /\ Core(r, Held(sc)) /\ r \in Registry
      /\ \A q \in Steps : ScopeOf[q] \in Scopes
  BY <1>1, Constants DEF Shape, Sound, Core, Typed
<1>3. sc1 \in [Scopes -> ScopeType] /\ sc1[s] = m /\ \A o \in Scopes \ {s} : sc1[o] = sc[o]
  BY <1>2, ScopeIsTyped
<1>4. Held(sc)[s][e] > 0
  BY <1>2, HeldType
<1>5. /\ Core(x, Less(Held(sc), s, e)) /\ Moves(r, x, e) /\ PlacesKept(r, x, Scopes \ {s})
      /\ Settled(r) => Settled(x)
      /\ scene.max > 0 /\ Within(r) => Within(x)
      /\ x.reserved = r.reserved
      /\ e \in r.live => Kept(x, e)
  BY <1>2, <1>4, DropRefIs
<1> HIDE DEF x
<1>6. x \in Registry
  BY <1>5 DEF Core, Typed
<1>7. \A o \in Scopes \ {s} : \A f \in Entries : Held(sc1)[o][f] = Held(sc)[o][f]
  BY <1>3, HeldOther
<1>8. \A f \in Entries : Held(sc1)[s][f] = IF f = e THEN Held(sc)[s][f] - 1 ELSE Held(sc)[s][f]
  <2> SUFFICES ASSUME NEW f \in Entries
               PROVE  Held(sc1)[s][f] = IF f = e THEN Held(sc)[s][f] - 1 ELSE Held(sc)[s][f]
    OBVIOUS
  <2>1. /\ Held(sc)[s][f] = Cardinality(HeldIn(sc[s].held, f)) + sc[s].owed[f]
        /\ Cardinality(HeldIn(sc[s].held, f)) \in Nat /\ sc[s].owed[f] \in Nat
    BY <1>2, HeldType
  <2>2. Held(sc1)[s][f] = Cardinality(HeldIn(sc[s].held, f)) + m.owed[f]
    BY <1>3 DEF Held
  <2>3. m.owed[f] = IF f = e THEN sc[s].owed[f] - 1 ELSE sc[s].owed[f]
    OBVIOUS
  <2> QED
    BY <2>1, <2>2, <2>3
<1>9. Held(sc1) = Less(Held(sc), s, e)
  <2>1. Held(sc) \in HoldingType /\ Held(sc1) \in HoldingType
    BY <1>2, <1>3, HeldType
  <2>2. /\ Less(Held(sc), s, e) \in HoldingType
        /\ \A o \in Scopes : \A f \in Entries :
              Less(Held(sc), s, e)[o][f] = IF o = s /\ f = e THEN Held(sc)[o][f] - 1 ELSE Held(sc)[o][f]
    BY <1>4, <2>1, LessHeld
  <2>3. Less(Held(sc), s, e) \in HoldingType
    BY <2>2
  <2>4. \A o \in Scopes : \A f \in Entries : Held(sc1)[o][f] = Less(Held(sc), s, e)[o][f]
    <3> SUFFICES ASSUME NEW o \in Scopes, NEW f \in Entries
                 PROVE  Held(sc1)[o][f] = Less(Held(sc), s, e)[o][f]
      OBVIOUS
    <3>1. Less(Held(sc), s, e)[o][f] = IF o = s /\ f = e THEN Held(sc)[o][f] - 1 ELSE Held(sc)[o][f]
      BY <2>2
    <3>2. CASE o = s
      BY <1>8, <3>1, <3>2
    <3>3. CASE o # s
      BY <1>7, <3>1, <3>3
    <3> QED
      BY <3>2, <3>3
  <2> QED
    BY <2>1, <2>3, <2>4, SameHoldings
<1>10. Calm(r, x, Scopes \ {s}) /\ Steady(r, x)
  BY <1>2, <1>5, <1>6, MovesCalm
<1>11. /\ \A q \in Steps : InLine(x, q) <=> InLine(r, q)
       /\ \A q \in Steps : x.got[q] # None => r.got[q] # None \/ HasPlace(x, ScopeOf[q])
       /\ PlacesKept(r, x, Scopes \ {s}) /\ StillDead(r, x)
  BY <1>10 DEF Calm, StillDead
<1>12. x.closed = r.closed /\ (Quiet(r) => Quiet(x)) /\ (Idle(r) => Idle(x))
  BY <1>5 DEF Moves
<1>13. Shape(sc1, st, cl, cg, rc)
  BY <1>1, <1>3 DEF Shape
<1>14. Sound(x, sc1, cg)
  <2>1. Core(x, Held(sc1))
    BY <1>5, <1>9
  <2> QED
    BY <1>1, <1>5, <1>12, <2>1 DEF Sound
<1>15. ASSUME NEW q \in Steps PROVE StepOk(x, sc1, cl, cg, q, st[q])
  <2>1. StepOk(r, sc, cl, cg, q, st[q]) /\ ScopeOf[q] \in Scopes /\ (InLine(x, q) <=> InLine(r, q))
    BY <1>1, <1>2, <1>11
  <2>2. ScopeOf[q] = s => st[q].pc = "done"
    BY <2>1 DEF StepOk
  <2>3. st[q].pc = "done" \/ (/\ sc1[ScopeOf[q]].phase = sc[ScopeOf[q]].phase
                              /\ \A f \in Entries : Held(sc)[ScopeOf[q]][f] > 0 => Held(sc1)[ScopeOf[q]][f] > 0)
    BY <1>3, <1>7, <2>1, <2>2
  <2>4. st[q].pc = "queued" => sc1[ScopeOf[q]].claiming /\ sc1[ScopeOf[q]].held[TagOf[q]] = None
    BY <1>3, <2>1, <2>2 DEF StepOk
  <2> QED
    BY <1>6, <1>10, <1>11, <2>1, <2>3, <2>4, StepFrame
<1>16. ASSUME NEW o \in Scopes PROVE ScopeOk(x, sc1, cg, o) /\ Claiming(sc1, st, o)
  <2>0. ScopeOk(r, sc, cg, o) /\ Claiming(sc, st, o)
    BY <1>1
  <2>1. CASE o = s
    BY <1>3, <2>0, <2>1 DEF ScopeOk, Claiming
  <2>2. CASE o # s
    <3>1. sc1[o] = sc[o]
      BY <1>3, <2>2
    <3>2. \A f \in Entries : sc[o].owed[f] > 0 /\ r.entry[f].retired => x.entry[f].retired
      <4> SUFFICES ASSUME NEW f \in Entries, sc[o].owed[f] > 0, r.entry[f].retired PROVE x.entry[f].retired
        OBVIOUS
      <4>1. Held(sc)[o][f] > 0
        BY <1>2, HeldType
      <4>2. r.entry[f].refs > 0
        BY <1>2, <4>1, HeldIs
      <4> QED
        BY <1>11, <4>2 DEF StillDead
    <3>3. ScopeOk(x, sc1, cg, o)
      BY <1>5, <2>0, <3>1, <3>2 DEF ScopeOk
    <3> QED
      BY <2>0, <3>1, <3>3 DEF Claiming
  <2> QED
    BY <2>1, <2>2
<1>17. ASSUME NEW o \in Jobs PROVE Placed(x, sc1, cg, o)
  <2>1. Placed(r, sc, cg, o) /\ o \in Scopes
    BY <1>1, Constants
  <2>2. CASE o = s
    BY <1>3, <2>2 DEF Placed
  <2>3. CASE o # s
    <3>1. sc1[o] = sc[o] /\ (HasPlace(r, o) => HasPlace(x, o))
      BY <1>3, <1>11, <2>1, <2>3 DEF PlacesKept
    <3>2. \A f \in Entries : Held(sc1)[o][f] = Held(sc)[o][f]
      BY <1>7, <2>1, <2>3
    <3>3. (\E q \in Steps : ScopeOf[q] = o /\ x.got[q] # None) =>
             (\E q \in Steps : ScopeOf[q] = o /\ r.got[q] # None) \/ HasPlace(x, o)
      BY <1>11
    <3> QED
      BY <2>1, <3>1, <3>2, <3>3 DEF Placed
  <2> QED
    BY <2>2, <2>3
<1>18. Capped(x, st)
  BY <1>1, <1>5 DEF Capped
<1>19. Up(x, cl) /\ Billed(x, cl)
  BY <1>6, <1>10, SteadyFacts
<1> QED
  BY <1>1, <1>13, <1>14, <1>15, <1>16, <1>17, <1>18, <1>19 DEF Good, x

-----------------------------------------------------------------------------
\* A scope's steps are over: it owes what it holds.
LEMMA EndTo ==
    ASSUME NEW r, NEW sc, NEW st, NEW cl, NEW cg, NEW rc, Good(r, sc, st, cl, cg, rc),
           NEW s \in Scopes, sc[s].phase = "open", \A p \in Steps : ScopeOf[p] = s => st[p].pc = "done",
           NEW m \in ScopeType, NEW sc1, ScopeIs(sc, sc1, s, m),
           m.phase = "releasing", m.cancelled = sc[s].cancelled, m.claiming = sc[s].claiming,
           \A t \in Tags : m.held[t] = None,
           \A e \in Entries : m.owed[e] = sc[s].owed[e] + Cardinality(HeldIn(sc[s].held, e))
    PROVE  Good(r, sc1, st, cl, cg, rc)
<1>1. sc \in [Scopes -> ScopeType] /\ ScopeOk(r, sc, cg, s) /\ None \notin Entries
  BY Constants DEF Good, Shape
<1>2. sc1 \in [Scopes -> ScopeType] /\ sc1[s] = m /\ \A o \in Scopes \ {s} : sc1[o] = sc[o]
  BY <1>1, ScopeIsTyped
<1>3. ASSUME NEW e \in Entries PROVE Held(sc1)[s][e] = Held(sc)[s][e]
  <2>1. /\ Held(sc)[s][e] = Cardinality(HeldIn(sc[s].held, e)) + sc[s].owed[e]
        /\ Held(sc1)[s][e] = Cardinality(HeldIn(m.held, e)) + m.owed[e]
        /\ Cardinality(HeldIn(sc[s].held, e)) \in Nat /\ sc[s].owed[e] \in Nat
    BY <1>1, <1>2, HeldType
  <2>2. HeldIn(m.held, e) = {}
    BY <1>1 DEF HeldIn
  <2>3. Cardinality(HeldIn(m.held, e)) = 0
    BY <2>2, FS_EmptySet
  <2> QED
    BY <2>1, <2>3
<1>4. ScopeOk(r, sc1, cg, s)
  BY <1>1, <1>2 DEF ScopeOk
<1> QED
  BY <1>3, <1>4, ScopeTo

\* And it is over.
LEMMA CloseTo ==
    ASSUME NEW r, NEW sc, NEW st, NEW cl, NEW cg, NEW rc, Good(r, sc, st, cl, cg, rc),
           NEW s \in Scopes, sc[s].phase = "releasing", \A e \in Entries : sc[s].owed[e] = 0, r.reserved[s] = 0,
           NEW m \in ScopeType, NEW sc1, ScopeIs(sc, sc1, s, m),
           m.phase = "closed", m.cancelled = sc[s].cancelled, m.claiming = sc[s].claiming,
           m.held = sc[s].held, m.owed = sc[s].owed
    PROVE  Good(r, sc1, st, cl, cg, rc)
<1>1. /\ sc \in [Scopes -> ScopeType] /\ ScopeOk(r, sc, cg, s)
      /\ \A q \in Steps : StepOk(r, sc, cl, cg, q, st[q])
  BY DEF Good, Shape
<1>2. sc1 \in [Scopes -> ScopeType] /\ sc1[s] = m /\ \A o \in Scopes \ {s} : sc1[o] = sc[o]
  BY <1>1, ScopeIsTyped
<1>3. \A e \in Entries : Held(sc1)[s][e] = Held(sc)[s][e]
  BY <1>2 DEF Held
<1>4. ScopeOk(r, sc1, cg, s)
  BY <1>1, <1>2 DEF ScopeOk
<1>5. \A p \in Steps : ScopeOf[p] = s => st[p].pc = "done"
  BY <1>1 DEF StepOk
<1> QED
  BY <1>3, <1>4, <1>5, ScopeTo

\* unreserve, when there is a place to give up.
LEMMA UnreserveTo ==
    ASSUME NEW r, NEW sc, NEW st, NEW cl, NEW cg, NEW rc, Good(r, sc, st, cl, cg, rc), SceneOk, Stocked(r),
           NEW s \in Scopes, sc[s].phase = "releasing", r.reserved[s] # 0,
           NEW y, ReservedSet(r, y, s, 0)
    PROVE  Good(Serve(y), sc, st, cl, cg, rc) /\ Serve(y).reserved[s] = 0
<1>1. Core(r, Held(sc)) /\ Sound(r, sc, cg)
  BY DEF Good, Sound
<1>0. PICK H : H = Held(sc)
  OBVIOUS
<1>a. Core(r, H)
  BY <1>0, <1>1
<1>2. r \in Registry /\ Pool(r)
  BY <1>1 DEF Core, Typed
<1>3. scene.exclusive
  BY <1>2 DEF Pool
<1>4. Unkept(r, y, s)
  BY <1>2, UnkeptIs
<1> DEFINE x == Serve(y)
<1>b. Unreserved(r, x, H, s)
  BY <1>a, <1>3, <1>4, UnreserveIs
<1>5. /\ Core(x, H) /\ Settled(x) /\ PlacesKept(r, x, Scopes \ {s})
      /\ scene.max > 0 /\ Within(r) => Within(x)
      /\ (Quiet(r) => Quiet(x)) /\ (Idle(r) => Idle(x)) /\ Onward(r, x)
      /\ x.closed = r.closed /\ Waiting(x) \subseteq Waiting(r)
      /\ \A p \in Steps : IF p \in Waiting(r) /\ p \notin Waiting(x)
                          THEN x.got[p] # None /\ HasPlace(x, ScopeOf[p])
                          ELSE x.got[p] = r.got[p]
      /\ x.reserved[s] = 0 /\ \A o \in Scopes \ {s} : x.reserved[o] = r.reserved[o]
  BY <1>b DEF Unreserved
<1> HIDE DEF x
<1>6. x \in Registry
  BY <1>5 DEF Core, Typed
<1>7. ASSUME NEW f \in Entries
      PROVE  /\ r.entry[f].refs > 0 /\ f \in r.live /\ r.entry[f].lease = "acquiring" =>
                   f \in x.live /\ x.entry[f].lease = "acquiring"
             /\ f \in x.live /\ x.entry[f].lease = "acquired" =>
                   f \in r.live /\ r.entry[f].lease = "acquired"
             /\ f \in r.live /\ r.entry[f].owes /\ Kept(r, f) =>
                   f \in x.live /\ x.entry[f].owes /\ Kept(x, f)
             /\ r.entry[f].refs > 0 /\ r.entry[f].retired => x.entry[f].retired
  <2>1. IF f \in Unused(r) THEN f \in x.live => x.entry[f].lease = "none" ELSE GoesOn(r, x, f)
    BY <1>5 DEF Onward
  <2> QED
    BY <1>2, <1>6, <2>1, OneSteady
<1>8. ASSUME NEW p \in Steps
      PROVE  /\ InLine(x, p) <=> InLine(r, p)
             /\ x.got[p] # None => r.got[p] # None \/ HasPlace(x, ScopeOf[p])
  BY <1>5 DEF InLine
<1>9. Calm(r, x, Scopes \ {s}) /\ Steady(r, x)
  BY <1>5, <1>7, <1>8 DEF Calm, Steady
<1>10. Sound(x, sc, cg)
  BY <1>0, <1>1, <1>5 DEF Sound
<1>11. \A o \in Scopes : x.reserved[o] > 0 => r.reserved[o] > 0 \/ sc[o].phase # "closed"
  BY <1>5
<1>12. \A o \in Jobs : sc[o].phase = "open" => o \in Scopes \ {s}
  BY Constants
<1>13. Good(x, sc, st, cl, cg, rc)
  BY <1>5, <1>9, <1>10, <1>11, <1>12, RegSteady
<1> QED
  BY <1>5, <1>13 DEF x

-----------------------------------------------------------------------------
(* A step goes on.                                                         *)

\* Where a step may be.
Places == {"new", "landing", "sibling", "queued", "claimed", "acquiring", "using", "hit", "leaving", "done"}

\* A step goes to another place.
WentTo(st, st1, p, pc) == st1 = [st EXCEPT ![p].pc = pc]
\* A step goes to another place and another machine.
MovedTo(st, st1, p, pc, at) == st1 = [st EXCEPT ![p].pc = pc, ![p].at = at]

\* A step goes to another place, and to another machine or none.
LEMMA StepMoved ==
    ASSUME NEW st \in [Steps -> StepType], NEW p \in Steps, NEW st1, NEW pc \in Places, NEW at \in Entries \cup {None},
           MovedTo(st, st1, p, pc, at)
    PROVE  \E n \in StepType : Became(st, st1, p, n) /\ n.pc = pc /\ n.at = at /\ n.tries = st[p].tries
<1>1. st[p] \in StepType
  OBVIOUS
<1> DEFINE n == [st[p] EXCEPT !.pc = pc, !.at = at]
<1>2. n \in StepType /\ n.pc = pc /\ n.at = at /\ n.tries = st[p].tries
  BY <1>1 DEF StepType, Places
<1>3. Became(st, st1, p, n)
  BY DEF MovedTo, Became
<1> QED
  BY <1>2, <1>3

\* A step goes to another place, on the machine it is on.
LEMMA StepWent ==
    ASSUME NEW st \in [Steps -> StepType], NEW p \in Steps, NEW st1, NEW pc \in Places,
           WentTo(st, st1, p, pc)
    PROVE  \E n \in StepType : Became(st, st1, p, n) /\ n.pc = pc /\ n.at = st[p].at /\ n.tries = st[p].tries
<1>1. st[p] \in StepType
  OBVIOUS
<1> DEFINE n == [st[p] EXCEPT !.pc = pc]
<1>2. n \in StepType /\ n.pc = pc /\ n.at = st[p].at /\ n.tries = st[p].tries
  BY <1>1 DEF StepType, Places
<1>3. Became(st, st1, p, n)
  BY DEF WentTo, Became
<1> QED
  BY <1>2, <1>3

\* A step that is in no line may be done.
LEMMA ToDone ==
    ASSUME NEW r, NEW sc, NEW st, NEW cl, NEW cg, NEW rc, Good(r, sc, st, cl, cg, rc), SceneOk,
           NEW p \in Steps, st[p].pc # "queued",
           NEW n \in StepType, NEW st1, Became(st, st1, p, n), n.pc = "done"
    PROVE  Good(r, sc, st1, cl, cg, rc)
<1>1. StepOk(r, sc, cl, cg, p, st[p])
  BY DEF Good
<1>2. StepOk(r, sc, cl, cg, p, n)
  BY <1>1 DEF StepOk, On
<1>3. scene.cast \subseteq Steps
  BY DEF SceneOk, SceneType
<1> QED
  BY <1>2, <1>3, StepTo

\* A step that waited for a park or for a sibling looks again.
LEMMA ToNew ==
    ASSUME NEW r, NEW sc, NEW st, NEW cl, NEW cg, NEW rc, Good(r, sc, st, cl, cg, rc), SceneOk,
           NEW p \in Steps, st[p].pc \in {"landing", "sibling"},
           NEW n \in StepType, NEW st1, Became(st, st1, p, n), n.pc = "new", n.tries = st[p].tries
    PROVE  Good(r, sc, st1, cl, cg, rc)
<1>1. StepOk(r, sc, cl, cg, p, st[p])
  BY DEF Good
<1>2. StepOk(r, sc, cl, cg, p, n)
  BY <1>1 DEF StepOk, On
<1>3. scene.cast \subseteq Steps
  BY DEF SceneOk, SceneType
<1>4. ~(scene.exclusive /\ Rides(ScopeOf[p]))
  BY <1>1, Constants DEF StepOk
<1> QED
  BY <1>2, <1>3, <1>4, StepTo

\* A step finds the machine acquired.
LEMMA ToUsing ==
    ASSUME NEW r, NEW sc, NEW st, NEW cl, NEW cg, NEW rc, Good(r, sc, st, cl, cg, rc), SceneOk,
           NEW p \in Steps, st[p].pc \in {"claimed", "acquiring"}, r.entry[st[p].at].lease = "acquired",
           NEW n \in StepType, NEW st1, Became(st, st1, p, n), n.pc \in {"using", "hit"},
           n.at = st[p].at, n.tries = st[p].tries
    PROVE  Good(r, sc, st1, cl, cg, rc)
<1>1. StepOk(r, sc, cl, cg, p, st[p]) /\ Up(r, cl)
  BY DEF Good
<1>2. ~Over(cg) => st[p].at \in r.live
  BY OnHeld DEF On
<1>3. ~Over(cg) => cl[Machine(n.at)] # "off"
  BY <1>1, <1>2 DEF Up
<1>4. StepOk(r, sc, cl, cg, p, n)
  BY <1>1, <1>3 DEF StepOk, On
<1>5. scene.cast \subseteq Steps
  BY DEF SceneOk, SceneType
<1> QED
  BY <1>4, <1>5, StepTo

-----------------------------------------------------------------------------
\* One entry's machine is acquired, lost or given up: everybody else's stays.
LEMMA EditTo ==
    ASSUME NEW r, NEW sc, NEW st, NEW cl, NEW cg, NEW rc, Good(r, sc, st, cl, cg, rc), SceneOk,
           NEW e \in Entries, NEW x, Touched(r, x, e), NEW cl1 \in Cloud,
           x.entry[e].timer # "none" => r.entry[e].timer # "none",
           x.entry[e].lease # "failed" => r.entry[e].lease # "failed",
           \A q \in Steps : st[q].pc = "acquiring" /\ st[q].at = e => x.entry[e].lease = "acquiring",
           \A q \in Steps : ~Over(cg) /\ st[q].pc \in {"using", "hit"} => cl1[Machine(st[q].at)] # "off",
           Up(x, cl1), Billed(x, cl1)
    PROVE  Good(x, sc, st, cl1, cg, rc)
<1>1. Sound(r, sc, cg) /\ \A q \in Steps : StepOk(r, sc, cl, cg, q, st[q])
  BY DEF Good
<1>2. PICK H : H = Held(sc)
  OBVIOUS
<1>3. Core(r, H) /\ Idle(r) /\ (~Over(cg) => Quiet(r)) /\ Settled(r) /\ (r.closed <=> cg # "no")
  BY <1>1, <1>2 DEF Sound
<1>4. EntryOk(r, H, e) /\ Ticks(r, e)
  BY <1>3 DEF Core, Idle
<1>5. x.entry[e].timer # "none" => x.entry[e].refs = 0
  BY <1>4 DEF EntryOk, Alive, Touched
<1>6. /\ Core(x, H) /\ PlacesKept(r, x, Scopes)
      /\ scene.max > 0 /\ Within(r) => Within(x)
      /\ Settled(x)
      /\ Quiet(r) => Quiet(x)
      /\ Idle(r) /\ Ticks(x, e) => Idle(x)
  BY <1>3, <1>5, TouchedCore
<1>7. Ticks(x, e)
  BY <1>4 DEF Ticks, Touched, Members
<1>8. x.closed = r.closed /\ x.reserved = r.reserved /\ x.got = r.got /\ x.waiters = r.waiters /\ x.live = r.live
  BY DEF Touched
<1>9. Sound(x, sc, cg)
  BY <1>2, <1>3, <1>6, <1>7, <1>8 DEF Sound
<1>10. \A f \in Entries : x.entry[f].retired = r.entry[f].retired
  BY DEF Touched
<1>11. Calm(r, x, Scopes)
  BY <1>6, <1>8, <1>10 DEF Calm, InLine, Waiting
<1>12. ASSUME NEW q \in Steps, st[q].pc = "acquiring"
       PROVE  x.entry[st[q].at].lease = "acquiring" /\ st[q].at \in x.live
  <2>1. r.entry[st[q].at].lease = "acquiring" /\ st[q].at \in r.live /\ st[q].at \in Entries
    BY <1>1, <1>12 DEF StepOk, On
  <2>2. st[q].at # e => x.entry[st[q].at] = r.entry[st[q].at]
    BY <2>1 DEF Touched
  <2> QED
    BY <1>8, <1>12, <2>1, <2>2
<1>13. \A s \in Jobs : s \in Scopes
  BY Constants
<1> QED
  BY <1>6, <1>8, <1>9, <1>11, <1>12, <1>13, RegTo

\* One entry's machine is in another state.
LeaseIs(r, x, e, l) == x = [r EXCEPT !.entry[e].lease = l]

\* An entry's machine is in another state.
LEMMA LeaseTouched ==
    ASSUME NEW r \in Registry, NEW e \in Entries, NEW x, NEW l \in {"none", "acquiring", "acquired", "failed"},
           LeaseIs(r, x, e, l)
    PROVE  /\ Touched(r, x, e) /\ x.entry[e].lease = l
           /\ x.entry[e].timer = r.entry[e].timer /\ x.entry[e].owes = r.entry[e].owes
<1> DEFINE n == [r.entry[e] EXCEPT !.lease = l]
<1>1. r.entry[e] \in EntryType
  BY Parts
<1>2. n \in EntryType
  BY <1>1 DEF EntryType
<1>3. EntryIs(r, x, e, n)
  BY DEF EntryIs, LeaseIs
<1>4. /\ n.refs = r.entry[e].refs /\ n.jobs = r.entry[e].jobs /\ n.holder = r.entry[e].holder
      /\ n.retired = r.entry[e].retired /\ n.gone = r.entry[e].gone /\ n.lease = l
      /\ n.timer = r.entry[e].timer /\ n.owes = r.entry[e].owes
  BY <1>1 DEF EntryType
<1> HIDE DEF n
<1> QED
  BY <1>2, <1>3, <1>4, TouchedIs

\* Two changes of one step are the second.
LEMMA BecameVia ==
    ASSUME NEW st \in [Steps -> StepType], NEW p \in Steps, NEW n, NEW m, NEW st0, NEW st1,
           Became(st, st0, p, n), Became(st, st1, p, m)
    PROVE  Became(st0, st1, p, m)
BY DEF Became

\* What is owed for the machines that run, when an entry's lease changes and nothing else.
LEMMA TouchedBills ==
    ASSUME NEW r, NEW x, NEW e \in Entries, Touched(r, x, e),
           r.entry[e].timer # "none" => x.entry[e].timer # "none",
           x.entry[e].owes = r.entry[e].owes, r.live \subseteq Entries, NEW cl, Billed(r, cl)
    PROVE  Billed(x, cl)
<1>1. \A f \in Entries : x.entry[f].owes = r.entry[f].owes /\ (Kept(r, f) => Kept(x, f))
  BY DEF Touched, Kept
<1>2. x.live = r.live
  BY DEF Touched
<1> QED
  BY <1>1, <1>2 DEF Billed

\* resolve: the first to come acquires.
LEMMA ResolveTo ==
    ASSUME NEW r, NEW sc, NEW st, NEW cl, NEW cg, NEW rc, Good(r, sc, st, cl, cg, rc), SceneOk,
           NEW p \in Steps, st[p].pc = "claimed", ~sc[ScopeOf[p]].cancelled,
           r.entry[st[p].at].lease \notin {"acquiring", "acquired", "failed"},
           NEW x, LeaseIs(r, x, st[p].at, "acquiring"),
           NEW n \in StepType, NEW st1, Became(st, st1, p, n), n.pc = "acquiring",
           n.at = st[p].at, n.tries = st[p].tries
    PROVE  Good(x, sc, st1, cl, cg, rc)
<1> DEFINE e == st[p].at
<1>1. /\ \A q \in Steps : StepOk(r, sc, cl, cg, q, st[q])
      /\ Up(r, cl) /\ Billed(r, cl) /\ ScopeOk(r, sc, cg, ScopeOf[p]) /\ cl \in Cloud
  BY Constants DEF Good, Shape
<1>2. r \in Registry /\ r.live \subseteq Entries
  BY Parts DEF Good, Sound, Core, Typed
<1>3. ~Over(cg)
  BY <1>1 DEF ScopeOk, Over
<1>4. e \in Entries /\ e \in r.live
  BY <1>3, OnHeld DEF On
<1>5. /\ Touched(r, x, e) /\ x.entry[e].lease = "acquiring"
      /\ x.entry[e].timer = r.entry[e].timer /\ x.entry[e].owes = r.entry[e].owes
  BY <1>2, <1>4, LeaseTouched
<1>6. \A q \in Steps : st[q].pc = "acquiring" => st[q].at # e
  BY <1>1 DEF StepOk
<1>7. x.live = r.live /\ \A f \in Entries \ {e} : x.entry[f] = r.entry[f]
  BY <1>5 DEF Touched
<1>8. Up(x, cl)
  BY <1>1, <1>2, <1>5, <1>7 DEF Up
<1>9. Billed(x, cl)
  BY <1>1, <1>2, <1>4, <1>5, TouchedBills
<1>10. \A q \in Steps : ~Over(cg) /\ st[q].pc \in {"using", "hit"} => cl[Machine(st[q].at)] # "off"
  BY <1>1 DEF StepOk
<1>11. Good(x, sc, st, cl, cg, rc)
  BY <1>1, <1>4, <1>5, <1>6, <1>8, <1>9, <1>10, EditTo
<1>12. StepOk(x, sc, cl, cg, p, st[p])
  BY <1>11 DEF Good
<1>13. StepOk(x, sc, cl, cg, p, n)
  BY <1>4, <1>5, <1>7, <1>12 DEF StepOk, On
<1>14. scene.cast \subseteq Steps
  BY DEF SceneOk, SceneType
<1> QED
  BY <1>6, <1>11, <1>13, <1>14, StepTo

\* One entry's machine is acquired, and owed or not.
AcquiredIs(r, x, e, b) == x = [r EXCEPT !.entry[e].lease = "acquired", !.entry[e].owes = @ \/ b]

\* An entry's machine is acquired.
LEMMA AcquiredTouched ==
    ASSUME NEW r \in Registry, NEW e \in Entries, NEW x, NEW b \in BOOLEAN, AcquiredIs(r, x, e, b)
    PROVE  /\ Touched(r, x, e) /\ x.entry[e].lease = "acquired"
           /\ x.entry[e].timer = r.entry[e].timer /\ x.entry[e].owes = (r.entry[e].owes \/ b)
<1> DEFINE n == [r.entry[e] EXCEPT !.lease = "acquired", !.owes = r.entry[e].owes \/ b]
<1>1. r.entry[e] \in EntryType
  BY Parts
<1>2. (r.entry[e].owes \/ b) \in BOOLEAN
  OBVIOUS
<1>3. n \in EntryType
  BY <1>1, <1>2 DEF EntryType
<1>4. EntryIs(r, x, e, n)
  BY DEF EntryIs, AcquiredIs
<1>5. /\ n.refs = r.entry[e].refs /\ n.jobs = r.entry[e].jobs /\ n.holder = r.entry[e].holder
      /\ n.retired = r.entry[e].retired /\ n.gone = r.entry[e].gone /\ n.lease = "acquired"
      /\ n.timer = r.entry[e].timer /\ n.owes = (r.entry[e].owes \/ b)
  BY <1>1 DEF EntryType
<1> HIDE DEF n
<1> QED
  BY <1>3, <1>4, <1>5, TouchedIs

\* One machine's state in the cloud replaced.
CloudIs(cl, cl1, m, v) == cl1 = [cl EXCEPT ![m] = v]

\* The machine runs, and its entry owes its give-back unless it was found running.
LEMMA AcquiredTo ==
    ASSUME NEW r, NEW sc, NEW st, NEW cl, NEW cg, NEW rc, Good(r, sc, st, cl, cg, rc), SceneOk,
           NEW p \in Steps, st[p].pc = "acquiring",
           NEW b \in BOOLEAN, b <=> cl[Machine(st[p].at)] # "running", NEW x, AcquiredIs(r, x, st[p].at, b),
           NEW cl1, CloudIs(cl, cl1, Machine(st[p].at), "running"),
           NEW n \in StepType, NEW st1, Became(st, st1, p, n), n.pc = "using",
           n.at = st[p].at, n.tries = st[p].tries
    PROVE  Good(x, sc, st1, cl1, cg, rc)
<1> DEFINE e == st[p].at
           m == Machine(e)
<1>1. /\ \A q \in Steps : StepOk(r, sc, cl, cg, q, st[q])
      /\ Up(r, cl) /\ Billed(r, cl) /\ OneAcquirer(st) /\ cl \in Cloud /\ st \in [Steps -> StepType]
  BY DEF Good, Shape
<1>2. r \in Registry /\ r.live \subseteq Entries
  BY Parts DEF Good, Sound, Core, Typed
<1>3. e \in Entries /\ r.entry[e].refs > 0
  BY OnHeld DEF On
<1>4. r.entry[e].lease = "acquiring" /\ e \in r.live
  BY <1>1 DEF StepOk
<1>5. m \in Entries
  BY <1>3, Constants DEF Machine
<1>6. /\ Touched(r, x, e) /\ x.entry[e].lease = "acquired"
      /\ x.entry[e].timer = r.entry[e].timer /\ x.entry[e].owes = (r.entry[e].owes \/ b)
  BY <1>2, <1>3, AcquiredTouched
<1>7. /\ x.live = r.live /\ \A f \in Entries \ {e} : x.entry[f] = r.entry[f]
      /\ x.entry[e].refs = r.entry[e].refs /\ x.entry[e].gone = r.entry[e].gone
  BY <1>6 DEF Touched
<1>8. cl1 \in Cloud /\ cl1[m] = "running" /\ \A k \in Entries \ {m} : cl1[k] = cl[k]
  BY <1>1, <1>5 DEF CloudIs, Cloud
<1>9. \A k \in Entries : cl[k] # "off" => cl1[k] # "off"
  BY <1>8
<1>10. \A f \in Entries : Machine(f) \in Entries
  BY Constants DEF Machine
<1>b. b <=> cl[m] # "running"
  OBVIOUS
<1> HIDE DEF m
\* Nobody else acquires the machine.
<1>10a. PICK st0 : WentTo(st, st0, p, "claimed")
  BY DEF WentTo
<1>10b. st[p] \in StepType
  BY <1>1
<1>10c. st[p].at \in Entries \cup {None}
  BY <1>3
<1>11. PICK n0 \in StepType : Became(st, st0, p, n0) /\ n0.pc = "claimed" /\ n0.at = e /\ n0.tries = st[p].tries
  BY <1>1, <1>10a, <1>10c, StepWent DEF Places
<1>12. Became(st, st0, p, n0)
  BY <1>11
<1>13. Good(r, sc, st0, cl, cg, rc)
  <2>1. StepOk(r, sc, cl, cg, p, n0)
    BY <1>1, <1>11 DEF StepOk, On
  <2>2. scene.cast \subseteq Steps
    BY DEF SceneOk, SceneType
  <2> QED
    BY <1>11, <1>12, <2>1, <2>2, StepTo
<1>14. st0 \in [Steps -> StepType] /\ st0[p] = n0 /\ \A q \in Steps \ {p} : st0[q] = st[q]
  BY <1>1, <1>12, StepIsTyped
<1>15. \A q \in Steps : st0[q].pc = "acquiring" => st0[q].at # e
  BY <1>1, <1>11, <1>14 DEF OneAcquirer
<1>16. \A q \in Steps : StepOk(r, sc, cl, cg, q, st0[q])
  BY <1>13 DEF Good
<1>17. \A q \in Steps : ~Over(cg) /\ st0[q].pc \in {"using", "hit"} => cl1[Machine(st0[q].at)] # "off"
  BY <1>9, <1>10, <1>16 DEF StepOk, On
<1>18. Up(x, cl1)
  <2> SUFFICES ASSUME NEW f \in x.live, x.entry[f].lease = "acquired" PROVE cl1[Machine(f)] # "off"
    BY DEF Up
  <2>1. CASE f = e
    BY <1>8, <2>1 DEF m
  <2>2. CASE f # e
    BY <1>1, <1>2, <1>7, <1>9, <1>10, <2>2 DEF Up
  <2> QED
    BY <2>1, <2>2
<1>19. Billed(x, cl1)
  <2> SUFFICES ASSUME NEW k \in Entries, cl1[k] = "running"
               PROVE  \E f \in x.live : Machine(f) = k /\ x.entry[f].owes /\ Kept(x, f)
    BY DEF Billed
  <2>1. CASE cl[k] = "running"
    <3>1. PICK f \in r.live : Machine(f) = k /\ r.entry[f].owes /\ Kept(r, f)
      BY <1>1, <2>1 DEF Billed
    <3>2. x.entry[f].owes
      BY <1>2, <1>6, <1>7, <3>1
    <3>3. Kept(x, f)
      BY <1>2, <1>6, <1>7, <3>1 DEF Kept
    <3> QED
      BY <1>7, <3>1, <3>2, <3>3
  <2>2. CASE cl[k] # "running"
    <3>1. k = m
      BY <1>8, <2>2
    <3>2. x.entry[e].owes /\ Kept(x, e)
      BY <1>b, <1>3, <1>6, <1>7, <2>2, <3>1 DEF Kept
    <3> QED
      BY <1>4, <1>7, <3>1, <3>2 DEF m
  <2> QED
    BY <2>1, <2>2
<1>20. Good(x, sc, st0, cl1, cg, rc)
  BY <1>3, <1>4, <1>6, <1>8, <1>13, <1>15, <1>17, <1>18, <1>19, EditTo
<1>21. Became(st0, st1, p, n)
  BY <1>1, <1>12, BecameVia
<1> QED
  <2>1. st0[p].pc = "claimed" /\ n.at = st0[p].at /\ n.tries = st0[p].tries /\ x.entry[st0[p].at].lease = "acquired"
    BY <1>6, <1>11, <1>14
  <2> QED
    BY <1>20, <1>21, <2>1, ToUsing

\* It could not be had.
LEMMA FailTo ==
    ASSUME NEW r, NEW sc, NEW st, NEW cl, NEW cg, NEW rc, Good(r, sc, st, cl, cg, rc), SceneOk,
           NEW p \in Steps, st[p].pc = "acquiring", NEW l \in {"none", "failed"},
           NEW x, LeaseIs(r, x, st[p].at, l),
           NEW n \in StepType, NEW st1, Became(st, st1, p, n), n.pc = "done"
    PROVE  Good(x, sc, st1, cl, cg, rc)
<1> DEFINE e == st[p].at
<1>1. /\ \A q \in Steps : StepOk(r, sc, cl, cg, q, st[q])
      /\ Up(r, cl) /\ Billed(r, cl) /\ OneAcquirer(st) /\ cl \in Cloud /\ st \in [Steps -> StepType]
  BY DEF Good, Shape
<1>2. r \in Registry /\ r.live \subseteq Entries
  BY Parts DEF Good, Sound, Core, Typed
<1>3. e \in Entries
  BY OnHeld DEF On
<1>4. r.entry[e].lease = "acquiring"
  BY <1>1 DEF StepOk
<1>5. /\ Touched(r, x, e) /\ x.entry[e].lease = l
      /\ x.entry[e].timer = r.entry[e].timer /\ x.entry[e].owes = r.entry[e].owes
  BY <1>2, <1>3, LeaseTouched
<1>6. x.live = r.live /\ \A f \in Entries \ {e} : x.entry[f] = r.entry[f]
  BY <1>5 DEF Touched
<1>7. Good(r, sc, st1, cl, cg, rc)
  BY ToDone
<1>8. st1 \in [Steps -> StepType] /\ st1[p] = n /\ \A q \in Steps \ {p} : st1[q] = st[q]
  BY <1>1, StepIsTyped
<1>9. \A q \in Steps : st1[q].pc = "acquiring" => st1[q].at # e
  BY <1>1, <1>8 DEF OneAcquirer
<1>10. Up(x, cl)
  BY <1>1, <1>2, <1>5, <1>6 DEF Up
<1>11. Billed(x, cl)
  BY <1>1, <1>2, <1>3, <1>5, TouchedBills
<1>12. \A q \in Steps : StepOk(r, sc, cl, cg, q, st1[q])
  BY <1>7 DEF Good
<1>13. \A q \in Steps : ~Over(cg) /\ st1[q].pc \in {"using", "hit"} => cl[Machine(st1[q].at)] # "off"
  BY <1>12 DEF StepOk
<1> QED
  BY <1>1, <1>3, <1>4, <1>5, <1>7, <1>9, <1>10, <1>11, <1>13, EditTo

\* One scope cancelled.
CancelledIs(sc, sc1, s) == sc1 = [sc EXCEPT ![s].cancelled = TRUE]

\* A scope is cancelled.
LEMMA CancelTo ==
    ASSUME NEW r, NEW sc, NEW st, NEW cl, NEW cg, NEW rc, Good(r, sc, st, cl, cg, rc),
           NEW s \in Scopes, NEW sc1, CancelledIs(sc, sc1, s)
    PROVE  Good(r, sc1, st, cl, cg, rc)
<1> DEFINE m == [sc[s] EXCEPT !.cancelled = TRUE]
<1>1. sc \in [Scopes -> ScopeType] /\ sc[s] \in ScopeType /\ ScopeOk(r, sc, cg, s)
  BY DEF Good, Shape
<1>2. /\ m \in ScopeType /\ m.phase = sc[s].phase /\ m.held = sc[s].held /\ m.owed = sc[s].owed
      /\ m.claiming = sc[s].claiming /\ m.cancelled
  BY <1>1 DEF ScopeType
<1>3. ScopeIs(sc, sc1, s, m)
  BY DEF ScopeIs, CancelledIs
<1> HIDE DEF m
<1>4. sc1 \in [Scopes -> ScopeType] /\ sc1[s] = m
  BY <1>1, <1>2, <1>3, ScopeIsTyped
<1>5. \A e \in Entries : Held(sc1)[s][e] = Held(sc)[s][e]
  BY <1>2, <1>4 DEF Held
<1>6. ScopeOk(r, sc1, cg, s)
  BY <1>1, <1>2, <1>4 DEF ScopeOk
<1>7. m.claiming = sc[s].claiming /\ m.phase = sc[s].phase /\ \A t \in Tags : m.held[t] \in {sc[s].held[t], None}
  BY <1>2
<1> QED
  <2>1. m \in ScopeType
    BY <1>2
  <2> QED
    BY <1>3, <1>5, <1>6, <1>7, <2>1, ScopeTo

\* A step lets go of a machine it watched die, or of what is not its tag's any more.
LEMMA ToLeaving ==
    ASSUME NEW r, NEW sc, NEW st, NEW cl, NEW cg, NEW rc, Good(r, sc, st, cl, cg, rc), SceneOk,
           NEW p \in Steps, st[p].pc = "hit",
           NEW n \in StepType, NEW st1, Became(st, st1, p, n), n.pc = "leaving", n.tries = st[p].tries,
           n.at # None => r.entry[n.at].retired /\ Held(sc)[ScopeOf[p]][n.at] > 0
    PROVE  Good(r, sc, st1, cl, cg, rc)
<1>1. StepOk(r, sc, cl, cg, p, st[p])
  BY DEF Good
<1>2. StepOk(r, sc, cl, cg, p, n)
  BY <1>1 DEF StepOk, On
<1>3. scene.cast \subseteq Steps
  BY DEF SceneOk, SceneType
<1> QED
  BY <1>2, <1>3, StepTo

\* Nothing is held by a scope that is over, or waits for it.
LEMMA OverIsEmpty ==
    ASSUME NEW r, NEW sc, NEW st, NEW cl, NEW cg, NEW rc, Good(r, sc, st, cl, cg, rc),
           NEW s \in Scopes, sc[s].phase = "closed"
    PROVE  /\ \A e \in Entries : Held(sc)[s][e] = 0
           /\ \A p \in Steps : ScopeOf[p] = s => r.got[p] = None
<1>1. /\ ScopeOk(r, sc, cg, s) /\ sc \in [Scopes -> ScopeType]
      /\ \A p \in Steps : StepOk(r, sc, cl, cg, p, st[p])
  BY DEF Good, Shape
<1>2. \A t \in Tags : sc[s].held[t] = None
  BY <1>1 DEF ScopeOk
<1>3. \A e \in Entries : sc[s].owed[e] = 0
  BY <1>1 DEF ScopeOk
<1>4. ASSUME NEW e \in Entries PROVE Held(sc)[s][e] = 0
  <2>1. ~(\E t \in Tags : sc[s].held[t] = e)
    BY <1>2, Constants
  <2>2. Held(sc)[s][e] \in Nat /\ ~(Held(sc)[s][e] > 0)
    BY <1>1, <1>3, <2>1, HeldType DEF HoldingType
  <2> QED
    BY <2>2
<1>5. ASSUME NEW p \in Steps, ScopeOf[p] = s PROVE r.got[p] = None
  BY <1>1, <1>5 DEF StepOk, InLine
<1> QED
  BY <1>4, <1>5

\* Abandon, up to retire.
LEMMA RetireTo ==
    ASSUME NEW r, NEW sc, NEW st, NEW cl, NEW cg, NEW rc, Good(r, sc, st, cl, cg, rc), SceneOk, Stocked(r), ~Parked,
           NEW p \in Steps, st[p].pc = "hit",
           NEW h \in Entries, sc[ScopeOf[p]].held[TagOf[p]] = h, NEW x, x = Retire(r, h),
           NEW n \in StepType, NEW st1, Became(st, st1, p, n), n.pc = "leaving", n.at = h, n.tries = st[p].tries
    PROVE  Good(x, sc, st1, cl, cg, rc)
<1>1. Sound(r, sc, cg) /\ sc \in [Scopes -> ScopeType] /\ ScopeOf[p] \in Scopes /\ TagOf[p] \in Tags
  BY Constants DEF Good, Shape
<1>2. PICK H : H = Held(sc)
  OBVIOUS
<1>3. Core(r, H) /\ Idle(r) /\ (~Over(cg) => Quiet(r)) /\ Settled(r) /\ (r.closed <=> cg # "no")
  BY <1>1, <1>2 DEF Sound
<1>4. Held(sc)[ScopeOf[p]][h] > 0
  BY <1>1, HeldType
<1>5. r.entry[h].refs > 0
  BY <1>1, <1>2, <1>3, <1>4, HeldIs
<1>6. /\ Core(x, H) /\ Moves(r, x, h) /\ PlacesKept(r, x, Scopes)
      /\ Settled(r) => Settled(x)
      /\ scene.max > 0 /\ Within(r) => Within(x)
      /\ x.entry[h].retired /\ x.entry[h].refs > 0
      /\ \A s \in Scopes : x.reserved[s] > 0 => r.reserved[s] > 0 \/ s = r.entry[h].holder
  BY <1>3, <1>5, RetireIs
<1>7. r \in Registry /\ x \in Registry
  BY <1>3, <1>6 DEF Core, Typed
<1>8. Kept(x, h)
  BY <1>6 DEF Kept
<1>9. Calm(r, x, Scopes) /\ Steady(r, x)
  BY <1>6, <1>7, <1>8, MovesCalm
<1>10. Sound(x, sc, cg)
  BY <1>2, <1>3, <1>6 DEF Sound, Moves
<1>11. ASSUME NEW s \in Scopes, x.reserved[s] > 0 PROVE r.reserved[s] > 0 \/ sc[s].phase # "closed"
  <2> SUFFICES ASSUME sc[s].phase = "closed", s = r.entry[h].holder PROVE FALSE
    BY <1>6, <1>11
  <2>1. s # Nobody
    BY Constants
  <2>2. H[s][h] > 0 \/ \E q \in Steps : r.got[q] = h /\ ScopeOf[q] = s
    BY <1>3, <2>1, HolderIs
  <2>3. /\ Held(sc)[s][h] = 0
        /\ \A q \in Steps : ScopeOf[q] = s => r.got[q] = None
    BY OverIsEmpty
  <2> QED
    BY <1>2, <2>2, <2>3, Constants
<1>12. \A s \in Jobs : s \in Scopes
  BY Constants
<1>13. Good(x, sc, st, cl, cg, rc)
  BY <1>6, <1>9, <1>10, <1>11, <1>12, RegSteady
<1>14. n.at # None => x.entry[n.at].retired /\ Held(sc)[ScopeOf[p]][n.at] > 0
  BY <1>4, <1>6
<1> QED
  BY <1>13, <1>14, ToLeaving

\* A parked machine that died is to be started again.
LEMMA ForgetTo ==
    ASSUME NEW r, NEW sc, NEW st, NEW cl, NEW cg, NEW rc, Good(r, sc, st, cl, cg, rc), SceneOk,
           NEW p \in Steps, st[p].pc = "hit",
           NEW h \in Entries, r.entry[h].lease = "acquired", NEW x, LeaseIs(r, x, h, "none"),
           NEW n \in StepType, NEW st1, Became(st, st1, p, n), n.pc = "leaving", n.at = None, n.tries = st[p].tries
    PROVE  Good(x, sc, st1, cl, cg, rc)
<1>1. /\ \A q \in Steps : StepOk(r, sc, cl, cg, q, st[q])
      /\ Up(r, cl) /\ Billed(r, cl) /\ cl \in Cloud
  BY DEF Good, Shape
<1>2. r \in Registry /\ r.live \subseteq Entries
  BY Parts DEF Good, Sound, Core, Typed
<1>3. /\ Touched(r, x, h) /\ x.entry[h].lease = "none"
      /\ x.entry[h].timer = r.entry[h].timer /\ x.entry[h].owes = r.entry[h].owes
  BY <1>2, LeaseTouched
<1>4. x.live = r.live /\ \A f \in Entries \ {h} : x.entry[f] = r.entry[f]
  BY <1>3 DEF Touched
<1>5. Up(x, cl)
  BY <1>1, <1>2, <1>3, <1>4 DEF Up
<1>6. Billed(x, cl)
  BY <1>1, <1>2, <1>3, TouchedBills
<1>7. \A q \in Steps : ~Over(cg) /\ st[q].pc \in {"using", "hit"} => cl[Machine(st[q].at)] # "off"
  BY <1>1 DEF StepOk
<1>8. \A q \in Steps : st[q].pc = "acquiring" => st[q].at # h
  BY <1>1 DEF StepOk
<1>9. Good(x, sc, st, cl, cg, rc)
  BY <1>1, <1>3, <1>5, <1>6, <1>7, <1>8, EditTo
<1> QED
  BY <1>9, ToLeaving

\* A step that let go is placed again, or done.
LEMMA ToAgain ==
    ASSUME NEW r, NEW sc, NEW st, NEW cl, NEW cg, NEW rc, Good(r, sc, st, cl, cg, rc), SceneOk,
           NEW p \in Steps, st[p].pc = "leaving",
           NEW n \in StepType, NEW st1, Became(st, st1, p, n),
           n.pc = "done" \/ (n.pc = "new" /\ n.tries = st[p].tries + 1)
    PROVE  Good(r, sc, st1, cl, cg, rc)
<1>1. StepOk(r, sc, cl, cg, p, st[p]) /\ st[p] \in StepType
  BY DEF Good, Shape
<1>2. StepOk(r, sc, cl, cg, p, n)
  BY <1>1 DEF StepOk, On
<1>3. scene.cast \subseteq Steps
  BY DEF SceneOk, SceneType
<1>4. n.pc = "new" => n.tries # 0
  BY <1>1, Constants DEF StepType
<1> QED
  BY <1>2, <1>3, <1>4, StepTo

\* A machine a tag named is owed instead.
OwedIs(sc, sc1, s, t, h) == sc1 = [sc EXCEPT ![s].held[t] = None, ![s].owed[h] = @ + 1]

\* A machine that a tag named is owed: the scope's books.
LEMMA OwedIsScope ==
    ASSUME NEW sc \in [Scopes -> ScopeType], NEW s \in Scopes, NEW t \in Tags, NEW h \in Entries, NEW sc1,
           OwedIs(sc, sc1, s, t, h)
    PROVE  \E n \in ScopeType :
              /\ ScopeIs(sc, sc1, s, n)
              /\ n.phase = sc[s].phase /\ n.cancelled = sc[s].cancelled /\ n.claiming = sc[s].claiming
              /\ n.held[t] = None /\ \A u \in Tags \ {t} : n.held[u] = sc[s].held[u]
              /\ n.owed[h] = sc[s].owed[h] + 1 /\ \A e \in Entries \ {h} : n.owed[e] = sc[s].owed[e]
<1> DEFINE held == [sc[s].held EXCEPT ![t] = None]
           owed == [sc[s].owed EXCEPT ![h] = sc[s].owed[h] + 1]
           n == [sc[s] EXCEPT !.held = held, !.owed = owed]
<1>1. /\ sc[s] \in ScopeType /\ sc[s].held \in [Tags -> Entries \cup {None}]
      /\ sc[s].owed \in [Entries -> Nat]
  BY DEF ScopeType
<1>2. held \in [Tags -> Entries \cup {None}] /\ held[t] = None /\ \A u \in Tags \ {t} : held[u] = sc[s].held[u]
  BY <1>1
<1>3. owed \in [Entries -> Nat] /\ owed[h] = sc[s].owed[h] + 1 /\ \A e \in Entries \ {h} : owed[e] = sc[s].owed[e]
  BY <1>1
<1>4. ScopeIs(sc, sc1, s, n)
  BY <1>1 DEF ScopeIs, OwedIs, ScopeType
<1> HIDE DEF held, owed
<1>5. /\ n \in ScopeType /\ n.phase = sc[s].phase /\ n.cancelled = sc[s].cancelled /\ n.claiming = sc[s].claiming
      /\ n.held = held /\ n.owed = owed
  BY <1>1, <1>2, <1>3 DEF ScopeType
<1> HIDE DEF n
<1> QED
  BY <1>2, <1>3, <1>4, <1>5

-----------------------------------------------------------------------------
(* Timers, give-backs and Close.                                           *)

\* An entry's timer is armed, fires or is stopped.
LEMMA TimerTouched ==
    ASSUME NEW r \in Registry, NEW e \in Entries, NEW x, NEW t \in {"none", "armed", "fired"}, TimerSet(r, x, e, t)
    PROVE  /\ Touched(r, x, e) /\ x.entry[e].timer = t
           /\ x.entry[e].lease = r.entry[e].lease /\ x.entry[e].owes = r.entry[e].owes
<1> DEFINE n == [r.entry[e] EXCEPT !.timer = t]
<1>1. r.entry[e] \in EntryType
  BY Parts
<1>2. n \in EntryType
  BY <1>1 DEF EntryType
<1>3. EntryIs(r, x, e, n)
  BY DEF EntryIs, TimerSet
<1>4. /\ n.refs = r.entry[e].refs /\ n.jobs = r.entry[e].jobs /\ n.holder = r.entry[e].holder
      /\ n.retired = r.entry[e].retired /\ n.gone = r.entry[e].gone /\ n.lease = r.entry[e].lease
      /\ n.timer = t /\ n.owes = r.entry[e].owes
  BY <1>1 DEF EntryType
<1> HIDE DEF n
<1> QED
  BY <1>2, <1>3, <1>4, TouchedIs

\* A superseded timer stands down.
StaleSet(r, x, e) == x = [r EXCEPT !.entry[e].stale = FALSE]

\* A superseded timer stands down.
LEMMA StaleTouched ==
    ASSUME NEW r \in Registry, NEW e \in Entries, NEW x, StaleSet(r, x, e)
    PROVE  /\ Touched(r, x, e) /\ x.entry[e].timer = r.entry[e].timer
           /\ x.entry[e].lease = r.entry[e].lease /\ x.entry[e].owes = r.entry[e].owes
<1> DEFINE n == [r.entry[e] EXCEPT !.stale = FALSE]
<1>1. r.entry[e] \in EntryType
  BY Parts
<1>2. n \in EntryType
  BY <1>1 DEF EntryType
<1>3. EntryIs(r, x, e, n)
  BY DEF EntryIs, StaleSet
<1>4. /\ n.refs = r.entry[e].refs /\ n.jobs = r.entry[e].jobs /\ n.holder = r.entry[e].holder
      /\ n.retired = r.entry[e].retired /\ n.gone = r.entry[e].gone /\ n.lease = r.entry[e].lease
      /\ n.timer = r.entry[e].timer /\ n.owes = r.entry[e].owes
  BY <1>1 DEF EntryType
<1> HIDE DEF n
<1> QED
  BY <1>2, <1>3, <1>4, TouchedIs

\* A timer fires, or one that was superseded stands down.
LEMMA TickTo ==
    ASSUME NEW r, NEW sc, NEW st, NEW cl, NEW cg, NEW rc, Good(r, sc, st, cl, cg, rc), SceneOk,
           NEW e \in Entries, NEW x, Touched(r, x, e),
           x.entry[e].timer # "none" <=> r.entry[e].timer # "none",
           x.entry[e].lease = r.entry[e].lease, x.entry[e].owes = r.entry[e].owes
    PROVE  Good(x, sc, st, cl, cg, rc)
<1>1. /\ \A q \in Steps : StepOk(r, sc, cl, cg, q, st[q])
      /\ Up(r, cl) /\ Billed(r, cl) /\ cl \in Cloud
  BY DEF Good, Shape
<1>2. r \in Registry /\ r.live \subseteq Entries
  BY Parts DEF Good, Sound, Core, Typed
<1>3. x.live = r.live /\ \A f \in Entries \ {e} : x.entry[f] = r.entry[f]
  BY DEF Touched
<1>4. Up(x, cl)
  BY <1>1, <1>2, <1>3 DEF Up
<1>5. Billed(x, cl)
  BY <1>1, <1>2, TouchedBills
<1>6. \A q \in Steps : ~Over(cg) /\ st[q].pc \in {"using", "hit"} => cl[Machine(st[q].at)] # "off"
  BY <1>1 DEF StepOk
<1>7. \A q \in Steps : st[q].pc = "acquiring" /\ st[q].at = e => x.entry[e].lease = "acquiring"
  BY <1>1 DEF StepOk
<1> QED
  BY <1>1, <1>4, <1>5, <1>6, <1>7, EditTo

\* expire, of a timer that was not superseded.
LEMMA ExpireTo ==
    ASSUME NEW r, NEW sc, NEW st, NEW cl, NEW cg, NEW rc, Good(r, sc, st, cl, cg, rc), SceneOk, Stocked(r),
           NEW e \in Entries, r.entry[e].timer = "fired", NEW y, TimerSet(r, y, e, "none")
    PROVE  y.entry[e].gone = "no" /\ Good(TakeOut(y, e, Nobody), sc, st, cl, cg, rc)
<1>1. Sound(r, sc, cg) /\ \A q \in Steps : StepOk(r, sc, cl, cg, q, st[q])
  BY DEF Good
<1>2. PICK H : H = Held(sc)
  OBVIOUS
<1>3. Core(r, H) /\ Idle(r) /\ (~Over(cg) => Quiet(r)) /\ Settled(r) /\ (r.closed <=> cg # "no")
  BY <1>1, <1>2 DEF Sound
<1>4. r \in Registry
  BY <1>3 DEF Core, Typed
<1>5. e \in r.live /\ r.entry[e].gone = "no" /\ r.entry[e].refs = 0 /\ Ticks(r, e)
  BY <1>3 DEF Core, EntryOk, Alive, Idle, Ticks
<1>6. /\ Touched(r, y, e) /\ y.entry[e].timer = "none"
      /\ y.entry[e].lease = r.entry[e].lease /\ y.entry[e].owes = r.entry[e].owes
  BY <1>4, TimerTouched
<1>7. /\ Core(y, H) /\ PlacesKept(r, y, Scopes)
      /\ scene.max > 0 /\ Within(r) => Within(y)
      /\ Settled(y) /\ (Quiet(r) => Quiet(y)) /\ (Idle(r) /\ Ticks(y, e) => Idle(y))
  BY <1>3, <1>6, TouchedCore
<1>8. Ticks(y, e)
  BY <1>5, <1>6 DEF Ticks, Touched, Members
<1>9. y \in Registry /\ y.live = r.live /\ y.entry[e].refs = 0 /\ y.entry[e].gone = "no" /\ y.reserved = r.reserved
      /\ y.entry[e].retired = r.entry[e].retired /\ y.waiters = r.waiters /\ y.got = r.got /\ y.closed = r.closed
      /\ \A f \in Entries \ {e} : y.entry[f] = r.entry[f]
  BY <1>5, <1>6 DEF Touched
<1>10. e \notin Unused(r)
  BY <1>5 DEF Unused
<1>11. Nudge(r, y, e)
  BY <1>3, <1>6, <1>7, <1>8, <1>9, <1>10 DEF Nudge
<1>12. Moves(r, y, e) /\ Stocked(y)
  BY <1>4, <1>11, NudgeMoves
<1> DEFINE x == TakeOut(y, e, Nobody)
<1>13. /\ Core(x, H) /\ Moves(y, x, e) /\ PlacesKept(y, x, Scopes)
       /\ Settled(y) => Settled(x)
       /\ scene.max > 0 /\ Within(y) => Within(x)
       /\ x.entry[e].gone = "going" /\ x.reserved = y.reserved
  BY <1>5, <1>6, <1>7, <1>9, <1>12, TakeOutIs
<1> HIDE DEF x
<1>14. x \in Registry
  BY <1>13 DEF Core, Typed
<1>15. Moves(r, x, e)
  BY <1>4, <1>9, <1>12, <1>13, <1>14, MovesOn
<1>16. Kept(x, e)
  BY <1>13 DEF Kept
<1>17. PlacesKept(r, x, Scopes)
  BY <1>7, <1>13 DEF PlacesKept
<1>18. Calm(r, x, Scopes) /\ Steady(r, x)
  BY <1>4, <1>14, <1>15, <1>16, <1>17, MovesCalm
<1>19. Sound(x, sc, cg)
  BY <1>2, <1>3, <1>7, <1>13, <1>15 DEF Sound, Moves
<1>20. \A s \in Jobs : s \in Scopes
  BY Constants
<1>21. \A s \in Scopes : x.reserved[s] > 0 => r.reserved[s] > 0 \/ sc[s].phase # "closed"
  BY <1>9, <1>13
<1>22. scene.exclusive /\ scene.max > 0 /\ Within(r) => Within(x)
  BY <1>7, <1>13
<1>23. Good(x, sc, st, cl, cg, rc)
  BY <1>18, <1>19, <1>20, <1>21, <1>22, RegSteady
<1> QED
  BY <1>9, <1>23 DEF x

\* Two entries alive never share a machine.
LEMMA MachinesApart ==
    ASSUME NEW r, NEW H, Core(r, H), NEW e \in r.live, NEW f \in r.live, Machine(e) = Machine(f)
    PROVE  e = f
BY DEF Core, One, Machine

\* An entry given back.
Sold(n) == [n EXCEPT !.owes = FALSE, !.gone = "yes", !.by = Nobody]
\* giveBack, of the registry.
BackIs(r, x, e) == x = [Forget(r, e) EXCEPT !.live = @ \ {e}, !.entry[e] = Sold(@)]

\* giveBack, field by field.
LEMMA BackIsReturned ==
    ASSUME NEW r, NEW H, Core(r, H), SceneOk, NEW e \in Entries, r.entry[e].gone = "going", NEW x, BackIs(r, x, e)
    PROVE  /\ Returned(r, x, e) /\ x.entry[e].lease = r.entry[e].lease /\ x.entry[e].owes = FALSE
<1>1. r \in Registry /\ Pool(r) /\ r.members \in Seq(Entries)
  BY Parts DEF Core, Typed
<1>2. r.entry[e] \in EntryType /\ r.live \subseteq Entries /\ r.current \in Entries \cup {None}
  BY <1>1, Parts
<1>3. e \notin Members(r)
  BY <1>1 DEF Pool
<1>4. ~Contains(r.members, e)
  BY <1>1, <1>3, SetOf DEF Members
<1>5. scene.exclusive => r.current = None
  BY <1>1 DEF Pool
<1> DEFINE c == IF r.current = e THEN None ELSE r.current
           y == [r EXCEPT !.current = c]
<1>6. Forget(r, e) = y
  <2>1. CASE scene.exclusive
    <3>1. Forget(r, e) = r
      BY <1>4, <2>1 DEF Forget, LeavePool
    <3>2. c = r.current
      BY <1>5, <2>1, Constants
    <3>3. y = r
      BY <1>1, <3>2 DEF Registry
    <3> QED
      BY <3>1, <3>3
  <2>2. CASE ~scene.exclusive
    BY <2>2 DEF Forget
  <2> QED
    BY <2>1, <2>2
<1>7. y \in Registry /\ y.entry = r.entry /\ y.live = r.live /\ y.members = r.members /\ y.reserved = r.reserved
      /\ y.waiters = r.waiters /\ y.got = r.got /\ y.closed = r.closed /\ y.current = c
  BY <1>1, <1>2 DEF Registry
<1>8. x = [y EXCEPT !.live = y.live \ {e}, !.entry[e] = Sold(y.entry[e])]
  BY <1>6 DEF BackIs
<1> HIDE DEF y
<1> DEFINE n == Sold(r.entry[e])
<1>9. /\ n \in EntryType
      /\ n.refs = r.entry[e].refs /\ n.jobs = r.entry[e].jobs /\ n.holder = r.entry[e].holder
      /\ n.retired = r.entry[e].retired /\ n.gone = "yes" /\ n.lease = r.entry[e].lease
      /\ n.timer = r.entry[e].timer /\ n.owes = FALSE
  BY <1>2 DEF EntryType, Sold
<1>10. x = [y EXCEPT !.live = r.live \ {e}, !.entry = [r.entry EXCEPT ![e] = n]]
  BY <1>7, <1>8
<1> HIDE DEF n
<1>11. r.entry \in [Entries -> EntryType]
  BY <1>1 DEF Registry
<1> DEFINE E == [r.entry EXCEPT ![e] = n]
<1>12. E \in [Entries -> EntryType] /\ E[e] = n /\ \A f \in Entries \ {e} : E[f] = r.entry[f]
  BY <1>9, <1>11
<1>13. x = [y EXCEPT !.live = r.live \ {e}, !.entry = E]
  BY <1>10
<1> HIDE DEF E
<1>14. r.live \ {e} \in SUBSET Entries
  BY <1>2
<1>15. /\ x \in Registry /\ x.entry = E /\ x.live = r.live \ {e} /\ x.members = y.members /\ x.reserved = y.reserved
       /\ x.waiters = y.waiters /\ x.got = y.got /\ x.closed = y.closed /\ x.current = y.current
  BY <1>7, <1>12, <1>13, <1>14 DEF Registry
<1> QED
  BY <1>7, <1>9, <1>12, <1>15 DEF Returned

\* giveBack: what the entry owed is off.
LEMMA GiveBackTo ==
    ASSUME NEW r, NEW sc, NEW st, NEW cl, NEW cg, NEW rc, Good(r, sc, st, cl, cg, rc), SceneOk,
           NEW e \in Entries, r.entry[e].gone = "going", r.entry[e].lease # "acquiring", NEW x, BackIs(r, x, e),
           NEW v, v = (IF r.entry[e].owes THEN "off" ELSE cl[Machine(e)]), NEW cl1, CloudIs(cl, cl1, Machine(e), v)
    PROVE  Good(x, sc, st, cl1, cg, rc)
<1> DEFINE m == Machine(e)
<1>1. /\ Sound(r, sc, cg) /\ \A q \in Steps : StepOk(r, sc, cl, cg, q, st[q])
      /\ Up(r, cl) /\ Billed(r, cl) /\ cl \in Cloud /\ st \in [Steps -> StepType]
  BY DEF Good, Shape
<1>2. PICK H : H = Held(sc)
  OBVIOUS
<1>3. Core(r, H) /\ Idle(r) /\ (~Over(cg) => Quiet(r)) /\ Settled(r) /\ (r.closed <=> cg # "no")
  BY <1>1, <1>2 DEF Sound
<1>4. r \in Registry /\ r.live \subseteq Entries
  BY <1>3, Parts DEF Core, Typed
<1>5. e \in r.live
  BY <1>3 DEF Core, EntryOk, Alive
<1>6. m \in Entries /\ \A f \in Entries : Machine(f) \in Entries
  BY Constants DEF Machine
<1>7. Returned(r, x, e) /\ x.entry[e].lease = r.entry[e].lease /\ x.entry[e].owes = FALSE
  BY <1>3, BackIsReturned
<1>8. /\ Core(x, H) /\ Settled(x) /\ (Within(r) => Within(x))
      /\ (Quiet(r) => Quiet(x)) /\ Idle(x)
      /\ Calm(r, x, Scopes) /\ x.reserved = r.reserved /\ x.closed = r.closed
  BY <1>3, <1>7, ReturnedCore
<1>9. Sound(x, sc, cg)
  BY <1>2, <1>3, <1>8 DEF Sound
<1>10. x.live = r.live \ {e} /\ \A f \in Entries \ {e} : x.entry[f] = r.entry[f]
  BY <1>7 DEF Returned
<1>11. \A f \in r.live : f # e => Machine(f) # m
  BY <1>3, <1>5, MachinesApart
<1>12. v \in {"off", "running", "dead"}
  BY <1>1, <1>6 DEF Cloud
<1>13. cl1 \in Cloud /\ cl1[m] = v /\ \A k \in Entries \ {m} : cl1[k] = cl[k]
  BY <1>1, <1>6, <1>12 DEF CloudIs, Cloud
<1> HIDE DEF m
<1>14. ASSUME NEW q \in Steps, st[q].pc = "acquiring"
       PROVE  x.entry[st[q].at].lease = "acquiring" /\ st[q].at \in x.live
  <2>1. r.entry[st[q].at].lease = "acquiring" /\ st[q].at \in r.live /\ st[q].at \in Entries
    BY <1>1, <1>14 DEF StepOk, On
  <2> QED
    BY <1>10, <2>1
<1>15. ASSUME NEW q \in Steps, ~Over(cg), st[q].pc \in {"using", "hit"}
       PROVE  cl1[Machine(st[q].at)] # "off"
  <2>1. r.entry[st[q].at].gone = "no" /\ st[q].at \in r.live
    BY <1>15, OnHeld DEF On
  <2>2. Machine(st[q].at) # m /\ Machine(st[q].at) \in Entries
    BY <1>4, <1>6, <1>11, <2>1
  <2>3. cl[Machine(st[q].at)] # "off"
    BY <1>1, <1>15 DEF StepOk
  <2> QED
    BY <1>13, <2>2, <2>3
<1>16. Up(x, cl1)
  <2> SUFFICES ASSUME NEW f \in x.live, x.entry[f].lease = "acquired" PROVE cl1[Machine(f)] # "off"
    BY DEF Up
  <2>1. f \in r.live /\ f # e /\ r.entry[f].lease = "acquired" /\ Machine(f) # m /\ Machine(f) \in Entries
    BY <1>4, <1>6, <1>10, <1>11
  <2> QED
    BY <1>1, <1>13, <2>1 DEF Up
<1>17. Billed(x, cl1)
  <2> SUFFICES ASSUME NEW k \in Entries, cl1[k] = "running"
               PROVE  \E f \in x.live : Machine(f) = k /\ x.entry[f].owes /\ Kept(x, f)
    BY DEF Billed
  <2>1. cl[k] = "running" /\ (k = m => ~r.entry[e].owes)
    BY <1>13 DEF m
  <2>2. PICK f \in r.live : Machine(f) = k /\ r.entry[f].owes /\ Kept(r, f)
    BY <1>1, <2>1 DEF Billed
  <2>3. f # e
    BY <2>1, <2>2 DEF m
  <2>4. f \in x.live /\ x.entry[f] = r.entry[f]
    BY <1>4, <1>10, <2>2, <2>3
  <2> QED
    BY <2>2, <2>4 DEF Kept
<1>18. \A s \in Jobs : s \in Scopes
  BY Constants
<1>19. \A s \in Scopes : x.reserved[s] > 0 => r.reserved[s] > 0 \/ sc[s].phase # "closed"
  BY <1>8
<1> QED
  BY <1>8, <1>9, <1>13, <1>14, <1>15, <1>16, <1>17, <1>18, <1>19, RegTo

-----------------------------------------------------------------------------
\* A step on a machine that is taken away.
Hit(n, m) == IF n.pc = "using" /\ Machine(n.at) = m THEN [n EXCEPT !.pc = "hit"] ELSE n

\* The cloud takes a machine away.
LEMMA ReclaimTo ==
    ASSUME NEW r, NEW sc, NEW st, NEW cl, NEW cg, NEW rc, Good(r, sc, st, cl, cg, rc), SceneOk,
           NEW m \in Entries, cl[m] = "running", rc < scene.reclaims,
           NEW cl1, CloudIs(cl, cl1, m, "dead"),
           NEW st1, st1 = [p \in Steps |-> Hit(st[p], m)]
    PROVE  Good(r, sc, st1, cl1, cg, rc + 1)
<1>1. /\ Shape(sc, st, cl, cg, rc) /\ Sound(r, sc, cg)
      /\ \A q \in Steps : StepOk(r, sc, cl, cg, q, st[q])
      /\ OneAcquirer(st)
      /\ \A o \in Scopes : ScopeOk(r, sc, cg, o)
      /\ \A o \in Scopes : Claiming(sc, st, o)
      /\ \A o \in Jobs : Placed(r, sc, cg, o)
      /\ Capped(r, st) /\ Up(r, cl) /\ Billed(r, cl)
  BY DEF Good
<1>2. cl \in Cloud /\ st \in [Steps -> StepType] /\ rc \in 0..scene.reclaims /\ scene.reclaims \in Nat
  BY <1>1 DEF Shape, SceneOk, SceneType
<1>3. cl1 \in Cloud /\ cl1[m] = "dead" /\ \A k \in Entries \ {m} : cl1[k] = cl[k]
  BY <1>2 DEF CloudIs, Cloud
<1>4. ASSUME NEW q \in Steps
      PROVE  /\ st1[q] \in StepType /\ st1[q].at = st[q].at /\ st1[q].tries = st[q].tries
             /\ st1[q].pc = st[q].pc \/ (st1[q].pc = "hit" /\ st[q].pc = "using")
  <2>1. st[q] \in StepType /\ st1[q] = Hit(st[q], m)
    BY <1>2
  <2> QED
    BY <2>1 DEF Hit, StepType
<1>5. st1 \in [Steps -> StepType]
  <2>1. DOMAIN st1 = Steps /\ st1 = [q \in Steps |-> st1[q]]
    OBVIOUS
  <2> QED
    BY <1>4, <2>1
<1>6. \A k \in Entries : cl[k] # "off" => cl1[k] # "off"
  BY <1>3
<1>7. \A f \in Entries : Machine(f) \in Entries
  BY Constants DEF Machine
<1>8. Shape(sc, st1, cl1, cg, rc + 1)
  BY <1>1, <1>2, <1>3, <1>5 DEF Shape
<1>9. ASSUME NEW q \in Steps PROVE StepOk(r, sc, cl1, cg, q, st1[q])
  <2>1. StepOk(r, sc, cl, cg, q, st[q])
    BY <1>1
  <2>2. st[q].pc \in On => st[q].at \in Entries
    BY <2>1 DEF StepOk
  <2>3. ~Over(cg) /\ st1[q].pc \in {"using", "hit"} => cl1[Machine(st1[q].at)] # "off"
    BY <1>4, <1>6, <1>7, <2>1, <2>2 DEF StepOk, On
  <2>4. CASE st1[q].pc = st[q].pc
    BY <1>4, <2>1, <2>3, <2>4 DEF StepOk
  <2>5. CASE st1[q].pc = "hit" /\ st[q].pc = "using"
    BY <1>4, <2>1, <2>3, <2>5 DEF StepOk, On
  <2> QED
    BY <1>4, <2>4, <2>5
<1>10. OneAcquirer(st1)
  BY <1>1, <1>4 DEF OneAcquirer
<1>11. \A o \in Scopes : Claiming(sc, st1, o)
  <2>1. \A q \in Steps : st[q].pc = "queued" => st1[q].pc = "queued"
    BY <1>4
  <2> QED
    BY <1>1, <2>1 DEF Claiming
<1>12. Capped(r, st1)
  <2>1. NoCheck(st1) => NoCheck(st)
    <3>1. scene.cast \subseteq Steps
      BY DEF SceneOk, SceneType
    <3> QED
      BY <1>4, <3>1 DEF NoCheck
  <2> QED
    BY <1>1, <2>1 DEF Capped
<1>13. Up(r, cl1)
  <2>1. r.live \subseteq Entries
    BY <1>1, Parts DEF Sound, Core, Typed
  <2> QED
    BY <1>1, <1>6, <1>7, <2>1 DEF Up
<1>14. Billed(r, cl1)
  <2>1. \A k \in Entries : cl1[k] = "running" => cl[k] = "running"
    BY <1>3
  <2> QED
    BY <1>1, <2>1 DEF Billed
<1> QED
  BY <1>1, <1>8, <1>9, <1>10, <1>11, <1>12, <1>13, <1>14 DEF Good

\* Every scope is cancelled.
LEMMA AllCancelled ==
    ASSUME NEW r, NEW sc, NEW st, NEW cl, NEW cg, NEW rc, Good(r, sc, st, cl, cg, rc),
           NEW sc1, sc1 = [s \in Scopes |-> [sc[s] EXCEPT !.cancelled = TRUE]]
    PROVE  Good(r, sc1, st, cl, cg, rc) /\ \A s \in Scopes : sc1[s].cancelled
<1>1. /\ Shape(sc, st, cl, cg, rc) /\ Sound(r, sc, cg)
      /\ \A q \in Steps : StepOk(r, sc, cl, cg, q, st[q])
      /\ OneAcquirer(st)
      /\ \A o \in Scopes : ScopeOk(r, sc, cg, o)
      /\ \A o \in Scopes : Claiming(sc, st, o)
      /\ \A o \in Jobs : Placed(r, sc, cg, o)
      /\ Capped(r, st) /\ Up(r, cl) /\ Billed(r, cl)
  BY DEF Good
<1>2. sc \in [Scopes -> ScopeType]
  BY <1>1 DEF Shape
<1>3. ASSUME NEW s \in Scopes
      PROVE  /\ sc1[s] \in ScopeType /\ sc1[s].phase = sc[s].phase /\ sc1[s].held = sc[s].held
             /\ sc1[s].owed = sc[s].owed /\ sc1[s].claiming = sc[s].claiming /\ sc1[s].cancelled
  <2>1. sc[s] \in ScopeType /\ sc1[s] = [sc[s] EXCEPT !.cancelled = TRUE]
    BY <1>2
  <2> QED
    BY <2>1 DEF ScopeType
<1>4. sc1 \in [Scopes -> ScopeType]
  <2>1. DOMAIN sc1 = Scopes /\ sc1 = [s \in Scopes |-> sc1[s]]
    OBVIOUS
  <2> QED
    BY <1>3, <2>1
<1>5. Held(sc1) = Held(sc)
  BY <1>3 DEF Held
<1>6. Shape(sc1, st, cl, cg, rc) /\ Sound(r, sc1, cg)
  BY <1>1, <1>4, <1>5 DEF Shape, Sound
<1>7. ASSUME NEW q \in Steps PROVE StepOk(r, sc1, cl, cg, q, st[q])
  <2>1. StepOk(r, sc, cl, cg, q, st[q]) /\ ScopeOf[q] \in Scopes
    BY <1>1, Constants
  <2>2. sc1[ScopeOf[q]].phase = sc[ScopeOf[q]].phase /\ sc1[ScopeOf[q]].held = sc[ScopeOf[q]].held
        /\ sc1[ScopeOf[q]].claiming = sc[ScopeOf[q]].claiming
    BY <1>3, <2>1
  <2> QED
    BY <1>5, <2>1, <2>2 DEF StepOk
<1>8. ASSUME NEW s \in Scopes PROVE ScopeOk(r, sc1, cg, s) /\ Claiming(sc1, st, s)
  <2>1. ScopeOk(r, sc, cg, s) /\ Claiming(sc, st, s)
    BY <1>1
  <2>2. /\ sc1[s].phase = sc[s].phase /\ sc1[s].held = sc[s].held
        /\ sc1[s].owed = sc[s].owed /\ sc1[s].claiming = sc[s].claiming /\ sc1[s].cancelled
    BY <1>3
  <2> QED
    BY <2>1, <2>2 DEF ScopeOk, Claiming
<1>9. ASSUME NEW s \in Jobs PROVE Placed(r, sc1, cg, s)
  <2>1. Placed(r, sc, cg, s) /\ sc1[s].phase = sc[s].phase
    BY <1>1, <1>3, Constants
  <2> QED
    BY <1>5, <2>1 DEF Placed
<1>10. \A s \in Scopes : sc1[s].cancelled
  BY <1>3
<1> QED
  BY <1>1, <1>6, <1>7, <1>8, <1>9, <1>10 DEF Good

\* Close goes on.
LEMMA ClosingTo ==
    ASSUME NEW r, NEW sc, NEW st, NEW cl, NEW cg, NEW rc, Good(r, sc, st, cl, cg, rc),
           NEW cg1 \in {"waiting", "forced", "closed"}, Over(cg) => Over(cg1), \A s \in Scopes : sc[s].cancelled,
           NEW x, Core(x, Held(sc)), Idle(x), ~Over(cg1) => Quiet(x), x.closed,
           NEW S, Calm(r, x, S), Steady(r, x), x.reserved = r.reserved, Within(r) => Within(x),
           ~Over(cg1) => \A s \in Jobs : s \in S
    PROVE  Good(x, sc, st, cl, cg1, rc)
<1>1. /\ Shape(sc, st, cl, cg, rc) /\ Core(r, Held(sc))
      /\ \A q \in Steps : StepOk(r, sc, cl, cg, q, st[q])
      /\ OneAcquirer(st)
      /\ \A o \in Scopes : ScopeOk(r, sc, cg, o)
      /\ \A o \in Scopes : Claiming(sc, st, o)
      /\ \A o \in Jobs : Placed(r, sc, cg, o)
      /\ Capped(r, st)
  BY DEF Good, Sound
<1>2. sc \in [Scopes -> ScopeType] /\ x \in Registry
  BY <1>1 DEF Shape, Core, Typed
<1>3. /\ \A p \in Steps : InLine(x, p) <=> InLine(r, p)
      /\ \A p \in Steps : x.got[p] # None => r.got[p] # None \/ HasPlace(x, ScopeOf[p])
      /\ PlacesKept(r, x, S) /\ StillDead(r, x)
  BY DEF Calm, StillDead
<1>4. Shape(sc, st, cl, cg1, rc)
  BY <1>1 DEF Shape
<1>5. Sound(x, sc, cg1)
  <2>1. Settled(x)
    BY DEF Settled
  <2> QED
    BY <2>1 DEF Sound
<1>6. ASSUME NEW q \in Steps PROVE StepOk(x, sc, cl, cg1, q, st[q])
  <2>1. StepOk(r, sc, cl, cg, q, st[q])
    BY <1>1
  <2>2. st[q].pc = "queued" => sc[ScopeOf[q]].claiming /\ sc[ScopeOf[q]].held[TagOf[q]] = None
    BY <2>1 DEF StepOk
  <2>3. StepOk(x, sc, cl, cg, q, st[q])
    BY <1>2, <1>3, <2>2, StepFrame
  <2> QED
    BY <2>3 DEF StepOk
<1>7. ASSUME NEW s \in Scopes PROVE ScopeOk(x, sc, cg1, s)
  <2>1. ScopeOk(r, sc, cg, s)
    BY <1>1
  <2>2. ASSUME NEW e \in Entries, sc[s].owed[e] > 0, r.entry[e].retired PROVE x.entry[e].retired
    <3>1. Held(sc)[s][e] > 0
      BY <1>2, <2>2, HeldType
    <3>2. r.entry[e].refs > 0
      BY <1>1, <3>1, HeldIs
    <3> QED
      BY <1>3, <2>2, <3>2 DEF StillDead
  <2> QED
    BY <2>1, <2>2 DEF ScopeOk
<1>8. ASSUME NEW s \in Jobs PROVE Placed(x, sc, cg1, s)
  <2> SUFFICES ASSUME ~Over(cg1), scene.exclusive, sc[s].phase = "open",
                      (\E e \in Entries : Held(sc)[s][e] > 0) \/ \E p \in Steps : ScopeOf[p] = s /\ x.got[p] # None
               PROVE  HasPlace(x, s)
    BY DEF Placed
  <2>1. HasPlace(r, s) => HasPlace(x, s)
    BY <1>3 DEF PlacesKept
  <2>2. CASE HasPlace(r, s)
    BY <2>1, <2>2
  <2>3. CASE ~HasPlace(r, s)
    <3>1. /\ ~(\E e \in Entries : Held(sc)[s][e] > 0)
          /\ ~(\E p \in Steps : ScopeOf[p] = s /\ r.got[p] # None)
      BY <1>1, <2>3 DEF Placed
    <3>2. PICK p \in Steps : ScopeOf[p] = s /\ x.got[p] # None
      BY <3>1
    <3> QED
      BY <1>3, <3>1, <3>2
  <2> QED
    BY <2>2, <2>3
<1>9. Capped(x, st)
  BY <1>1 DEF Capped
<1>10. Up(x, cl) /\ Billed(x, cl)
  BY <1>2, SteadyFacts
<1> QED
  BY <1>1, <1>4, <1>5, <1>6, <1>7, <1>8, <1>9, <1>10 DEF Good

\* No timer runs once the registry is closed.
LEMMA NoTimers ==
    ASSUME NEW r \in Registry, Idle(r), r.closed
    PROVE  \A e \in Entries : r.entry[e].timer = "none"
BY DEF Idle, Ticks

\* What Close finds idle.
Idlers(r) == {e \in (ToSet(r.members) \cup {r.current}) \ {None} : r.entry[e].refs = 0 /\ r.entry[e].gone = "no"}

\* Close, of the invariant.
LEMMA CloseAllTo ==
    ASSUME NEW r, NEW sc, NEW st, NEW cl, NEW rc, Good(r, sc, st, cl, "no", rc), SceneOk,
           NEW sc1, sc1 = [s \in Scopes |-> [sc[s] EXCEPT !.cancelled = TRUE]],
           NEW y, Shut(r, y, Idlers(r)), NEW x, x = TakeOutAll(y, Idlers(r))
    PROVE  Good(x, sc1, st, cl, "waiting", rc)
<1>1. Good(r, sc1, st, cl, "no", rc) /\ \A s \in Scopes : sc1[s].cancelled
  BY AllCancelled
<1>2. PICK H : H = Held(sc1)
  OBVIOUS
<1>3. ~Over("no") /\ ~Over("waiting")
  BY DEF Over
<1>4. Core(r, H) /\ Idle(r) /\ Quiet(r)
  BY <1>1, <1>2, <1>3 DEF Good, Sound
<1>5. r \in Registry /\ Once(r.members) /\ Members(r) \subseteq Entries /\ r.current \in Entries \cup {None}
  BY <1>4, Parts DEF Core, Typed
<1> DEFINE es == Idlers(r)
<1>6. es \in SUBSET Entries /\ \A f \in es : r.entry[f].refs = 0 /\ r.entry[f].gone = "no"
  BY <1>5 DEF Idlers, Members
<1>7. es \subseteq r.live
  BY <1>4 DEF Idlers, Core, Pool, One, Members
<1>8. ASSUME NEW f \in Entries \ es PROVE r.entry[f].timer = "none"
  <2> SUFFICES ASSUME r.entry[f].timer # "none" PROVE FALSE
    OBVIOUS
  <2>1. r.entry[f].gone = "no" /\ r.entry[f].refs = 0 /\ (f \in Members(r) \/ r.current = f)
    BY <1>4 DEF Core, EntryOk, Alive, Idle, Ticks
  <2>2. f # None
    BY Constants
  <2> QED
    BY <2>1, <2>2 DEF Idlers, Members
<1>9. OutAll(r, x, es) /\ x.closed
  BY <1>5, <1>6, ClosedOut
<1> HIDE DEF es
<1>10. /\ Core(x, H) /\ (Within(r) => Within(x)) /\ (Idle(r) => Idle(x)) /\ Steady(r, x)
       /\ (Quiet(r) => Quiet(x)) /\ Calm(r, x, Scopes)
  BY <1>4, <1>6, <1>7, <1>8, <1>9, OutAllCore
<1>11. x.reserved = r.reserved
  BY <1>9 DEF OutAll
<1>12. \A s \in Jobs : s \in Scopes
  BY Constants
<1> QED
  BY <1>1, <1>2, <1>3, <1>4, <1>9, <1>10, <1>11, <1>12, ClosingTo

\* giveBackHeld, of the invariant.
LEMMA ForceTo ==
    ASSUME NEW r, NEW sc, NEW st, NEW cl, NEW rc, Good(r, sc, st, cl, "waiting", rc), SceneOk,
           NEW x, x = TakeOutAll(r, {e \in r.live : r.entry[e].gone = "no"})
    PROVE  Good(x, sc, st, cl, "forced", rc)
<1>1. Core(r, Held(sc)) /\ Idle(r) /\ r.closed /\ \A s \in Scopes : sc[s].cancelled
  BY DEF Good, Sound, ScopeOk
<1>2. PICK H : H = Held(sc)
  OBVIOUS
<1>3. Core(r, H)
  BY <1>1, <1>2
<1>4. r \in Registry /\ Once(r.members) /\ r.live \subseteq Entries
  BY <1>3, Parts DEF Core, Typed
<1> DEFINE es == {e \in r.live : r.entry[e].gone = "no"}
<1>5. \A e \in Entries : r.entry[e].timer = "none"
  BY <1>1, <1>4, NoTimers
<1>6. es \in SUBSET Entries /\ es \subseteq r.live /\ \A f \in es : r.entry[f].gone = "no" /\ r.entry[f].timer = "none"
  BY <1>4, <1>5
<1>7. x = TakeOutAll(r, es)
  OBVIOUS
<1> HIDE DEF es
<1>8. OutAll(r, x, es) /\ x.closed = r.closed
  BY <1>4, <1>6, <1>7, ForcedOut
<1>9. /\ Core(x, H) /\ (Within(r) => Within(x)) /\ (Idle(r) => Idle(x)) /\ Steady(r, x) /\ Calm(r, x, {})
  BY <1>3, <1>5, <1>6, <1>8, OutAllCore
<1>10. x.reserved = r.reserved /\ Over("forced")
  BY <1>8 DEF OutAll, Over
<1> QED
  BY <1>1, <1>2, <1>8, <1>9, <1>10, ClosingTo

\* Close returns.
LEMMA ReturnTo ==
    ASSUME NEW r, NEW sc, NEW st, NEW cl, NEW cg \in {"waiting", "forced"}, NEW rc, Good(r, sc, st, cl, cg, rc)
    PROVE  Good(r, sc, st, cl, "closed", rc)
<1>1. Core(r, Held(sc)) /\ Idle(r) /\ r.closed /\ \A s \in Scopes : sc[s].cancelled
  BY DEF Good, Sound, ScopeOk
<1>2. Over("closed")
  BY DEF Over
<1>3. Calm(r, r, {}) /\ Steady(r, r)
  BY DEF Calm, Steady, PlacesKept
<1> QED
  BY <1>1, <1>2, <1>3, ClosingTo

-----------------------------------------------------------------------------
(* A step asks for its tag's machine.                                      *)

\* Two changes of one scope are the second.
LEMMA ScopeIsVia ==
    ASSUME NEW sc \in [Scopes -> ScopeType], NEW s \in Scopes, NEW n, NEW m, NEW sc0, NEW sc1,
           ScopeIs(sc, sc0, s, n), ScopeIs(sc, sc1, s, m)
    PROVE  ScopeIs(sc0, sc1, s, m)
BY DEF ScopeIs

\* What a scope knows of a machine that died: it owes it, and has none for the tag.
Owed(n, t, h) == [n EXCEPT !.owed[h] = @ + 1, !.held[t] = None]
\* The books of a scope whose step asks.
Asks(r, n, t) == IF n.held[t] # None /\ r.entry[n.held[t]].retired THEN Owed(n, t, n.held[t]) ELSE n

\* Owed, field by field.
LEMMA OwedIsTyped ==
    ASSUME NEW n \in ScopeType, NEW t \in Tags, NEW h \in Entries
    PROVE  /\ Owed(n, t, h) \in ScopeType
           /\ Owed(n, t, h).phase = n.phase /\ Owed(n, t, h).cancelled = n.cancelled
           /\ Owed(n, t, h).claiming = n.claiming
           /\ Owed(n, t, h).held[t] = None /\ \A u \in Tags \ {t} : Owed(n, t, h).held[u] = n.held[u]
           /\ Owed(n, t, h).owed[h] = n.owed[h] + 1
           /\ \A e \in Entries \ {h} : Owed(n, t, h).owed[e] = n.owed[e]
<1> DEFINE held == [n.held EXCEPT ![t] = None]
           owed == [n.owed EXCEPT ![h] = n.owed[h] + 1]
           m == [n EXCEPT !.owed = owed, !.held = held]
<1>1. n.held \in [Tags -> Entries \cup {None}] /\ n.owed \in [Entries -> Nat]
  BY DEF ScopeType
<1>2. held \in [Tags -> Entries \cup {None}] /\ held[t] = None /\ \A u \in Tags \ {t} : held[u] = n.held[u]
  BY <1>1
<1>3. owed \in [Entries -> Nat] /\ owed[h] = n.owed[h] + 1 /\ \A e \in Entries \ {h} : owed[e] = n.owed[e]
  BY <1>1
<1>4. Owed(n, t, h) = m
  BY <1>1 DEF Owed, ScopeType
<1> HIDE DEF held, owed
<1>5. /\ m \in ScopeType /\ m.phase = n.phase /\ m.cancelled = n.cancelled /\ m.claiming = n.claiming
      /\ m.held = held /\ m.owed = owed
  BY <1>1, <1>2, <1>3 DEF ScopeType
<1> HIDE DEF m
<1> QED
  BY <1>2, <1>3, <1>4, <1>5

\* A step asks for its tag's machine: one that died is owed its release first.
LEMMA Ready ==
    ASSUME NEW r, NEW sc, NEW st, NEW cl, NEW cg, NEW rc, Good(r, sc, st, cl, cg, rc),
           NEW s \in Scopes, NEW t \in Tags, sc[s].held[t] # None => r.entry[sc[s].held[t]].retired,
           NEW n, n = Asks(r, sc[s], t)
    PROVE  \E sc0 : /\ ScopeIs(sc, sc0, s, n) /\ Good(r, sc0, st, cl, cg, rc) /\ sc0 \in [Scopes -> ScopeType]
                    /\ sc0[s] = n /\ n \in ScopeType /\ n.held[t] = None
<1>1. sc \in [Scopes -> ScopeType] /\ sc[s] \in ScopeType /\ sc[s].held[t] \in Entries \cup {None}
  BY DEF Good, Shape, ScopeType
<1>2. CASE sc[s].held[t] = None
  <2>1. n = sc[s]
    BY <1>2 DEF Asks
  <2>2. ScopeIs(sc, sc, s, n)
    BY <1>1, <2>1 DEF ScopeIs
  <2> QED
    BY <1>1, <1>2, <2>1, <2>2
<1>3. CASE sc[s].held[t] # None
  <2> DEFINE h == sc[s].held[t]
  <2>1. h \in Entries /\ r.entry[h].retired
    BY <1>1, <1>3
  <2>2. n = Owed(sc[s], t, h)
    BY <1>3, <2>1 DEF Asks
  <2>3. /\ n \in ScopeType /\ n.phase = sc[s].phase /\ n.cancelled = sc[s].cancelled
        /\ n.claiming = sc[s].claiming
        /\ n.held[t] = None /\ \A u \in Tags \ {t} : n.held[u] = sc[s].held[u]
        /\ n.owed[h] = sc[s].owed[h] + 1
        /\ \A e \in Entries \ {h} : n.owed[e] = sc[s].owed[e]
    BY <1>1, <2>1, <2>2, OwedIsTyped
  <2>4. PICK sc0 : ScopeIs(sc, sc0, s, n)
    BY DEF ScopeIs
  <2>5. Good(r, sc0, st, cl, cg, rc)
    BY <2>1, <2>3, <2>4, Owing
  <2>6. sc0 \in [Scopes -> ScopeType] /\ sc0[s] = n
    BY <1>1, <2>3, <2>4, ScopeIsTyped
  <2> QED
    BY <2>3, <2>4, <2>5, <2>6
<1> QED
  BY <1>2, <1>3

\* A job whose machines are all dead, and that waits for none, has no machine in the pool.
LEMMA Homeless ==
    ASSUME NEW r, NEW sc, NEW st, NEW cl, NEW cg, NEW rc, Good(r, sc, st, cl, cg, rc),
           NEW s \in Scopes, sc[s].phase = "open", ~sc[s].claiming,
           \A t \in Tags : sc[s].held[t] # None =>
               r.entry[sc[s].held[t]].retired \/ r.entry[sc[s].held[t]].gone # "no"
    PROVE  /\ \A q \in Steps : InLine(r, q) => ScopeOf[q] # s
           /\ \A f \in Members(r) : r.entry[f].holder # s
<1>1. /\ \A q \in Steps : StepOk(r, sc, cl, cg, q, st[q])
      /\ ScopeOk(r, sc, cg, s) /\ sc \in [Scopes -> ScopeType] /\ Core(r, Held(sc))
  BY DEF Good, Shape, Sound
<1>2. PICK H : H = Held(sc)
  OBVIOUS
<1>3. Core(r, H) /\ Pool(r) /\ Members(r) \subseteq Entries
  BY <1>1, <1>2, Parts DEF Core, Typed
<1>4. \A q \in Steps : InLine(r, q) => ScopeOf[q] # s
  BY <1>1 DEF StepOk
<1>5. ASSUME NEW f \in Members(r), r.entry[f].holder = s PROVE FALSE
  <2>1. f \in Entries /\ r.entry[f].gone = "no" /\ ~r.entry[f].retired /\ s # Nobody /\ f # None
    BY <1>3, Constants DEF Pool
  <2>2. H[s][f] > 0 \/ \E q \in Steps : r.got[q] = f /\ ScopeOf[q] = s
    BY <1>3, <1>5, <2>1, HolderIs
  <2>3. ~(\E q \in Steps : r.got[q] = f /\ ScopeOf[q] = s)
    BY <1>4, <2>1 DEF InLine
  <2>4. (\E t \in Tags : sc[s].held[t] = f) \/ sc[s].owed[f] > 0
    BY <1>1, <1>2, <2>1, <2>2, <2>3, HeldType
  <2>5. ~(sc[s].owed[f] > 0)
    BY <1>1, <2>1 DEF ScopeOk
  <2> QED
    BY <2>1, <2>4, <2>5
<1> QED
  BY <1>4, <1>5

\* A step waits for a park to land, or for its sibling's claim.
LEMMA ToWaiting ==
    ASSUME NEW r, NEW sc, NEW st, NEW cl, NEW cg, NEW rc, Good(r, sc, st, cl, cg, rc), SceneOk,
           NEW p \in Steps, st[p].pc \in {"new", "claimed"},
           NEW n \in StepType, NEW st1, Became(st, st1, p, n), n.tries = st[p].tries,
           (n.pc = "sibling" /\ sc[ScopeOf[p]].claiming) \/ (n.pc = "landing" /\ ~scene.exclusive)
    PROVE  Good(r, sc, st1, cl, cg, rc)
<1>1. StepOk(r, sc, cl, cg, p, st[p]) /\ Claiming(sc, st, ScopeOf[p])
  BY Constants DEF Good
<1>2. StepOk(r, sc, cl, cg, p, n)
  BY <1>1 DEF StepOk, On, Claiming
<1>3. scene.cast \subseteq Steps
  BY DEF SceneOk, SceneType
<1> QED
  BY <1>2, <1>3, StepTo

\* The scope's tag names a machine.
Names(n, m, t, e) == m = [n EXCEPT !.held[t] = e]

\* A tag names a machine: the scope's books.
LEMMA NamesIs ==
    ASSUME NEW n \in ScopeType, NEW t \in Tags, NEW e \in Entries, NEW m, Names(n, m, t, e)
    PROVE  /\ m \in ScopeType /\ m.phase = n.phase /\ m.cancelled = n.cancelled /\ m.claiming = n.claiming
           /\ m.owed = n.owed /\ m.held[t] = e /\ \A u \in Tags \ {t} : m.held[u] = n.held[u]
<1> DEFINE held == [n.held EXCEPT ![t] = e]
<1>1. n.held \in [Tags -> Entries \cup {None}]
  BY DEF ScopeType
<1>2. held \in [Tags -> Entries \cup {None}] /\ held[t] = e /\ \A u \in Tags \ {t} : held[u] = n.held[u]
  BY <1>1
<1>3. m = [n EXCEPT !.held = held]
  BY DEF Names
<1> HIDE DEF held
<1>4. /\ m \in ScopeType /\ m.phase = n.phase /\ m.cancelled = n.cancelled /\ m.claiming = n.claiming
      /\ m.owed = n.owed /\ m.held = held
  BY <1>2, <1>3 DEF ScopeType
<1> QED
  BY <1>2, <1>4

\* The tag names a machine already.
LEMMA AgainTo ==
    ASSUME NEW r, NEW sc, NEW st, NEW cl, NEW cg, NEW rc, Good(r, sc, st, cl, cg, rc), SceneOk,
           NEW p \in Steps, st[p].pc = "new", NEW h \in Entries, sc[ScopeOf[p]].held[TagOf[p]] = h,
           NEW m, Names(sc[ScopeOf[p]], m, TagOf[p], h), NEW sc1, ScopeIs(sc, sc1, ScopeOf[p], m),
           NEW n \in StepType, NEW st1, Became(st, st1, p, n), n.pc = "claimed", n.at = h, n.tries = st[p].tries
    PROVE  Good(r, sc1, st1, cl, cg, rc)
<1> DEFINE s == ScopeOf[p]
<1>1. sc \in [Scopes -> ScopeType] /\ s \in Scopes /\ TagOf[p] \in Tags /\ ScopeOk(r, sc, cg, s)
  BY Constants DEF Good, Shape
<1>2. sc[s] \in ScopeType
  BY <1>1
<1>3. /\ m \in ScopeType /\ m.phase = sc[s].phase /\ m.cancelled = sc[s].cancelled /\ m.claiming = sc[s].claiming
      /\ m.owed = sc[s].owed /\ m.held[TagOf[p]] = h /\ \A u \in Tags \ {TagOf[p]} : m.held[u] = sc[s].held[u]
  BY <1>1, <1>2, NamesIs
<1>4. \A u \in Tags : m.held[u] = sc[s].held[u]
  BY <1>3
<1> HIDE DEF s
<1>5. sc1 \in [Scopes -> ScopeType] /\ sc1[s] = m
  BY <1>1, <1>3, ScopeIsTyped DEF s
<1>6. \A e \in Entries : Held(sc1)[s][e] = Held(sc)[s][e]
  BY <1>1, <1>3, <1>4, <1>5 DEF Held, HeldIn
<1>7. ScopeOk(r, sc1, cg, s)
  BY <1>1, <1>3, <1>4, <1>5 DEF ScopeOk
<1>8. Good(r, sc1, st, cl, cg, rc)
  <2>1. m \in ScopeType /\ m.claiming = sc[s].claiming /\ m.phase = sc[s].phase /\ ScopeIs(sc, sc1, s, m)
    BY <1>3 DEF s
  <2>2. \A t \in Tags : m.held[t] \in {sc[s].held[t], None}
    BY <1>4
  <2> QED
    BY <1>1, <1>6, <1>7, <2>1, <2>2, ScopeTo
<1>9. StepOk(r, sc1, cl, cg, p, st[p])
  BY <1>8 DEF Good
<1>10. sc1[s].held[TagOf[p]] = h
  BY <1>3, <1>5
<1>11. Held(sc1)[s][h] > 0
  BY <1>1, <1>5, <1>10, HeldType
<1>12. StepOk(r, sc1, cl, cg, p, n)
  BY <1>9, <1>11 DEF StepOk, On, s
<1>13. scene.cast \subseteq Steps
  BY DEF SceneOk, SceneType
<1> QED
  BY <1>8, <1>12, <1>13, StepTo

\* And its step's tag names it.
NamedIn(sc, sc1, p, e) ==
    \E m : Names(sc[ScopeOf[p]], m, TagOf[p], e) /\ ScopeIs(sc, sc1, ScopeOf[p], m)

\* ClaimTo, of the books as the model writes them.
LEMMA HoldTo ==
    ASSUME NEW r, NEW sc, NEW st, NEW cl, NEW cg, NEW rc, Good(r, sc, st, cl, cg, rc), SceneOk,
           NEW p \in Steps, Asked(sc, st, p), NEW e, NEW x, Takes(r, x, sc, cg, ScopeOf[p], e),
           NEW sc1, NamedIn(sc, sc1, p, e), NEW st1, MovedTo(st, st1, p, "claimed", e)
    PROVE  Good(x, sc1, st1, cl, cg, rc)
<1>1. sc \in [Scopes -> ScopeType] /\ st \in [Steps -> StepType] /\ ScopeOf[p] \in Scopes /\ TagOf[p] \in Tags
  BY Constants DEF Good, Shape
<1>2. sc[ScopeOf[p]] \in ScopeType /\ e \in Entries
  BY <1>1 DEF Takes
<1>3. PICK m : Names(sc[ScopeOf[p]], m, TagOf[p], e) /\ ScopeIs(sc, sc1, ScopeOf[p], m)
  BY DEF NamedIn
<1>4. Tagged(sc, sc1, ScopeOf[p], TagOf[p], e, m)
  BY <1>1, <1>2, <1>3, NamesIs DEF Tagged
<1>7. e \in Entries \cup {None}
  BY <1>2
<1>8. "claimed" \in Places
  BY DEF Places
<1>9. \E n \in StepType : Became(st, st1, p, n) /\ n.pc = "claimed" /\ n.at = e /\ n.tries = st[p].tries
  BY <1>1, <1>7, <1>8, StepMoved
<1>5. PICK n \in StepType : Became(st, st1, p, n) /\ n.pc = "claimed" /\ n.at = e
  BY <1>9
<1>6. HasClaimed(st, st1, p, e, n)
  BY <1>5 DEF HasClaimed
<1> QED
  BY <1>4, <1>6, ClaimTo

\* claimPool: the scope has a machine of this pool.
LEMMA OwnTakes ==
    ASSUME NEW r, NEW sc, NEW st, NEW cl, NEW cg, NEW rc, Good(r, sc, st, cl, cg, rc), SceneOk, scene.exclusive,
           NEW s \in Scopes, sc[s].phase = "open", NEW t \in Tags, NEW e \in Entries, sc[s].held[t] = e,
           r.entry[e].gone = "no", NEW x, x = Count(r, e, s)
    PROVE  Takes(r, x, sc, cg, s, e)
<1>1. /\ sc \in [Scopes -> ScopeType] /\ Core(r, Held(sc)) /\ Settled(r)
      /\ (s \in Jobs => Placed(r, sc, cg, s)) /\ (s \in Jobs <=> ~Rides(s))
  BY Constants DEF Good, Shape, Sound
<1>2. PICK H : H = Held(sc)
  OBVIOUS
<1>3. Core(r, H) /\ H[s][e] > 0
  BY <1>1, <1>2, HeldType
<1>4. /\ Core(x, More(H, s, e)) /\ Taken(r, x)
      /\ Settled(r) => Settled(x)
      /\ Within(r) => Within(x)
      /\ x.reserved = r.reserved
  BY <1>3, OwnIs
<1>5. ~Over(cg) /\ ~Rides(s) => HasPlace(r, s)
  BY <1>1, <1>2, <1>3 DEF Placed
<1>6. ~Over(cg) /\ ~Rides(s) => HasPlace(x, s)
  BY <1>4, <1>5 DEF Taken, PlacesKept
<1> QED
  BY <1>1, <1>2, <1>4, <1>6 DEF Takes

\* take, by a check.
LEMMA RideTakes ==
    ASSUME NEW r, NEW sc, NEW st, NEW cl, NEW cg, NEW rc, Good(r, sc, st, cl, cg, rc), SceneOk, scene.exclusive,
           NEW s \in Scopes, Rides(s), Unused(r) # {}, NEW x, CountsAt(r, x, FALSE, s)
    PROVE  Takes(r, x, sc, cg, s, Which(r, FALSE))
<1>1. Core(r, Held(sc)) /\ Settled(r)
  BY DEF Good, Sound
<1>2. PICK H : H = Held(sc)
  OBVIOUS
<1>3. Core(r, H)
  BY <1>1, <1>2
<1> DEFINE e == Which(r, FALSE)
<1>4. /\ Core(x, More(H, s, e)) /\ Taken(r, x) /\ e \in Entries
      /\ Settled(r) => Settled(x)
      /\ x.reserved = r.reserved
  BY <1>3, RideIs DEF With, Which, CountsAt
<1> HIDE DEF e
<1>5. Core(x, More(Held(sc), s, e))
  BY <1>2, <1>4
<1> QED
  BY <1>1, <1>4, <1>5 DEF Takes, e

\* No step of the scope is in line, and no machine of the pool is its.
Outside(r, s) ==
    /\ \A q \in Steps : InLine(r, q) => ScopeOf[q] # s
    /\ \A f \in Members(r) : r.entry[f].holder # s

\* take, by a job: its kept place, or its turn.
LEMMA TurnTakes ==
    ASSUME NEW r, NEW sc, NEW st, NEW cl, NEW cg, NEW rc, Good(r, sc, st, cl, cg, rc), SceneOk, scene.exclusive,
           NEW s \in Jobs, Unused(r) # {}, Outside(r, s), NEW y, Unkept(r, y, s),
           r.reserved[s] > 0 \/ r.waiters = <<>>,
           Warmest(y, TRUE) # None \/ r.reserved[s] > 0 \/ Room(y),
           NEW x, CountsAt(y, x, TRUE, s)
    PROVE  Takes(r, x, sc, cg, s, Which(y, TRUE))
<1>1. s \in Scopes /\ Core(r, Held(sc)) /\ Settled(r) /\ Waiting(r) \subseteq Steps
  BY Constants, Parts DEF Good, Sound, Core, Typed
<1>2. PICK H : H = Held(sc)
  OBVIOUS
<1>3. Core(r, H)
  BY <1>1, <1>2
<1>4. (\A q \in Waiting(r) : ScopeOf[q] # s) /\ \A f \in Members(r) : r.entry[f].holder # s
  BY <1>1 DEF InLine, Outside
<1> DEFINE e == Which(y, TRUE)
<1>5. Turned(r, y, x, H, s, e)
  BY <1>1, <1>3, <1>4, TurnIs
<1> HIDE DEF e
<1>6. /\ Core(x, More(H, s, e)) /\ Taken(r, x) /\ e \in Entries
      /\ Settled(r) => Settled(x)
      /\ scene.max > 0 /\ Within(r) => Within(x)
      /\ HasPlace(x, s)
      /\ x.reserved = y.reserved
  BY <1>5 DEF Turned
<1>7. ASSUME NEW o \in Scopes, x.reserved[o] > 0 PROVE r.reserved[o] > 0
  <2>1. y.reserved[s] = 0 /\ \A u \in Scopes \ {s} : y.reserved[u] = r.reserved[u]
    BY DEF Unkept
  <2>2. x.reserved[o] = y.reserved[o]
    BY <1>6
  <2>3. o # s
    BY <1>7, <2>1, <2>2
  <2>4. y.reserved[o] = r.reserved[o]
    BY <2>1, <2>3
  <2> QED
    BY <1>7, <2>2, <2>4
<1>8. Core(x, More(Held(sc), s, e)) /\ Settled(x)
  BY <1>1, <1>2, <1>6
<1>9. /\ scene.exclusive /\ ~Rides(s) /\ scene.max > 0 /\ Within(r) => Within(x)
      /\ ~Over(cg) /\ scene.exclusive /\ ~Rides(s) => HasPlace(x, s)
      /\ \A o \in Scopes : x.reserved[o] > 0 => r.reserved[o] > 0
  BY <1>6, <1>7
<1> QED
  BY <1>6, <1>8, <1>9 DEF Takes, e

\* hold: the mapping's one machine.
LEMMA SharedTakes ==
    ASSUME NEW r, NEW sc, NEW st, NEW cl, NEW cg, NEW rc, Good(r, sc, st, cl, cg, rc), SceneOk, ~scene.exclusive,
           NEW s \in Scopes, Unused(r) # {}, r.current # None => r.entry[r.current].gone = "no",
           NEW y, y = (IF r.current = None THEN [Born(r) EXCEPT !.current = FreshEntry(r)] ELSE r),
           NEW x, x = Count(y, y.current, s)
    PROVE  Takes(r, x, sc, cg, s, y.current) /\ ~sc[s].claiming
<1>1. /\ Core(r, Held(sc)) /\ Claiming(sc, st, s) /\ Pool(r)
      /\ \A q \in Steps : StepOk(r, sc, cl, cg, q, st[q])
  BY Constants DEF Good, Sound, Core
<1>2. PICK H : H = Held(sc)
  OBVIOUS
<1>3. Core(r, H)
  BY <1>1, <1>2
<1> DEFINE e == y.current
<1>4. /\ Core(x, More(H, s, e)) /\ Taken(r, x) /\ e \in Entries
      /\ x.reserved = r.reserved /\ Settled(x)
  BY <1>1, <1>3, SharedIs
<1> HIDE DEF e
<1>5. Core(x, More(Held(sc), s, e))
  BY <1>2, <1>4
<1>6. Takes(r, x, sc, cg, s, e)
  BY <1>4, <1>5 DEF Takes
<1>7. ~sc[s].claiming
  <2>1. Waiting(r) = {}
    <3>1. r.waiters = <<>> /\ r.waiters \in Seq(Steps)
      BY <1>1, Parts DEF Pool, Core, Typed
    <3> QED
      BY <3>1, SetOf DEF Waiting
  <2>2. \A q \in Steps : ~InLine(r, q)
    BY <1>1, <2>1 DEF InLine, Pool
  <2> QED
    BY <1>1, <2>2 DEF Claiming, StepOk
<1> QED
  BY <1>6, <1>7 DEF e

-----------------------------------------------------------------------------
(* Every action keeps the invariant.                                       *)

\* The invariant, of the state.
Fine == Good(reg, scope, step, cloud, closing, reclaims)

\* The bound on identifiers: there are enough for every waiter, and one more.
LEMMA SpareIs ==
    ASSUME Fine, Spare
    PROVE  Stocked(reg) /\ Unused(reg) # {}
<1>1. reg \in Registry
  BY DEF Fine, Good, Sound, Core, Typed
<1>2. Len(reg.waiters) \in Nat /\ IsFiniteSet(Unused(reg)) /\ Cardinality(Unused(reg)) \in Nat
  BY <1>1, Sizes
<1>3. Cardinality(Unused(reg)) > Len(reg.waiters)
  BY DEF Spare
<1>4. Unused(reg) # {}
  BY <1>2, <1>3, FS_EmptySet
<1> QED
  BY <1>2, <1>3, <1>4 DEF Stocked

\* Await, as a change of one scope and one step.
LEMMA AwaitIs ==
    ASSUME NEW p, NEW sc, NEW pc, NEW e, Await(p, sc, pc, e)
    PROVE  ScopeIs(scope, scope', ScopeOf[p], sc) /\ MovedTo(step, step', p, pc, e)
BY DEF Await, ScopeIs, MovedTo

\* Claimed, as a change of one scope and one step.
LEMMA ClaimedIs ==
    ASSUME NEW p, NEW sc, NEW e, Claimed(p, sc, e)
    PROVE  /\ \E m : Names(sc, m, TagOf[p], e) /\ ScopeIs(scope, scope', ScopeOf[p], m)
           /\ MovedTo(step, step', p, "claimed", e)
<1> DEFINE m == [sc EXCEPT !.held[TagOf[p]] = e]
<1>1. Names(sc, m, TagOf[p], e)
  BY DEF Names
<1>2. ScopeIs(scope, scope', ScopeOf[p], m)
  BY DEF Claimed, ScopeIs
<1>3. MovedTo(step, step', p, "claimed", e)
  BY DEF Claimed, MovedTo
<1> HIDE DEF m
<1> QED
  BY <1>1, <1>2, <1>3

\* A step asks, its scope's books being sc: a dead machine is owed already.
Asking(p, sc, sc0) ==
    /\ p \in Steps /\ Good(reg, sc0, step, cloud, closing, reclaims)
    /\ ScopeIs(scope, sc0, ScopeOf[p], sc) /\ scope \in [Scopes -> ScopeType]
    /\ sc0[ScopeOf[p]] = sc /\ sc \in ScopeType /\ sc.held[TagOf[p]] = None
    /\ step[p].pc \in {"new", "claimed"} /\ sc.phase = "open"

\* A step that asks claims a machine that is counted for it.
LEMMA ClaimedTo ==
    ASSUME NEW p, NEW sc, NEW sc0, Asking(p, sc, sc0), SceneOk, ~sc.claiming,
           NEW e, Claimed(p, sc, e), Takes(reg, reg', sc0, closing, ScopeOf[p], e)
    PROVE  Good(reg', scope', step', cloud, closing, reclaims)
<1>1. /\ p \in Steps /\ Good(reg, sc0, step, cloud, closing, reclaims)
      /\ ScopeIs(scope, sc0, ScopeOf[p], sc) /\ scope \in [Scopes -> ScopeType]
      /\ sc0[ScopeOf[p]] = sc /\ sc \in ScopeType /\ sc.held[TagOf[p]] = None
      /\ step[p].pc \in {"new", "claimed"}
  BY DEF Asking
<1>2. Asked(sc0, step, p)
  BY <1>1 DEF Asked
<1>3. PICK m : Names(sc, m, TagOf[p], e) /\ ScopeIs(scope, scope', ScopeOf[p], m)
  BY ClaimedIs
<1>4. ScopeOf[p] \in Scopes
  BY <1>1, Constants
<1>5. ScopeIs(sc0, scope', ScopeOf[p], m)
  BY <1>1, <1>3, <1>4, ScopeIsVia
<1>6. NamedIn(sc0, scope', p, e)
  BY <1>1, <1>3, <1>5 DEF NamedIn
<1>7. MovedTo(step, step', p, "claimed", e)
  BY ClaimedIs
<1> QED
  BY <1>1, <1>2, <1>6, <1>7, HoldTo

\* A step that asks waits for a park or a sibling.
LEMMA AwaitTo ==
    ASSUME NEW p, NEW sc, NEW sc0, Asking(p, sc, sc0), SceneOk,
           NEW pc, NEW e \in Entries \cup {None}, Await(p, sc, pc, e),
           (pc = "sibling" /\ sc.claiming) \/ (pc = "landing" /\ ~scene.exclusive)
    PROVE  Good(reg, scope', step', cloud, closing, reclaims)
<1>1. /\ p \in Steps /\ Good(reg, sc0, step, cloud, closing, reclaims)
      /\ ScopeIs(scope, sc0, ScopeOf[p], sc)
      /\ sc0[ScopeOf[p]] = sc
      /\ step[p].pc \in {"new", "claimed"}
  BY DEF Asking
<1>2. scope' = sc0
  BY <1>1, AwaitIs DEF ScopeIs
<1>3. step \in [Steps -> StepType]
  BY <1>1 DEF Good, Shape
<1>4. MovedTo(step, step', p, pc, e) /\ pc \in Places
  BY AwaitIs DEF Places
<1>5. PICK n \in StepType : Became(step, step', p, n) /\ n.pc = pc /\ n.at = e /\ n.tries = step[p].tries
  BY <1>1, <1>3, <1>4, StepMoved
<1>6. (n.pc = "sibling" /\ sc0[ScopeOf[p]].claiming) \/ (n.pc = "landing" /\ ~scene.exclusive)
  BY <1>1, <1>5
<1>7. Good(reg, sc0, step', cloud, closing, reclaims)
  BY <1>1, <1>5, <1>6, ToWaiting
<1> QED
  BY <1>2, <1>7

\* claim, of the mapping's one machine.
LEMMA SharedKeeps ==
    ASSUME NEW p, NEW sc, NEW sc0, Asking(p, sc, sc0), SceneOk, ~scene.exclusive, Unused(reg) # {},
           ClaimShared(p, sc)
    PROVE  Good(reg', scope', step', cloud, closing, reclaims)
<1>1. /\ p \in Steps /\ Good(reg, sc0, step, cloud, closing, reclaims) /\ sc0[ScopeOf[p]] = sc
      /\ ScopeOf[p] \in Scopes
  BY Constants DEF Asking
<1>2. CASE reg.current # None /\ reg.entry[reg.current].gone # "no"
  <2>1. Await(p, sc, "landing", reg.current) /\ reg' = reg
    BY <1>2 DEF ClaimShared
  <2>2. reg.current \in Entries \cup {None}
    BY <1>1, Parts DEF Good, Sound, Core, Typed
  <2>3. Good(reg, scope', step', cloud, closing, reclaims)
    BY <2>1, <2>2, AwaitTo
  <2> QED
    BY <2>1, <2>3
<1>3. CASE ~(reg.current # None /\ reg.entry[reg.current].gone # "no")
  <2> DEFINE y == IF reg.current = None THEN [Born(reg) EXCEPT !.current = FreshEntry(reg)] ELSE reg
  <2>1. reg' = Count(y, y.current, ScopeOf[p]) /\ Claimed(p, sc, y.current)
    BY <1>3 DEF ClaimShared
  <2>2. reg.current # None => reg.entry[reg.current].gone = "no"
    BY <1>3
  <2>3. Takes(reg, reg', sc0, closing, ScopeOf[p], y.current) /\ ~sc.claiming
    BY <1>1, <2>1, <2>2, SharedTakes
  <2> HIDE DEF y
  <2> QED
    BY <2>1, <2>3, ClaimedTo
<1> QED
  BY <1>2, <1>3

\* A step of a job joins the queue.
Joining(p, sc) == Await(p, [sc EXCEPT !.claiming = TRUE], "queued", None)
\* The queue with one more.
Enqueued(r, x, p) == x = [r EXCEPT !.waiters = Append(@, p)]

\* Such a queue, field by field.
LEMMA EnqueuedIs ==
    ASSUME NEW r \in Registry, NEW p \in Steps, NEW x, Enqueued(r, x, p)
    PROVE  Queued(r, x, p)
<1>1. Append(r.waiters, p) \in Seq(Steps)
  BY Parts
<1> QED
  BY <1>1 DEF Enqueued, Queued, Registry

\* A step that asks joins the queue.
LEMMA JoinTo ==
    ASSUME NEW p, NEW sc, NEW sc0, Asking(p, sc, sc0), SceneOk, scene.exclusive, ~sc.claiming,
           ScopeOf[p] \in Jobs, Outside(reg, ScopeOf[p]), reg.reserved[ScopeOf[p]] = 0,
           reg.waiters = <<>> => Warmest(reg, TRUE) = None /\ ~Room(reg),
           Enqueued(reg, reg', p), Joining(p, sc)
    PROVE  Good(reg', scope', step', cloud, closing, reclaims)
<1>1. /\ p \in Steps /\ Good(reg, sc0, step, cloud, closing, reclaims)
      /\ ScopeIs(scope, sc0, ScopeOf[p], sc) /\ scope \in [Scopes -> ScopeType]
      /\ sc0[ScopeOf[p]] = sc /\ sc \in ScopeType /\ sc.held[TagOf[p]] = None
      /\ step[p].pc \in {"new", "claimed"} /\ ScopeOf[p] \in Scopes
  BY Constants DEF Asking
<1>2. reg \in Registry /\ step \in [Steps -> StepType]
  BY <1>1 DEF Good, Shape, Sound, Core, Typed
<1>3. Queued(reg, reg', p)
  BY <1>1, <1>2, EnqueuedIs
<1> DEFINE m == [sc EXCEPT !.claiming = TRUE]
<1>4. /\ m \in ScopeType /\ m.phase = sc.phase /\ m.cancelled = sc.cancelled
      /\ m.owed = sc.owed /\ m.held = sc.held /\ m.claiming
  BY <1>1 DEF ScopeType
<1>5. ScopeIs(scope, scope', ScopeOf[p], m) /\ MovedTo(step, step', p, "queued", None)
  BY AwaitIs DEF Joining
<1> HIDE DEF m
<1>6. ScopeIs(sc0, scope', ScopeOf[p], m)
  BY <1>1, <1>5, ScopeIsVia
<1>7. "queued" \in Places /\ None \in Entries \cup {None}
  BY DEF Places
<1>8. PICK n \in StepType : Became(step, step', p, n) /\ n.pc = "queued" /\ n.at = None /\ n.tries = step[p].tries
  BY <1>1, <1>2, <1>5, <1>7, StepMoved
<1>9. \A f \in Members(reg) : reg.entry[f].holder # ScopeOf[p]
  BY DEF Outside
<1> QED
  BY <1>1, <1>3, <1>4, <1>6, <1>8, <1>9, QueueTo

\* take, by a job (TakeTurn).
LEMMA TurnKeeps ==
    ASSUME NEW p, NEW sc, NEW sc0, Asking(p, sc, sc0), SceneOk, scene.exclusive, Unused(reg) # {}, ~sc.claiming,
           ScopeOf[p] \in Jobs, Outside(reg, ScopeOf[p]), TakeTurn(p, sc)
    PROVE  Good(reg', scope', step', cloud, closing, reclaims)
<1> DEFINE s == ScopeOf[p]
           r == IF reg.reserved[s] > 0 THEN [reg EXCEPT !.reserved[s] = @ - 1] ELSE reg
           kept == reg.reserved[s] > 0
           take == (kept \/ r.waiters = <<>>) /\ (Warmest(r, TRUE) # None \/ kept \/ Room(r))
<1>1. /\ p \in Steps /\ Good(reg, sc0, step, cloud, closing, reclaims) /\ s \in Scopes
  BY Constants DEF Asking
<1>2. reg \in Registry /\ reg.reserved[s] \in 0..1
  BY <1>1, Parts DEF Good, Sound, Core, Typed
<1>3. Unkept(reg, r, s) /\ (~kept => r = reg /\ reg.reserved[s] = 0)
  <2>1. CASE kept
    <3>1. reg.reserved[s] - 1 = 0
      BY <1>2, <2>1
    <3>2. r = [reg EXCEPT !.reserved[s] = reg.reserved[s] - 1]
      BY <2>1
    <3>3. ReservedSet(reg, r, s, 0)
      BY <3>1, <3>2 DEF ReservedSet
    <3> QED
      BY <1>1, <1>2, <2>1, <3>3, UnkeptIs
  <2>2. CASE ~kept
    <3>1. r = reg /\ reg.reserved[s] = 0
      BY <1>2, <2>2
    <3> QED
      BY <1>2, <3>1 DEF Unkept
  <2> QED
    BY <2>1, <2>2
<1>4. /\ take => CountsAt(r, reg', TRUE, s) /\ Claimed(p, sc, Which(r, TRUE))
      /\ ~take => Enqueued(r, reg', p) /\ Joining(p, sc)
  BY DEF TakeTurn, CountsAt, With, Which, Enqueued, Joining
<1>5. r.waiters = reg.waiters
  BY <1>3 DEF Unkept
<1> HIDE DEF r
<1>6. CASE take
  <2>1. /\ kept \/ reg.waiters = <<>>
        /\ Warmest(r, TRUE) # None \/ kept \/ Room(r)
        /\ CountsAt(r, reg', TRUE, s) /\ Claimed(p, sc, Which(r, TRUE))
    BY <1>4, <1>5, <1>6
  <2>2. Takes(reg, reg', sc0, closing, s, Which(r, TRUE))
    BY <1>1, <1>3, <2>1, TurnTakes
  <2> QED
    BY <2>1, <2>2, ClaimedTo
<1>7. CASE ~take
  <2>1. ~kept /\ r = reg /\ reg.reserved[s] = 0
    BY <1>3, <1>7
  <2>2. reg.waiters = <<>> => Warmest(reg, TRUE) = None /\ ~Room(reg)
    BY <1>7, <2>1
  <2>3. Enqueued(reg, reg', p) /\ Joining(p, sc)
    BY <1>4, <1>7, <2>1
  <2> QED
    BY <2>1, <2>2, <2>3, JoinTo
<1> QED
  BY <1>6, <1>7

\* claimPool.
LEMMA PoolKeeps ==
    ASSUME NEW p, NEW sc, NEW sc0, Asking(p, sc, sc0), SceneOk, scene.exclusive, Unused(reg) # {},
           ClaimPool(p, sc)
    PROVE  Good(reg', scope', step', cloud, closing, reclaims)
<1> DEFINE s == ScopeOf[p]
           own == {o \in {sc.held[t] : t \in Tags} \ {None} : ~reg.entry[o].retired /\ reg.entry[o].gone = "no"}
<1>1. /\ p \in Steps /\ Good(reg, sc0, step, cloud, closing, reclaims) /\ s \in Scopes
      /\ sc0[s] = sc /\ sc \in ScopeType /\ sc.phase = "open" /\ (s \in Jobs <=> ~Rides(s))
  BY Constants DEF Asking
<1>2. CASE sc.claiming
  <2>1. Await(p, sc, "sibling", None) /\ reg' = reg
    BY <1>2 DEF ClaimPool
  <2>2. Good(reg, scope', step', cloud, closing, reclaims)
    BY <1>2, <2>1, AwaitTo
  <2> QED
    BY <2>1, <2>2
<1>3. CASE ~sc.claiming /\ own # {}
  <2>1. PICK o \in own : reg' = Count(reg, o, s) /\ Claimed(p, sc, o)
    BY <1>3 DEF ClaimPool
  <2>2. PICK t \in Tags : sc.held[t] = o
    BY <2>1
  <2>3. o # None /\ reg.entry[o].gone = "no"
    BY <2>1
  <2>4. o \in Entries
    BY <1>1, <2>2, <2>3 DEF ScopeType
  <2>5. sc0[s].phase = "open" /\ sc0[s].held[t] = o
    BY <1>1, <2>2
  <2>6. Takes(reg, reg', sc0, closing, s, o)
    BY <1>1, <2>1, <2>3, <2>4, <2>5, OwnTakes
  <2> QED
    BY <1>3, <2>1, <2>6, ClaimedTo
<1>4. CASE ~sc.claiming /\ own = {} /\ Rides(s)
  <2>1. CountsAt(reg, reg', FALSE, s) /\ Claimed(p, sc, Which(reg, FALSE))
    BY <1>4 DEF ClaimPool, Ride, CountsAt, With, Which
  <2>2. Takes(reg, reg', sc0, closing, s, Which(reg, FALSE))
    BY <1>1, <1>4, <2>1, RideTakes
  <2> QED
    BY <1>4, <2>1, <2>2, ClaimedTo
<1>5. CASE ~sc.claiming /\ own = {} /\ ~Rides(s)
  <2>1. TakeTurn(p, sc)
    BY <1>5 DEF ClaimPool
  <2>2. \A t \in Tags : sc.held[t] # None =>
            reg.entry[sc.held[t]].retired \/ reg.entry[sc.held[t]].gone # "no"
    BY <1>5
  <2>3. Outside(reg, s)
    BY <1>1, <1>5, <2>2, Homeless DEF Outside
  <2> QED
    BY <1>1, <1>5, <2>1, <2>3, TurnKeeps
<1> QED
  BY <1>2, <1>3, <1>4, <1>5

\* What the invariant says of the state's shape.
LEMMA FineTypes ==
    ASSUME Fine
    PROVE  /\ reg \in Registry /\ scope \in [Scopes -> ScopeType] /\ step \in [Steps -> StepType]
           /\ cloud \in Cloud /\ Core(reg, Held(scope))
           /\ \A p \in Steps : StepOk(reg, scope, cloud, closing, p, step[p])
           /\ \A s \in Scopes : scope[s] \in ScopeType
           /\ \A p \in Steps : /\ ScopeOf[p] \in Scopes /\ TagOf[p] \in Tags /\ step[p] \in StepType
                               /\ step[p].pc \in Places /\ step[p].at \in Entries \cup {None}
<1>1. /\ reg \in Registry /\ scope \in [Scopes -> ScopeType] /\ step \in [Steps -> StepType]
      /\ cloud \in Cloud /\ Core(reg, Held(scope))
      /\ \A p \in Steps : StepOk(reg, scope, cloud, closing, p, step[p])
  BY DEF Fine, Good, Shape, Sound, Core, Typed
<1>2. \A p \in Steps : ScopeOf[p] \in Scopes /\ TagOf[p] \in Tags /\ step[p] \in StepType
  BY <1>1, Constants
<1>3. \A p \in Steps : step[p].pc \in Places /\ step[p].at \in Entries \cup {None}
  BY <1>2 DEF StepType, Places
<1> QED
  BY <1>1, <1>2, <1>3

\* Claim, whatever its tag names.
LEMMA ClaimKeeps ==
    ASSUME Fine, SceneOk, Spare, NEW p \in Steps, Claim(p)
    PROVE  Good(reg', scope', step', cloud', closing', reclaims')
<1> DEFINE s == ScopeOf[p]
           t == TagOf[p]
           h == scope[s].held[t]
           dead == h # None /\ reg.entry[h].retired
           sc == IF dead THEN [scope[s] EXCEPT !.owed[h] = @ + 1, !.held[t] = None] ELSE scope[s]
<1>1. /\ step[p].pc = "new" \/ (step[p].pc = "claimed" /\ dead)
      /\ IF h # None /\ ~dead THEN Claimed(p, sc, h) /\ reg' = reg
         ELSE IF scene.exclusive THEN ClaimPool(p, sc)
         ELSE ClaimShared(p, sc)
      /\ cloud' = cloud /\ closing' = closing /\ reclaims' = reclaims
  BY DEF Claim
<1>2. /\ scope \in [Scopes -> ScopeType] /\ step \in [Steps -> StepType] /\ s \in Scopes /\ t \in Tags
      /\ scope[s] \in ScopeType /\ StepOk(reg, scope, cloud, closing, p, step[p])
  BY FineTypes
<1>3. h \in Entries \cup {None}
  BY <1>2 DEF ScopeType
<1>4. Unused(reg) # {}
  BY SpareIs
<1>5. CASE h # None /\ ~dead
  <2>1. step[p].pc = "new" /\ Claimed(p, scope[s], h) /\ reg' = reg /\ h \in Entries
    BY <1>1, <1>3, <1>5
  <2>2. PICK m : Names(scope[s], m, t, h) /\ ScopeIs(scope, scope', s, m)
    BY <2>1, ClaimedIs
  <2>3. MovedTo(step, step', p, "claimed", h) /\ "claimed" \in Places
    BY <2>1, ClaimedIs DEF Places
  <2>4. PICK n \in StepType : Became(step, step', p, n) /\ n.pc = "claimed" /\ n.at = h /\ n.tries = step[p].tries
    BY <1>2, <1>3, <2>3, StepMoved
  <2>5. Good(reg, scope', step', cloud, closing, reclaims)
    BY <2>1, <2>2, <2>4, AgainTo DEF Fine
  <2> QED
    BY <1>1, <2>1, <2>5
<1>6. CASE ~(h # None /\ ~dead)
  <2>1. sc = Asks(reg, scope[s], t)
    BY DEF Asks, Owed
  <2>2. scope[s].held[t] # None => reg.entry[scope[s].held[t]].retired
    BY <1>6
  <2> HIDE DEF sc
  <2>3. PICK sc0 : /\ ScopeIs(scope, sc0, s, sc) /\ Good(reg, sc0, step, cloud, closing, reclaims)
                   /\ sc0 \in [Scopes -> ScopeType]
                   /\ sc0[s] = sc /\ sc \in ScopeType /\ sc.held[t] = None
    BY <1>2, <2>1, <2>2, Ready DEF Fine
  <2>4. step[p].pc \in {"new", "claimed"}
    BY <1>1
  <2>5. StepOk(reg, sc0, cloud, closing, p, step[p])
    BY <2>3 DEF Good
  <2>6. sc.phase = "open"
    BY <2>3, <2>4, <2>5 DEF StepOk
  <2>7. Asking(p, sc, sc0)
    BY <1>2, <2>3, <2>4, <2>6 DEF Asking
  <2>8. CASE scene.exclusive
    <3>1. ClaimPool(p, sc)
      BY <1>1, <1>6, <2>8
    <3> QED
      BY <1>1, <1>4, <2>7, <2>8, <3>1, PoolKeeps
  <2>9. CASE ~scene.exclusive
    <3>1. ClaimShared(p, sc)
      BY <1>1, <1>6, <2>9
    <3> QED
      BY <1>1, <1>4, <2>7, <2>9, <3>1, SharedKeeps
  <2> QED
    BY <2>8, <2>9
<1> QED
  BY <1>5, <1>6

\* Wake keeps the invariant.
LEMMA WakeKeeps ==
    ASSUME Fine, SceneOk, NEW p \in Steps, Wake(p)
    PROVE  Good(reg', scope', step', cloud', closing', reclaims')
<1>1. /\ step[p].pc \in {"landing", "sibling"} /\ MovedTo(step, step', p, "new", None)
      /\ reg' = reg /\ scope' = scope /\ cloud' = cloud /\ closing' = closing /\ reclaims' = reclaims
  BY DEF Wake, MovedTo
<1>2. step \in [Steps -> StepType] /\ "new" \in Places /\ None \in Entries \cup {None}
  BY FineTypes DEF Places
<1>3. PICK n \in StepType : Became(step, step', p, n) /\ n.pc = "new" /\ n.at = None /\ n.tries = step[p].tries
  BY <1>1, <1>2, StepMoved
<1>4. Good(reg, scope, step', cloud, closing, reclaims)
  BY <1>1, <1>3, ToNew DEF Fine
<1> QED
  BY <1>1, <1>4

\* Finish keeps the invariant.
LEMMA FinishKeeps ==
    ASSUME Fine, SceneOk, NEW p \in Steps, Finish(p)
    PROVE  Good(reg', scope', step', cloud', closing', reclaims')
<1>1. /\ step[p].pc # "queued" /\ WentTo(step, step', p, "done")
      /\ reg' = reg /\ scope' = scope /\ cloud' = cloud /\ closing' = closing /\ reclaims' = reclaims
  BY DEF Finish, WentTo
<1>2. step \in [Steps -> StepType] /\ "done" \in Places
  BY FineTypes DEF Places
<1>3. PICK n \in StepType : Became(step, step', p, n) /\ n.pc = "done"
  BY <1>1, <1>2, StepWent
<1>4. Good(reg, scope, step', cloud, closing, reclaims)
  BY <1>1, <1>3, ToDone DEF Fine
<1> QED
  BY <1>1, <1>4

\* Resolve keeps the invariant.
LEMMA ResolveKeeps ==
    ASSUME Fine, SceneOk, NEW p \in Steps, Resolve(p)
    PROVE  Good(reg', scope', step', cloud', closing', reclaims')
<1> DEFINE e == step[p].at
<1>1. /\ step[p].pc = "claimed" /\ reg.entry[e].lease # "acquiring"
      /\ IF reg.entry[e].lease = "acquired" THEN OnMachine(p, e) /\ reg' = reg
         ELSE IF reg.entry[e].lease = "failed" \/ scope[ScopeOf[p]].cancelled
         THEN step' = [step EXCEPT ![p].pc = "done"] /\ reg' = reg
         ELSE reg' = [reg EXCEPT !.entry[e].lease = "acquiring"] /\ step' = [step EXCEPT ![p].pc = "acquiring"]
      /\ scope' = scope /\ cloud' = cloud /\ closing' = closing /\ reclaims' = reclaims
  BY DEF Resolve
<1>2. step \in [Steps -> StepType] /\ {"done", "using", "hit", "acquiring"} \subseteq Places
  BY FineTypes DEF Places
<1>3. CASE reg.entry[e].lease = "acquired"
  <2>1. reg' = reg /\ \E pc \in {"using", "hit"} : WentTo(step, step', p, pc)
    BY <1>1, <1>3 DEF OnMachine, WentTo
  <2>2. PICK pc \in {"using", "hit"} : WentTo(step, step', p, pc)
    BY <2>1
  <2>3. PICK n \in StepType : Became(step, step', p, n) /\ n.pc = pc /\ n.at = e /\ n.tries = step[p].tries
    BY <1>2, <2>2, StepWent
  <2>4. Good(reg, scope, step', cloud, closing, reclaims)
    BY <1>1, <1>3, <2>3, ToUsing DEF Fine
  <2> QED
    BY <1>1, <2>1, <2>4
<1>4. CASE reg.entry[e].lease # "acquired" /\ (reg.entry[e].lease = "failed" \/ scope[ScopeOf[p]].cancelled)
  <2>1. reg' = reg /\ WentTo(step, step', p, "done")
    BY <1>1, <1>4 DEF WentTo
  <2>2. PICK n \in StepType : Became(step, step', p, n) /\ n.pc = "done"
    BY <1>2, <2>1, StepWent
  <2>3. Good(reg, scope, step', cloud, closing, reclaims)
    BY <1>1, <2>2, ToDone DEF Fine
  <2> QED
    BY <1>1, <2>1, <2>3
<1>5. CASE reg.entry[e].lease # "acquired" /\ ~(reg.entry[e].lease = "failed" \/ scope[ScopeOf[p]].cancelled)
  <2>1. LeaseIs(reg, reg', e, "acquiring") /\ WentTo(step, step', p, "acquiring")
    BY <1>1, <1>5 DEF WentTo, LeaseIs
  <2>2. PICK n \in StepType : Became(step, step', p, n) /\ n.pc = "acquiring" /\ n.at = e /\ n.tries = step[p].tries
    BY <1>2, <2>1, StepWent
  <2>3. ~scope[ScopeOf[p]].cancelled /\ reg.entry[step[p].at].lease \notin {"acquiring", "acquired", "failed"}
    BY <1>1, <1>5
  <2>4. Good(reg', scope, step', cloud, closing, reclaims)
    BY <1>1, <2>1, <2>2, <2>3, ResolveTo DEF Fine
  <2> QED
    BY <1>1, <2>4
<1> QED
  BY <1>3, <1>4, <1>5

\* Acquired keeps the invariant.
LEMMA AcquiredKeeps ==
    ASSUME Fine, SceneOk, NEW p \in Steps, Acquired(p)
    PROVE  Good(reg', scope', step', cloud', closing', reclaims')
<1> DEFINE e == step[p].at
           b == cloud[Machine(e)] # "running"
<1>1. /\ step[p].pc = "acquiring" /\ WentTo(step, step', p, "using")
      /\ AcquiredIs(reg, reg', e, b) /\ CloudIs(cloud, cloud', Machine(e), "running")
      /\ scope' = scope /\ closing' = closing /\ reclaims' = reclaims
  BY DEF Acquired, WentTo, AcquiredIs, CloudIs
<1>2. step \in [Steps -> StepType] /\ "using" \in Places
  BY FineTypes DEF Places
<1>3. PICK n \in StepType : Became(step, step', p, n) /\ n.pc = "using" /\ n.at = e /\ n.tries = step[p].tries
  BY <1>1, <1>2, StepWent
<1>4. PICK c \in BOOLEAN : c <=> b
  OBVIOUS
<1>5. AcquiredIs(reg, reg', e, c)
  <2>1. c = b
    BY <1>4
  <2> QED
    BY <1>1, <2>1
<1>6. Good(reg', scope, step', cloud', closing, reclaims)
  BY <1>1, <1>3, <1>4, <1>5, AcquiredTo DEF Fine
<1> QED
  BY <1>1, <1>6

\* AcquireFails keeps the invariant.
LEMMA FailsKeeps ==
    ASSUME Fine, SceneOk, NEW p \in Steps, AcquireFails(p)
    PROVE  Good(reg', scope', step', cloud', closing', reclaims')
<1> DEFINE l == IF scope[ScopeOf[p]].cancelled THEN "none" ELSE "failed"
<1>1. /\ step[p].pc = "acquiring" /\ WentTo(step, step', p, "done") /\ LeaseIs(reg, reg', step[p].at, l)
      /\ scope' = scope /\ cloud' = cloud /\ closing' = closing /\ reclaims' = reclaims
  BY DEF AcquireFails, WentTo, LeaseIs
<1>2. step \in [Steps -> StepType] /\ "done" \in Places
  BY FineTypes DEF Places
<1>3. PICK n \in StepType : Became(step, step', p, n) /\ n.pc = "done"
  BY <1>1, <1>2, StepWent
<1>4. l \in {"none", "failed"}
  OBVIOUS
<1> HIDE DEF l
<1>5. Good(reg', scope, step', cloud, closing, reclaims)
  BY <1>1, <1>3, <1>4, FailTo DEF Fine
<1> QED
  BY <1>1, <1>5

\* leave, and a hand-over: the step is not in line, and was handed nothing.
Outline(r, x, p) == x = [r EXCEPT !.waiters = RemoveFirst(@, p), !.got[p] = None]

\* leave, field by field.
LEMMA OutlineIs ==
    ASSUME NEW r, NEW H, Core(r, H), NEW p \in Steps, NEW x, Outline(r, x, p)
    PROVE  Unlined(r, x, p)
<1>1. r \in Registry /\ Once(r.waiters) /\ r.waiters \in Seq(Steps) /\ r.got \in [Steps -> Entries \cup {None}]
  BY Parts DEF Core, Typed
<1>2. /\ RemoveFirst(r.waiters, p) \in Seq(Steps) /\ Once(RemoveFirst(r.waiters, p))
      /\ ToSet(RemoveFirst(r.waiters, p)) = ToSet(r.waiters) \ {p}
  BY <1>1, TakeOne
<1> DEFINE q == RemoveFirst(r.waiters, p)
           g == [r.got EXCEPT ![p] = None]
<1>3. x = [r EXCEPT !.waiters = q, !.got = g]
  BY <1>1 DEF Outline
<1>4. g \in [Steps -> Entries \cup {None}]
  BY <1>1
<1>5. x.got = g
  BY <1>1, <1>3 DEF Registry
<1>6. GotSet(r, x, p, None)
  BY <1>5 DEF GotSet
<1> HIDE DEF q, g
<1>7. /\ x \in Registry /\ x.waiters = q
      /\ x.members = r.members /\ x.current = r.current /\ x.entry = r.entry
      /\ x.reserved = r.reserved /\ x.live = r.live /\ x.closed = r.closed
  <2>1. q \in Seq(Steps)
    BY <1>2 DEF q
  <2> QED
    BY <1>1, <1>3, <1>4, <2>1 DEF Registry
<1>8. Once(x.waiters) /\ Waiting(x) = Waiting(r) \ {p}
  BY <1>2, <1>7 DEF q, Waiting
<1> QED
  BY <1>6, <1>7, <1>8 DEF Unlined

\* Nothing is handed to the step any more.
Unhanded(r, x, p) == x = [r EXCEPT !.got[p] = None]

\* queue's return, field by field.
LEMMA UnhandedIs ==
    ASSUME NEW r, NEW H, Core(r, H), NEW p \in Steps, r.got[p] # None, NEW x, Unhanded(r, x, p)
    PROVE  Unlined(r, x, p)
<1>1. r \in Registry /\ Once(r.waiters) /\ r.got \in [Steps -> Entries \cup {None}] /\ p \notin Waiting(r)
  BY Parts DEF Core, Typed, Queue
<1> DEFINE g == [r.got EXCEPT ![p] = None]
<1>2. x = [r EXCEPT !.got = g]
  BY <1>1 DEF Unhanded
<1>3. g \in [Steps -> Entries \cup {None}]
  BY <1>1
<1>4. x.got = g
  BY <1>1, <1>2 DEF Registry
<1>5. GotSet(r, x, p, None)
  BY <1>4 DEF GotSet
<1> HIDE DEF g
<1>6. /\ x \in Registry /\ x.waiters = r.waiters
      /\ x.members = r.members /\ x.current = r.current /\ x.entry = r.entry
      /\ x.reserved = r.reserved /\ x.live = r.live /\ x.closed = r.closed
  BY <1>1, <1>2, <1>3 DEF Registry
<1>7. Once(x.waiters) /\ Waiting(x) = Waiting(r) \ {p}
  BY <1>1, <1>6 DEF Waiting
<1> QED
  BY <1>5, <1>6, <1>7 DEF Unlined

\* A step that is in nobody's line leaves it.
LEMMA StaysAsWas ==
    ASSUME NEW r, NEW sc, NEW st, NEW cl, NEW cg, NEW rc, Good(r, sc, st, cl, cg, rc), SceneOk,
           NEW p \in Steps, st[p].pc # "queued", NEW x, Unlined(r, x, p)
    PROVE  Good(x, sc, st, cl, cg, rc)
<1>1. /\ Core(r, Held(sc)) /\ Idle(r) /\ (~Over(cg) => Quiet(r)) /\ Settled(r) /\ (r.closed <=> cg # "no")
      /\ StepOk(r, sc, cl, cg, p, st[p])
  BY DEF Good, Sound
<1>2. ~InLine(r, p)
  BY <1>1 DEF StepOk
<1>3. r.got[p] = None
  BY <1>2 DEF InLine
<1>4. PICK H : H = Held(sc)
  OBVIOUS
<1>5. /\ Core(x, Gained(r, H, p)) /\ (Settled(r) => Settled(x)) /\ (Within(r) => Within(x))
      /\ (Quiet(r) => Quiet(x)) /\ (Idle(r) => Idle(x))
      /\ ~InLine(x, p) /\ \A q \in Steps \ {p} : (InLine(x, q) <=> InLine(r, q)) /\ x.got[q] = r.got[q]
      /\ \A s \in Scopes : HasPlace(x, s) <=> HasPlace(r, s)
  BY <1>1, <1>4, UnlinedCore
<1>6. Core(x, Held(sc))
  BY <1>3, <1>4, <1>5 DEF Gained
<1>7. x.closed = r.closed /\ x.entry = r.entry /\ x.live = r.live /\ x.reserved = r.reserved
  BY DEF Unlined
<1>8. Sound(x, sc, cg)
  BY <1>1, <1>5, <1>6, <1>7 DEF Sound
<1>9. Calm(r, x, Scopes)
  <2>1. \A q \in Steps : InLine(x, q) <=> InLine(r, q)
    BY <1>2, <1>5
  <2>2. \A q \in Steps : x.got[q] # None => r.got[q] # None
    <3>1. x.got[p] = None
      BY <1>5 DEF InLine
    <3> QED
      BY <1>5, <3>1
  <2> QED
    BY <1>5, <1>7, <2>1, <2>2 DEF Calm, PlacesKept
<1>10. Steady(r, x)
  BY <1>7 DEF Steady, Kept
<1>11. \A s \in Jobs : s \in Scopes
  BY Constants
<1> QED
  BY <1>5, <1>7, <1>8, <1>9, <1>10, <1>11, RegSteady

\* Served keeps the invariant.
LEMMA ServedKeeps ==
    ASSUME Fine, SceneOk, NEW p \in Steps, Served(p)
    PROVE  Good(reg', scope', step', cloud', closing', reclaims')
<1> DEFINE s == ScopeOf[p]
           sc == [scope[s] EXCEPT !.claiming = FALSE]
           e == reg.got[p]
<1>1. /\ step[p].pc = "queued" /\ e # None /\ Claimed(p, sc, e) /\ Unhanded(reg, reg', p)
      /\ cloud' = cloud /\ closing' = closing /\ reclaims' = reclaims
  BY DEF Served, Unhanded
<1>2. /\ reg \in Registry /\ Core(reg, Held(scope)) /\ scope \in [Scopes -> ScopeType]
      /\ step \in [Steps -> StepType] /\ s \in Scopes /\ TagOf[p] \in Tags /\ scope[s] \in ScopeType
  BY FineTypes
<1>3. e \in Entries /\ e \in Entries \cup {None}
  <2>1. reg.got \in [Steps -> Entries \cup {None}]
    BY <1>2, Parts
  <2> QED
    BY <1>1, <2>1
<1>4. /\ sc \in ScopeType /\ sc.phase = scope[s].phase /\ sc.cancelled = scope[s].cancelled
      /\ ~sc.claiming /\ sc.owed = scope[s].owed /\ sc.held = scope[s].held
  BY <1>2 DEF ScopeType
<1> HIDE DEF sc
<1>5. PICK m : Names(sc, m, TagOf[p], e) /\ ScopeIs(scope, scope', s, m)
  BY <1>1, ClaimedIs
<1>6. /\ m \in ScopeType /\ m.phase = sc.phase /\ m.cancelled = sc.cancelled /\ m.claiming = sc.claiming
      /\ m.owed = sc.owed /\ m.held[TagOf[p]] = e /\ \A u \in Tags \ {TagOf[p]} : m.held[u] = sc.held[u]
  BY <1>2, <1>3, <1>4, <1>5, NamesIs
<1>7. MovedTo(step, step', p, "claimed", e) /\ "claimed" \in Places
  BY <1>1, ClaimedIs DEF Places
<1>8. PICK n \in StepType : Became(step, step', p, n) /\ n.pc = "claimed" /\ n.at = e
  BY <1>2, <1>3, <1>7, StepMoved
<1>9. Unlined(reg, reg', p)
  BY <1>1, <1>2, UnhandedIs
<1>10. /\ m.phase = scope[s].phase /\ m.cancelled = scope[s].cancelled
       /\ ~m.claiming /\ m.owed = scope[s].owed /\ m.held[TagOf[p]] = reg.got[p]
       /\ \A u \in Tags \ {TagOf[p]} : m.held[u] = scope[s].held[u]
  BY <1>4, <1>6
<1>11. Good(reg', scope', step', cloud, closing, reclaims)
  BY <1>1, <1>5, <1>6, <1>8, <1>9, <1>10, LineTo DEF Fine
<1> QED
  BY <1>1, <1>11

\* What a scope knows of a step that leaves.
Leaves(n, m, t, c, h) == m = [n EXCEPT !.claiming = c, !.held[t] = h]

\* Leaves, field by field.
LEMMA LeavesIs ==
    ASSUME NEW n \in ScopeType, NEW t \in Tags, NEW c \in BOOLEAN, NEW h \in Entries \cup {None}, NEW m, Leaves(n, m, t, c, h)
    PROVE  /\ m \in ScopeType /\ m.phase = n.phase /\ m.cancelled = n.cancelled /\ m.claiming = c
           /\ m.owed = n.owed /\ m.held[t] = h /\ \A u \in Tags \ {t} : m.held[u] = n.held[u]
<1> DEFINE held == [n.held EXCEPT ![t] = h]
<1>1. n.held \in [Tags -> Entries \cup {None}]
  BY DEF ScopeType
<1>2. held \in [Tags -> Entries \cup {None}] /\ held[t] = h /\ \A u \in Tags \ {t} : held[u] = n.held[u]
  BY <1>1
<1>3. m = [n EXCEPT !.claiming = c, !.held = held]
  BY DEF Leaves
<1> HIDE DEF held
<1> QED
  BY <1>2, <1>3 DEF ScopeType

\* Leave keeps the invariant.
LEMMA LeaveKeeps ==
    ASSUME Fine, SceneOk, NEW p \in Steps, Leave(p)
    PROVE  Good(reg', scope', step', cloud', closing', reclaims')
<1> DEFINE s == ScopeOf[p]
           t == TagOf[p]
           took == step[p].pc = "queued" /\ reg.got[p] # None
           c == IF step[p].pc = "queued" THEN FALSE ELSE scope[s].claiming
           h == IF took THEN reg.got[p] ELSE scope[s].held[t]
           m == [scope[s] EXCEPT !.claiming = c, !.held[t] = h]
<1>1. /\ step[p].pc \in {"landing", "sibling", "queued"} /\ Outline(reg, reg', p)
      /\ MovedTo(step, step', p, "done", None)
      /\ cloud' = cloud /\ closing' = closing /\ reclaims' = reclaims
  BY DEF Leave, Outline, MovedTo
<1>2. /\ reg \in Registry /\ Core(reg, Held(scope)) /\ scope \in [Scopes -> ScopeType]
      /\ step \in [Steps -> StepType] /\ s \in Scopes /\ t \in Tags /\ scope[s] \in ScopeType
      /\ StepOk(reg, scope, cloud, closing, p, step[p])
  BY FineTypes
<1>3. scope' = [scope EXCEPT ![s].claiming = c, ![s].held[t] = h]
  BY DEF Leave
<1>4. ScopeIs(scope, scope', s, m)
  BY <1>2, <1>3 DEF ScopeIs
<1>5. Leaves(scope[s], m, t, c, h)
  BY DEF Leaves
<1>6. reg.got[p] \in Entries \cup {None} /\ scope[s].held[t] \in Entries \cup {None} /\ scope[s].claiming \in BOOLEAN
  BY <1>2, Parts DEF ScopeType
<1>7. c \in BOOLEAN /\ h \in Entries \cup {None}
  BY <1>6
<1> HIDE DEF m, c, h
<1>8. /\ m \in ScopeType /\ m.phase = scope[s].phase /\ m.cancelled = scope[s].cancelled /\ m.claiming = c
      /\ m.owed = scope[s].owed /\ m.held[t] = h /\ \A u \in Tags \ {t} : m.held[u] = scope[s].held[u]
  BY <1>2, <1>5, <1>7, LeavesIs
<1>9. "done" \in Places /\ None \in Entries \cup {None}
  BY DEF Places
<1>10. PICK n \in StepType : Became(step, step', p, n) /\ n.pc = "done" /\ n.at = None
  BY <1>1, <1>2, <1>9, StepMoved
<1>11. Unlined(reg, reg', p)
  BY <1>1, <1>2, OutlineIs
<1>12. CASE step[p].pc = "queued"
  <2>1. scope[s].held[t] = None
    BY <1>2, <1>12 DEF StepOk
  <2>2. h = reg.got[p] /\ ~c
    BY <1>12, <2>1 DEF h, c
  <2>3. m.held[t] = reg.got[p] /\ ~m.claiming
    BY <1>8, <2>2
  <2>4. Good(reg', scope', step', cloud, closing, reclaims)
    BY <1>4, <1>8, <1>10, <1>11, <1>12, <2>3, LineTo DEF Fine
  <2> QED
    BY <1>1, <2>4
<1>13. CASE step[p].pc # "queued"
  <2>1. Good(reg', scope, step, cloud, closing, reclaims)
    BY <1>11, <1>13, StaysAsWas DEF Fine
  <2>2. h = scope[s].held[t] /\ c = scope[s].claiming
    BY <1>13 DEF h, c
  <2>3. \A u \in Tags : m.held[u] = scope[s].held[u]
    BY <1>8, <2>2
  <2>4. scope' \in [Scopes -> ScopeType] /\ scope'[s] = m
    BY <1>2, <1>4, <1>8, ScopeIsTyped
  <2>5. \A e \in Entries : Held(scope')[s][e] = Held(scope)[s][e]
    <3> TAKE e \in Entries
    <3>1. HeldIn(m.held, e) = HeldIn(scope[s].held, e)
      BY <2>3 DEF HeldIn
    <3>2. /\ Held(scope')[s][e] = Cardinality(HeldIn(m.held, e)) + m.owed[e]
          /\ Held(scope)[s][e] = Cardinality(HeldIn(scope[s].held, e)) + scope[s].owed[e]
      BY <1>2, <2>4, HeldType
    <3> QED
      BY <1>8, <3>1, <3>2
  <2>6. ScopeOk(reg', scope', closing, s)
    <3>1. ScopeOk(reg', scope, closing, s)
      BY <1>2, <2>1 DEF Good
    <3> QED
      BY <1>8, <2>3, <2>4, <3>1 DEF ScopeOk
  <2>7. m.phase = scope[s].phase /\ m.claiming = scope[s].claiming /\ \A u \in Tags : m.held[u] \in {scope[s].held[u], None}
    BY <1>8, <2>2, <2>3
  <2>9. m \in ScopeType
    BY <1>8
  <2>10. Good(reg', scope', step, cloud, closing, reclaims)
    BY <1>2, <1>4, <2>1, <2>5, <2>6, <2>7, <2>9, ScopeTo
  <2>8. Good(reg', scope', step', cloud, closing, reclaims)
    BY <1>10, <1>13, <2>10, ToDone
  <2> QED
    BY <1>1, <2>8
<1> QED
  BY <1>12, <1>13

\* Abandon, up to retire, keeps the invariant.
LEMMA AbandonKeeps ==
    ASSUME Fine, SceneOk, Spare, NEW p \in Steps, Abandon(p)
    PROVE  Good(reg', scope', step', cloud', closing', reclaims')
<1> DEFINE h == scope[ScopeOf[p]].held[TagOf[p]]
           same == /\ h # None /\ reg.entry[h].lease = "acquired"
                   /\ Machine(h) = Machine(step[p].at)
           at == IF same /\ ~Parked THEN h ELSE None
<1>1. /\ step[p].pc = "hit" /\ MovedTo(step, step', p, "leaving", at)
      /\ reg' = IF ~same THEN reg
                ELSE IF Parked THEN [reg EXCEPT !.entry[h].lease = "none"]
                ELSE Retire(reg, h)
      /\ scope' = scope /\ cloud' = cloud /\ closing' = closing /\ reclaims' = reclaims
  BY DEF Abandon, MovedTo
<1>2. scope[ScopeOf[p]] \in ScopeType /\ TagOf[p] \in Tags /\ step \in [Steps -> StepType]
  BY FineTypes
<1>3. h \in Entries \cup {None} /\ "leaving" \in Places
  BY <1>2 DEF ScopeType, Places
<1>4. at \in Entries \cup {None}
  BY <1>3
<1>9. MovedTo(step, step', p, "leaving", at) /\ "leaving" \in Places
  BY <1>1, <1>3
<1> HIDE DEF at
<1>5. PICK n \in StepType : Became(step, step', p, n) /\ n.pc = "leaving" /\ n.at = at /\ n.tries = step[p].tries
  BY <1>2, <1>4, <1>9, StepMoved
<1>6. CASE ~same
  <2>1. reg' = reg /\ n.at = None
    BY <1>1, <1>5, <1>6 DEF at
  <2>2. Good(reg, scope, step', cloud, closing, reclaims)
    BY <1>1, <1>5, <2>1, ToLeaving DEF Fine
  <2> QED
    BY <1>1, <2>1, <2>2
<1>7. CASE same /\ Parked
  <2>1. LeaseIs(reg, reg', h, "none") /\ n.at = None /\ h \in Entries /\ reg.entry[h].lease = "acquired"
    BY <1>1, <1>3, <1>5, <1>7 DEF LeaseIs, at
  <2>2. Good(reg', scope, step', cloud, closing, reclaims)
    BY <1>1, <1>5, <2>1, ForgetTo DEF Fine
  <2> QED
    BY <1>1, <2>2
<1>8. CASE same /\ ~Parked
  <2>1. reg' = Retire(reg, h) /\ n.at = h /\ h \in Entries
    BY <1>1, <1>3, <1>5, <1>8 DEF at
  <2>2. Stocked(reg)
    BY SpareIs
  <2>3. Good(reg', scope, step', cloud, closing, reclaims)
    BY <1>1, <1>5, <1>8, <2>1, <2>2, RetireTo DEF Fine
  <2> QED
    BY <1>1, <2>3
<1> QED
  BY <1>6, <1>7, <1>8

\* Abandon's last section keeps the invariant.
LEMMA AbandonedKeeps ==
    ASSUME Fine, SceneOk, NEW p \in Steps, Abandoned(p)
    PROVE  Good(reg', scope', step', cloud', closing', reclaims')
<1> DEFINE s == ScopeOf[p]
           t == TagOf[p]
           h == scope[s].held[t]
<1>1. /\ step[p].pc = "leaving" /\ reg' = reg /\ cloud' = cloud /\ closing' = closing /\ reclaims' = reclaims
      /\ IF h = None \/ h # step[p].at THEN scope' = scope ELSE OwedIs(scope, scope', s, t, h)
  BY DEF Abandoned, OwedIs
<1>2. /\ scope \in [Scopes -> ScopeType] /\ step \in [Steps -> StepType] /\ s \in Scopes /\ t \in Tags
      /\ scope[s] \in ScopeType /\ step[p] \in StepType /\ StepOk(reg, scope, cloud, closing, p, step[p])
  BY FineTypes
<1>3. PICK again \in BOOLEAN :
         /\ again => step[p].tries < Retries
         /\ step' = [step EXCEPT ![p] = [pc |-> IF again THEN "new" ELSE "done", at |-> None,
                                         tries |-> IF again THEN step[p].tries + 1 ELSE step[p].tries]]
  BY DEF Abandoned
<1> DEFINE n == [pc |-> IF again THEN "new" ELSE "done", at |-> None,
                 tries |-> IF again THEN step[p].tries + 1 ELSE step[p].tries]
<1>4. n \in StepType /\ (n.pc = "done" \/ (n.pc = "new" /\ n.tries = step[p].tries + 1))
  <2>1. step[p].tries \in 0..Retries /\ Retries \in Nat
    BY <1>2, Constants DEF StepType
  <2>2. (IF again THEN step[p].tries + 1 ELSE step[p].tries) \in 0..Retries
    BY <1>3, <2>1
  <2> QED
    BY <2>2 DEF StepType
<1>5. Became(step, step', p, n)
  BY <1>3 DEF Became
<1> HIDE DEF n
<1>6. Good(reg, scope', step, cloud, closing, reclaims)
  <2>1. CASE h = None \/ h # step[p].at
    BY <1>1, <2>1 DEF Fine
  <2>2. CASE h # None /\ h = step[p].at
    <3>1. OwedIs(scope, scope', s, t, h) /\ h \in Entries /\ reg.entry[h].retired
      BY <1>1, <1>2, <2>2 DEF StepOk, ScopeType
    <3>2. PICK m \in ScopeType :
             /\ ScopeIs(scope, scope', s, m)
             /\ m.phase = scope[s].phase /\ m.cancelled = scope[s].cancelled /\ m.claiming = scope[s].claiming
             /\ m.held[t] = None /\ \A u \in Tags \ {t} : m.held[u] = scope[s].held[u]
             /\ m.owed[h] = scope[s].owed[h] + 1 /\ \A e \in Entries \ {h} : m.owed[e] = scope[s].owed[e]
      BY <1>2, <3>1, OwedIsScope
    <3> QED
      BY <1>2, <3>1, <3>2, Owing DEF Fine
  <2> QED
    BY <2>1, <2>2
<1>7. Good(reg, scope', step', cloud, closing, reclaims)
  BY <1>1, <1>4, <1>5, <1>6, ToAgain
<1> QED
  BY <1>1, <1>7

\* The books of a scope that ended.
EndedIs(sc, sc1, s) ==
    sc1 = [sc EXCEPT ![s].phase = "releasing", ![s].held = [t \in Tags |-> None],
                     ![s].owed = [e \in Entries |-> sc[s].owed[e] + Cardinality(HeldIn(sc[s].held, e))]]

\* EndScope's books, field by field.
LEMMA EndedIsScope ==
    ASSUME NEW sc \in [Scopes -> ScopeType], NEW s \in Scopes, NEW sc1, EndedIs(sc, sc1, s)
    PROVE  \E m \in ScopeType :
              /\ ScopeIs(sc, sc1, s, m)
              /\ m.phase = "releasing" /\ m.cancelled = sc[s].cancelled /\ m.claiming = sc[s].claiming
              /\ \A t \in Tags : m.held[t] = None
              /\ \A e \in Entries : m.owed[e] = sc[s].owed[e] + Cardinality(HeldIn(sc[s].held, e))
<1> DEFINE held == [t \in Tags |-> None]
           owed == [e \in Entries |-> sc[s].owed[e] + Cardinality(HeldIn(sc[s].held, e))]
           m == [sc[s] EXCEPT !.phase = "releasing", !.held = held, !.owed = owed]
<1>1. sc[s] \in ScopeType
  OBVIOUS
<1>2. \A e \in Entries : Cardinality(HeldIn(sc[s].held, e)) \in Nat /\ sc[s].owed[e] \in Nat
  BY HeldType
<1>3. /\ held \in [Tags -> Entries \cup {None}] /\ owed \in [Entries -> Nat]
      /\ \A t \in Tags : held[t] = None
      /\ \A e \in Entries : owed[e] = sc[s].owed[e] + Cardinality(HeldIn(sc[s].held, e))
  BY <1>2
<1>4. sc1 = [sc EXCEPT ![s].phase = "releasing", ![s].held = held, ![s].owed = owed]
  BY DEF EndedIs
<1> HIDE DEF held, owed
<1>5. ScopeIs(sc, sc1, s, m)
  BY <1>4 DEF ScopeIs
<1>6. /\ m \in ScopeType /\ m.phase = "releasing" /\ m.cancelled = sc[s].cancelled /\ m.claiming = sc[s].claiming
      /\ m.held = held /\ m.owed = owed
  BY <1>1, <1>3 DEF ScopeType
<1> HIDE DEF m
<1> QED
  BY <1>3, <1>5, <1>6

\* EndScope keeps the invariant.
LEMMA EndKeeps ==
    ASSUME Fine, NEW s \in Scopes, EndScope(s)
    PROVE  Good(reg', scope', step', cloud', closing', reclaims')
<1>1. /\ scope[s].phase = "open" /\ \A p \in Steps : ScopeOf[p] = s => step[p].pc = "done"
      /\ reg' = reg /\ step' = step /\ cloud' = cloud /\ closing' = closing /\ reclaims' = reclaims
  BY DEF EndScope, StepsOf
<1>2. scope' = [scope EXCEPT ![s].phase = "releasing", ![s].held = [t \in Tags |-> None],
                    ![s].owed = [e \in Entries |-> scope[s].owed[e] + Cardinality({t \in Tags : scope[s].held[t] = e})]]
  BY FineTypes DEF EndScope
<1>3. EndedIs(scope, scope', s)
  BY <1>2 DEF EndedIs, HeldIn
<1>4. scope \in [Scopes -> ScopeType]
  BY FineTypes
<1>5. PICK m \in ScopeType :
         /\ ScopeIs(scope, scope', s, m)
         /\ m.phase = "releasing" /\ m.cancelled = scope[s].cancelled /\ m.claiming = scope[s].claiming
         /\ \A t \in Tags : m.held[t] = None
         /\ \A e \in Entries : m.owed[e] = scope[s].owed[e] + Cardinality(HeldIn(scope[s].held, e))
  BY <1>3, <1>4, EndedIsScope
<1>6. Good(reg, scope', step, cloud, closing, reclaims)
  BY <1>1, <1>5, EndTo DEF Fine
<1> QED
  BY <1>1, <1>6

\* The books of a scope that dropped an entry.
OwesLess(sc, sc1, s, e) == sc1 = [sc EXCEPT ![s].owed[e] = @ - 1]

\* Drop's books, field by field.
LEMMA OwesLessScope ==
    ASSUME NEW sc \in [Scopes -> ScopeType], NEW s \in Scopes, NEW e \in Entries, sc[s].owed[e] > 0,
           NEW sc1, OwesLess(sc, sc1, s, e)
    PROVE  \E m \in ScopeType :
              /\ ScopeIs(sc, sc1, s, m)
              /\ m.phase = sc[s].phase /\ m.cancelled = sc[s].cancelled /\ m.claiming = sc[s].claiming
              /\ m.held = sc[s].held /\ m.owed[e] = sc[s].owed[e] - 1
              /\ \A f \in Entries \ {e} : m.owed[f] = sc[s].owed[f]
<1> DEFINE owed == [sc[s].owed EXCEPT ![e] = sc[s].owed[e] - 1]
           m == [sc[s] EXCEPT !.owed = owed]
<1>1. sc[s] \in ScopeType /\ sc[s].owed \in [Entries -> Nat]
  BY DEF ScopeType
<1>2. /\ owed \in [Entries -> Nat] /\ owed[e] = sc[s].owed[e] - 1
      /\ \A f \in Entries \ {e} : owed[f] = sc[s].owed[f]
  BY <1>1
<1>3. ScopeIs(sc, sc1, s, m)
  BY <1>1 DEF OwesLess, ScopeIs
<1> HIDE DEF owed
<1>4. /\ m \in ScopeType /\ m.phase = sc[s].phase /\ m.cancelled = sc[s].cancelled /\ m.claiming = sc[s].claiming
      /\ m.held = sc[s].held /\ m.owed = owed
  BY <1>1, <1>2 DEF ScopeType
<1> HIDE DEF m
<1> QED
  BY <1>2, <1>3, <1>4

\* Drop keeps the invariant.
LEMMA DropKeeps ==
    ASSUME Fine, SceneOk, Spare, NEW s \in Scopes, NEW e \in Entries, Drop(s, e)
    PROVE  Good(reg', scope', step', cloud', closing', reclaims')
<1>1. /\ scope[s].phase = "releasing" /\ scope[s].owed[e] > 0 /\ reg' = DropRef(reg, e, s)
      /\ OwesLess(scope, scope', s, e)
      /\ step' = step /\ cloud' = cloud /\ closing' = closing /\ reclaims' = reclaims
  BY DEF Drop, OwesLess
<1>2. scope \in [Scopes -> ScopeType] /\ Stocked(reg)
  BY FineTypes, SpareIs
<1>3. PICK m \in ScopeType :
         /\ ScopeIs(scope, scope', s, m)
         /\ m.phase = scope[s].phase /\ m.cancelled = scope[s].cancelled /\ m.claiming = scope[s].claiming
         /\ m.held = scope[s].held /\ m.owed[e] = scope[s].owed[e] - 1
         /\ \A f \in Entries \ {e} : m.owed[f] = scope[s].owed[f]
  BY <1>1, <1>2, OwesLessScope
<1>4. Good(DropRef(reg, e, s), scope', step, cloud, closing, reclaims)
  BY <1>1, <1>2, <1>3, DropTo DEF Fine
<1> QED
  BY <1>1, <1>4

\* The books of a scope that is over.
ClosedIs(sc, sc1, s) == sc1 = [sc EXCEPT ![s].phase = "closed"]

\* Unreserve's books, field by field.
LEMMA ClosedIsScope ==
    ASSUME NEW sc \in [Scopes -> ScopeType], NEW s \in Scopes, NEW sc1, ClosedIs(sc, sc1, s)
    PROVE  \E m \in ScopeType :
              /\ ScopeIs(sc, sc1, s, m)
              /\ m.phase = "closed" /\ m.cancelled = sc[s].cancelled /\ m.claiming = sc[s].claiming
              /\ m.held = sc[s].held /\ m.owed = sc[s].owed
<1> DEFINE m == [sc[s] EXCEPT !.phase = "closed"]
<1>1. sc[s] \in ScopeType
  OBVIOUS
<1>2. ScopeIs(sc, sc1, s, m)
  BY DEF ClosedIs, ScopeIs
<1>3. /\ m \in ScopeType /\ m.phase = "closed" /\ m.cancelled = sc[s].cancelled /\ m.claiming = sc[s].claiming
      /\ m.held = sc[s].held /\ m.owed = sc[s].owed
  BY <1>1 DEF ScopeType
<1> HIDE DEF m
<1> QED
  BY <1>2, <1>3

\* Unreserve keeps the invariant.
LEMMA UnreserveKeeps ==
    ASSUME Fine, SceneOk, Spare, NEW s \in Scopes, Unreserve(s)
    PROVE  Good(reg', scope', step', cloud', closing', reclaims')
<1>1. /\ scope[s].phase = "releasing" /\ \A e \in Entries : scope[s].owed[e] = 0
      /\ ClosedIs(scope, scope', s)
      /\ step' = step /\ cloud' = cloud /\ closing' = closing /\ reclaims' = reclaims
  BY DEF Unreserve, ClosedIs
<1>2. scope \in [Scopes -> ScopeType] /\ Stocked(reg)
  BY FineTypes, SpareIs
<1>3. Good(reg', scope, step, cloud, closing, reclaims) /\ reg'.reserved[s] = 0
  <2>1. CASE reg.reserved[s] = 0
    <3>1. reg' = reg
      BY <2>1 DEF Unreserve
    <3> QED
      BY <2>1, <3>1 DEF Fine
  <2>2. CASE reg.reserved[s] # 0
    <3> DEFINE y == [reg EXCEPT !.reserved[s] = 0]
    <3>1. reg' = Serve(y)
      BY <2>2 DEF Unreserve
    <3>2. ReservedSet(reg, y, s, 0)
      BY DEF ReservedSet
    <3> HIDE DEF y
    <3>3. Good(Serve(y), scope, step, cloud, closing, reclaims) /\ Serve(y).reserved[s] = 0
      BY <1>1, <1>2, <2>2, <3>2, UnreserveTo DEF Fine
    <3> QED
      BY <3>1, <3>3
  <2> QED
    BY <2>1, <2>2
<1>4. PICK m \in ScopeType :
         /\ ScopeIs(scope, scope', s, m)
         /\ m.phase = "closed" /\ m.cancelled = scope[s].cancelled /\ m.claiming = scope[s].claiming
         /\ m.held = scope[s].held /\ m.owed = scope[s].owed
  BY <1>1, <1>2, ClosedIsScope
<1>5. Good(reg', scope', step, cloud, closing, reclaims)
  BY <1>1, <1>3, <1>4, CloseTo
<1> QED
  BY <1>1, <1>5

\* Cancel keeps the invariant.
LEMMA CancelKeeps ==
    ASSUME Fine, NEW s \in Scopes, Cancel(s)
    PROVE  Good(reg', scope', step', cloud', closing', reclaims')
<1>1. /\ CancelledIs(scope, scope', s)
      /\ reg' = reg /\ step' = step /\ cloud' = cloud /\ closing' = closing /\ reclaims' = reclaims
  BY DEF Cancel, CancelledIs
<1>2. Good(reg, scope', step, cloud, closing, reclaims)
  BY <1>1, CancelTo DEF Fine
<1> QED
  BY <1>1, <1>2

\* Fire keeps the invariant.
LEMMA FireKeeps ==
    ASSUME Fine, SceneOk, NEW e \in Entries, Fire(e)
    PROVE  Good(reg', scope', step', cloud', closing', reclaims')
<1>1. /\ reg.entry[e].timer = "armed" /\ TimerSet(reg, reg', e, "fired")
      /\ scope' = scope /\ step' = step /\ cloud' = cloud /\ closing' = closing /\ reclaims' = reclaims
  BY DEF Fire, TimerSet
<1>2. reg \in Registry
  BY FineTypes
<1>3. /\ Touched(reg, reg', e) /\ reg'.entry[e].timer = "fired"
      /\ reg'.entry[e].lease = reg.entry[e].lease /\ reg'.entry[e].owes = reg.entry[e].owes
  BY <1>1, <1>2, TimerTouched
<1>4. reg'.entry[e].timer # "none" <=> reg.entry[e].timer # "none"
  BY <1>1, <1>3
<1>5. Good(reg', scope, step, cloud, closing, reclaims)
  BY <1>3, <1>4, TickTo DEF Fine
<1> QED
  BY <1>1, <1>5

\* Expire keeps the invariant.
LEMMA ExpireKeeps ==
    ASSUME Fine, SceneOk, Spare, NEW e \in Entries, Expire(e)
    PROVE  Good(reg', scope', step', cloud', closing', reclaims')
<1>1. scope' = scope /\ step' = step /\ cloud' = cloud /\ closing' = closing /\ reclaims' = reclaims
  BY DEF Expire
<1>2. reg \in Registry /\ Stocked(reg)
  BY FineTypes, SpareIs
<1> DEFINE y == [reg EXCEPT !.entry[e].timer = "none"]
<1>3. \/ reg.entry[e].timer = "fired" /\ reg' = IF y.entry[e].gone # "no" THEN y ELSE TakeOut(y, e, Nobody)
      \/ reg.entry[e].stale /\ StaleSet(reg, reg', e)
  BY DEF Expire, StaleSet
<1>4. TimerSet(reg, y, e, "none")
  BY DEF TimerSet
<1> HIDE DEF y
<1>5. CASE reg.entry[e].timer = "fired" /\ reg' = IF y.entry[e].gone # "no" THEN y ELSE TakeOut(y, e, Nobody)
  <2>1. y.entry[e].gone = "no" /\ Good(TakeOut(y, e, Nobody), scope, step, cloud, closing, reclaims)
    BY <1>2, <1>4, <1>5, ExpireTo DEF Fine
  <2> QED
    BY <1>1, <1>5, <2>1
<1>6. CASE reg.entry[e].stale /\ StaleSet(reg, reg', e)
  <2>1. /\ Touched(reg, reg', e) /\ reg'.entry[e].timer = reg.entry[e].timer
        /\ reg'.entry[e].lease = reg.entry[e].lease /\ reg'.entry[e].owes = reg.entry[e].owes
    BY <1>2, <1>6, StaleTouched
  <2>2. reg'.entry[e].timer # "none" <=> reg.entry[e].timer # "none"
    BY <2>1
  <2>3. Good(reg', scope, step, cloud, closing, reclaims)
    BY <2>1, <2>2, TickTo DEF Fine
  <2> QED
    BY <1>1, <2>3
<1> QED
  BY <1>3, <1>5, <1>6

\* GiveBack keeps the invariant.
LEMMA GiveBackKeeps ==
    ASSUME Fine, SceneOk, NEW e \in Entries, GiveBack(e)
    PROVE  Good(reg', scope', step', cloud', closing', reclaims')
<1> DEFINE v == IF reg.entry[e].owes THEN "off" ELSE cloud[Machine(e)]
<1>1. /\ reg.entry[e].gone = "going" /\ reg.entry[e].lease # "acquiring"
      /\ scope' = scope /\ step' = step /\ closing' = closing /\ reclaims' = reclaims
  BY DEF GiveBack
<1>2. BackIs(reg, reg', e)
  BY DEF GiveBack, BackIs, Sold
<1>3. cloud \in Cloud
  BY FineTypes
<1>4. CloudIs(cloud, cloud', Machine(e), v)
  BY <1>3 DEF GiveBack, CloudIs, Cloud
<1>5. v = (IF reg.entry[e].owes THEN "off" ELSE cloud[Machine(e)])
  OBVIOUS
<1> HIDE DEF v
<1>6. Good(reg', scope, step, cloud', closing, reclaims)
  BY <1>1, <1>2, <1>4, <1>5, GiveBackTo DEF Fine
<1> QED
  BY <1>1, <1>6

\* Reclaim keeps the invariant.
LEMMA ReclaimKeeps ==
    ASSUME Fine, SceneOk, NEW m \in Entries, Reclaim(m)
    PROVE  Good(reg', scope', step', cloud', closing', reclaims')
<1>1. /\ cloud[m] = "running" /\ reclaims < scene.reclaims /\ reclaims' = reclaims + 1
      /\ CloudIs(cloud, cloud', m, "dead") /\ step' = [p \in Steps |-> Hit(step[p], m)]
      /\ reg' = reg /\ scope' = scope /\ closing' = closing
  BY DEF Reclaim, CloudIs, Hit
<1>2. Good(reg, scope, step', cloud', closing, reclaims + 1)
  BY <1>1, ReclaimTo DEF Fine
<1> QED
  BY <1>1, <1>2

\* Close keeps the invariant.
LEMMA CloseKeeps ==
    ASSUME Fine, SceneOk, Close
    PROVE  Good(reg', scope', step', cloud', closing', reclaims')
<1> DEFINE y == [reg EXCEPT !.closed = TRUE,
                            !.entry = [e \in Entries |->
                                IF e \notin Idlers(reg) THEN reg.entry[e] ELSE Stopped(reg.entry[e])]]
<1>1. /\ closing = "no" /\ closing' = "waiting"
      /\ scope' = [s \in Scopes |-> [scope[s] EXCEPT !.cancelled = TRUE]]
      /\ step' = step /\ cloud' = cloud /\ reclaims' = reclaims
  BY DEF Close
<1>2. reg' = TakeOutAll(y, Idlers(reg))
  BY DEF Close, Idlers, Stopped
<1>3. Shut(reg, y, Idlers(reg))
  BY DEF Shut
<1> HIDE DEF y
<1>4. Good(reg, scope, step, cloud, "no", reclaims)
  BY <1>1 DEF Fine
<1>5. Good(reg', scope', step, cloud, "waiting", reclaims)
  BY <1>1, <1>2, <1>3, <1>4, CloseAllTo
<1> QED
  BY <1>1, <1>5

\* CloseForce keeps the invariant.
LEMMA ForceKeeps ==
    ASSUME Fine, SceneOk, CloseForce
    PROVE  Good(reg', scope', step', cloud', closing', reclaims')
<1>1. /\ closing = "waiting" /\ closing' = "forced"
      /\ reg' = TakeOutAll(reg, {e \in reg.live : reg.entry[e].gone = "no"})
      /\ scope' = scope /\ step' = step /\ cloud' = cloud /\ reclaims' = reclaims
  BY DEF CloseForce
<1>2. Good(reg, scope, step, cloud, "waiting", reclaims)
  BY <1>1 DEF Fine
<1>3. Good(reg', scope, step, cloud, "forced", reclaims)
  BY <1>1, <1>2, ForceTo
<1> QED
  BY <1>1, <1>3

\* CloseReturn keeps the invariant.
LEMMA ReturnKeeps ==
    ASSUME Fine, CloseReturn
    PROVE  Good(reg', scope', step', cloud', closing', reclaims')
<1>1. /\ closing \in {"waiting", "forced"} /\ closing' = "closed"
      /\ reg' = reg /\ scope' = scope /\ step' = step /\ cloud' = cloud /\ reclaims' = reclaims
  BY DEF CloseReturn
<1>2. Good(reg, scope, step, cloud, "closed", reclaims)
  BY <1>1, ReturnTo DEF Fine
<1> QED
  BY <1>1, <1>2

-----------------------------------------------------------------------------
(* The invariance.                                                         *)

\* What the mapping says of the registry stays as it is, with the mapping.
LEMMA CoreStays ==
    ASSUME scene' = scene, Core(reg', Held(scope'))
    PROVE  Core(reg, Held(scope))'
<1>1. /\ Typed(reg', Held(scope')) /\ \A e \in Entries : EntryOk(reg', Held(scope'), e)
      /\ Queue(reg') /\ Pool(reg') /\ One(reg')
  BY DEF Core
<1>2. Parked' <=> Parked
  BY DEF Parked
<1>3. \A e \in Entries : EntryOk(reg, Held(scope), e)'
  <2> TAKE e \in Entries
  <2>1. Tallied(reg', Held(scope'), e) /\ HeldByOne(reg', Held(scope'), e) /\ Alive(reg', e)
    BY <1>1 DEF EntryOk
  <2>2. Tallied(reg, Held(scope), e)'
    BY <2>1 DEF Tallied
  <2>3. HeldByOne(reg, Held(scope), e)'
    BY <2>1 DEF HeldByOne
  <2>4. Alive(reg, e)'
    BY <1>2, <2>1 DEF Alive
  <2> QED
    BY <2>2, <2>3, <2>4 DEF EntryOk
<1>4. Pool(reg)'
  BY <1>1 DEF Pool
<1>5. One(reg)'
  BY <1>1, <1>2 DEF One
<1> QED
  BY <1>1, <1>3, <1>4, <1>5 DEF Core

\* Nor of anything else.
LEMMA FineStays ==
    ASSUME scene' = scene, Good(reg', scope', step', cloud', closing', reclaims')
    PROVE  Fine'
<1>1. /\ Shape(scope', step', cloud', closing', reclaims')
      /\ Sound(reg', scope', closing')
      /\ \A p \in Steps : StepOk(reg', scope', cloud', closing', p, step'[p])
      /\ OneAcquirer(step')
      /\ \A s \in Scopes : ScopeOk(reg', scope', closing', s)
      /\ \A s \in Scopes : Claiming(scope', step', s)
      /\ \A s \in Jobs : Placed(reg', scope', closing', s)
      /\ Capped(reg', step')
      /\ Up(reg', cloud') /\ Billed(reg', cloud')
  BY DEF Good
<1>2. (Parked' <=> Parked) /\ \A e : Machine(e)' = Machine(e)
  BY DEF Parked, Machine
<1>3. Shape(scope, step, cloud, closing, reclaims)'
  BY <1>1 DEF Shape
<1>4. Sound(reg, scope, closing)'
  <2>1. /\ Core(reg', Held(scope')) /\ Idle(reg') /\ (~Over(closing') => Quiet(reg')) /\ Settled(reg')
        /\ (reg'.closed <=> closing' # "no")
    BY <1>1 DEF Sound
  <2>2. Core(reg, Held(scope))'
    BY <2>1, CoreStays
  <2>3. Settled(reg)'
    BY <2>1 DEF Settled
  <2> QED
    BY <2>1, <2>2, <2>3 DEF Sound
<1>5. \A p \in Steps : StepOk(reg, scope, cloud, closing, p, step[p])'
  BY <1>1, <1>2 DEF StepOk
<1>6. \A s \in Jobs : Placed(reg, scope, closing, s)'
  BY <1>1 DEF Placed
<1>7. Capped(reg, step)'
  BY <1>1 DEF Capped, NoCheck, Within
<1>8. Up(reg, cloud)'
  BY <1>1, <1>2 DEF Up
<1>9. Billed(reg, cloud)'
  BY <1>1, <1>2 DEF Billed
<1> QED
  BY <1>1, <1>3, <1>4, <1>5, <1>6, <1>7, <1>8, <1>9 DEF Fine, Good

\* The invariant, of the mappings looked at.
Inv == scene \in Scenes /\ Fine

\* Every mapping looked at is one the code accepts (parsePool).
LEMMA ScenesOk ==
    ASSUME scene \in Scenes
    PROVE  SceneOk
BY LeasesAssumption DEF SceneOk

\* The invariant holds in the beginning.
LEMMA Begins == Init => Inv
<1> SUFFICES ASSUME Init PROVE Inv
  OBVIOUS
<1>1. SceneOk /\ scene \in Scenes
  BY ScenesOk DEF Init
<1>2. /\ \A e \in Entries : reg.entry[e] = NewEntry
      /\ reg.current = None /\ reg.members = <<>> /\ reg.waiters = <<>> /\ reg.live = {} /\ reg.closed = FALSE
      /\ \A s \in Scopes : reg.reserved[s] = 0
      /\ \A p \in Steps : reg.got[p] = None
  BY DEF Init
<1>3. reg \in Registry
  <2>1. /\ [e \in Entries |-> NewEntry] \in [Entries -> EntryType]
        /\ [s \in Scopes |-> 0] \in [Scopes -> 0..1]
        /\ [p \in Steps |-> None] \in [Steps -> Entries \cup {None}]
        /\ <<>> \in Seq(Entries) /\ <<>> \in Seq(Steps) /\ {} \in SUBSET Entries
    BY NewEntryIs
  <2> QED
    BY <2>1 DEF Init, Registry
<1>4. /\ \A s \in Scopes : /\ scope[s].phase = "open" /\ ~scope[s].cancelled /\ ~scope[s].claiming
                           /\ \A t \in Tags : scope[s].held[t] = None
                           /\ \A e \in Entries : scope[s].owed[e] = 0
      /\ scope \in [Scopes -> ScopeType]
  <2>1. /\ [t \in Tags |-> None] \in [Tags -> Entries \cup {None}] /\ [e \in Entries |-> 0] \in [Entries -> Nat]
    OBVIOUS
  <2>2. scope = [s \in Scopes |-> [phase |-> "open", cancelled |-> FALSE,
                                   held |-> [t \in Tags |-> None], owed |-> [e \in Entries |-> 0],
                                   claiming |-> FALSE]]
    BY DEF Init
  <2>3. scope \in [Scopes -> ScopeType]
    BY <2>1, <2>2 DEF ScopeType
  <2> QED
    BY <2>2, <2>3
<1>5. /\ \A p \in Steps : /\ step[p].pc \in {"new", "done"} /\ step[p].tries = 0
                          /\ p \notin scene.cast => step[p].pc = "done"
                          /\ p \in scene.cast => step[p].pc = "new"
      /\ step \in [Steps -> StepType]
  <2>1. 0 \in 0..Retries
    BY Constants
  <2>2. step = [p \in Steps |-> [pc |-> IF p \in scene.cast THEN "new" ELSE "done",
                                 at |-> None, tries |-> 0]]
    BY DEF Init
  <2>3. step \in [Steps -> StepType]
    BY <2>1, <2>2 DEF StepType
  <2> QED
    BY <2>2, <2>3
<1>6. cloud \in Cloud /\ (\A e \in Entries : cloud[e] = "off") /\ closing = "no" /\ reclaims = 0
  BY DEF Init, Cloud
<1>7. scene.reclaims \in Nat /\ scene.max \in Nat /\ scene.cast \subseteq Steps
  BY <1>1 DEF SceneOk, SceneType
<1>8. /\ Held(scope) \in HoldingType
      /\ \A s \in Scopes : \A e \in Entries : Held(scope)[s][e] = 0
  <2>1. Held(scope) \in HoldingType
    BY <1>4, HeldType
  <2>2. ASSUME NEW s \in Scopes, NEW e \in Entries PROVE Held(scope)[s][e] = 0
    <3>1. e # None
      BY Constants
    <3>2. ~(\E t \in Tags : scope[s].held[t] = e) /\ ~(scope[s].owed[e] > 0)
      BY <1>4, <3>1
    <3>3. ~(Held(scope)[s][e] > 0)
      BY <1>4, <3>2, HeldType
    <3>4. Held(scope)[s][e] \in Nat
      BY <2>1 DEF HoldingType
    <3> QED
      BY <3>3, <3>4
  <2> QED
    BY <2>1, <2>2
<1>9. Members(reg) = {} /\ Waiting(reg) = {} /\ Len(reg.members) = 0 /\ Once(reg.members) /\ Once(reg.waiters)
  BY <1>2, <1>3, Parts, SetOf DEF Members, Waiting, Once
<1>10. \A e \in Entries : /\ Total(Held(scope), e) = 0 /\ JobTotal(Held(scope), e) = 0
                          /\ Cardinality(Handed(reg, e)) = 0 /\ Handed(reg, e) = {}
  <2> TAKE e \in Entries
  <2>1. Total(Held(scope), e) = 0 /\ JobTotal(Held(scope), e) = 0
    BY <1>8, TotalType, Constants
  <2>2. \A p \in Steps : reg.got[p] # e
    BY <1>2, Constants
  <2> QED
    BY <2>1, <2>2, HandedType DEF Handed
<1>11. Core(reg, Held(scope))
  <2>1. \A e \in Entries : EntryOk(reg, Held(scope), e)
    <3> TAKE e \in Entries
    <3>1. Tallied(reg, Held(scope), e)
      BY <1>2, <1>10, NewEntryIs DEF Tallied
    <3>2. HeldByOne(reg, Held(scope), e)
      <4>1. Nobody \notin Checks
        BY Constants
      <4>2. \A s \in Jobs : ~(Held(scope)[s][e] > 0)
        BY <1>8, Constants
      <4> QED
        BY <1>2, <1>10, <4>1, <4>2, NewEntryIs DEF HeldByOne
    <3>3. Alive(reg, e)
      BY <1>2, NewEntryIs DEF Alive
    <3> QED
      BY <3>1, <3>2, <3>3 DEF EntryOk
  <2>2. \A p \in Steps : ~InLine(reg, p)
    BY <1>2, <1>9 DEF InLine
  <2>3. Queue(reg)
    BY <1>9, <2>2 DEF Queue
  <2>4. Pool(reg)
    BY <1>2, <1>9 DEF Pool
  <2>5. One(reg)
    BY <1>2 DEF One
  <2> QED
    BY <1>3, <1>8, <1>9, <2>1, <2>3, <2>4, <2>5 DEF Core, Typed
<1>12. Sound(reg, scope, closing)
  <2>1. Idle(reg)
    BY <1>2, NewEntryIs DEF Idle, Ticks
  <2>2. Quiet(reg)
    BY <1>2, NewEntryIs DEF Quiet
  <2>3. Settled(reg)
    BY <1>2 DEF Settled
  <2> QED
    BY <1>2, <1>6, <1>11, <2>1, <2>2, <2>3 DEF Sound
<1>13. \A p \in Steps : StepOk(reg, scope, cloud, closing, p, step[p])
  <2> TAKE p \in Steps
  <2>1. ~InLine(reg, p) /\ ScopeOf[p] \in Scopes
    BY <1>2, <1>9, Constants DEF InLine
  <2>2. step[p].pc \in {"new", "done"} /\ step[p].tries = 0 /\ (p \notin scene.cast => step[p].pc = "done")
    BY <1>5
  <2> QED
    BY <1>4, <2>1, <2>2 DEF StepOk, On
<1>14. OneAcquirer(step)
  BY <1>5 DEF OneAcquirer
<1>15. \A s \in Scopes : ScopeOk(reg, scope, closing, s) /\ Claiming(scope, step, s)
  BY <1>4, <1>6 DEF ScopeOk, Claiming
<1>16. \A s \in Jobs : Placed(reg, scope, closing, s)
  BY <1>2, <1>8, Constants DEF Placed
<1>17. Capped(reg, step)
  <2>1. Reserved(reg) = 0
    <3>1. reg.reserved \in [Scopes -> Nat]
      BY <1>3, Parts
    <3> QED
      BY <1>2, <3>1, Constants, SumZero DEF Reserved
  <2> QED
    BY <1>7, <1>9, <2>1 DEF Capped, Within
<1>18. Up(reg, cloud) /\ Billed(reg, cloud)
  BY <1>2, <1>6 DEF Up, Billed
<1>19. Shape(scope, step, cloud, closing, reclaims)
  BY <1>4, <1>5, <1>6, <1>7 DEF Shape
<1> QED
  BY <1>1, <1>12, <1>13, <1>14, <1>15, <1>16, <1>17, <1>18, <1>19 DEF Inv, Fine, Good

\* And every step keeps it.
LEMMA Inductive == Inv /\ [Next]_vars => Inv'
<1> SUFFICES ASSUME Inv, [Next]_vars PROVE Inv'
  OBVIOUS
<1>1. SceneOk /\ Fine /\ scene \in Scenes
  BY ScenesOk DEF Inv
<1>2. CASE UNCHANGED vars
  <2>1. scene' = scene /\ Good(reg', scope', step', cloud', closing', reclaims')
    BY <1>1, <1>2 DEF vars, Fine
  <2> QED
    BY <1>1, <2>1, FineStays DEF Inv
<1>3. CASE Next
  <2>1. ASSUME NEW p \in Steps, StepNext(p), Spare
        PROVE  scene' = scene /\ Good(reg', scope', step', cloud', closing', reclaims')
    <3>1. CASE Claim(p)
      BY <1>1, <2>1, <3>1, ClaimKeeps DEF Claim
    <3>2. CASE Wake(p)
      BY <1>1, <3>2, WakeKeeps DEF Wake
    <3>3. CASE Served(p)
      BY <1>1, <3>3, ServedKeeps DEF Served
    <3>4. CASE Leave(p)
      BY <1>1, <3>4, LeaveKeeps DEF Leave
    <3>5. CASE Resolve(p)
      BY <1>1, <3>5, ResolveKeeps DEF Resolve
    <3>6. CASE Acquired(p)
      BY <1>1, <3>6, AcquiredKeeps DEF Acquired
    <3>7. CASE AcquireFails(p)
      BY <1>1, <3>7, FailsKeeps DEF AcquireFails
    <3>8. CASE Finish(p)
      BY <1>1, <3>8, FinishKeeps DEF Finish
    <3>9. CASE Abandon(p)
      BY <1>1, <2>1, <3>9, AbandonKeeps DEF Abandon
    <3>10. CASE Abandoned(p)
      BY <1>1, <3>10, AbandonedKeeps DEF Abandoned
    <3> QED
      BY <2>1, <3>1, <3>2, <3>3, <3>4, <3>5, <3>6, <3>7, <3>8, <3>9, <3>10 DEF StepNext
  <2>2. ASSUME NEW s \in Scopes, ScopeNext(s), Spare
        PROVE  scene' = scene /\ Good(reg', scope', step', cloud', closing', reclaims')
    <3>1. CASE EndScope(s)
      BY <1>1, <3>1, EndKeeps DEF EndScope
    <3>2. CASE Unreserve(s)
      BY <1>1, <2>2, <3>2, UnreserveKeeps DEF Unreserve
    <3>3. CASE \E e \in Entries : Drop(s, e)
      BY <1>1, <2>2, <3>3, DropKeeps DEF Drop
    <3> QED
      BY <2>2, <3>1, <3>2, <3>3 DEF ScopeNext
  <2>3. ASSUME NEW e \in Entries, EntryNext(e), Spare
        PROVE  scene' = scene /\ Good(reg', scope', step', cloud', closing', reclaims')
    <3>1. CASE Fire(e)
      BY <1>1, <3>1, FireKeeps DEF Fire
    <3>2. CASE Expire(e)
      BY <1>1, <2>3, <3>2, ExpireKeeps DEF Expire
    <3>3. CASE GiveBack(e)
      BY <1>1, <3>3, GiveBackKeeps DEF GiveBack
    <3> QED
      BY <2>3, <3>1, <3>2, <3>3 DEF EntryNext
  <2>4. CASE CloseForce
    BY <1>1, <2>4, ForceKeeps, FineStays DEF CloseForce, Inv
  <2>5. CASE CloseReturn
    BY <1>1, <2>5, ReturnKeeps, FineStays DEF CloseReturn, Inv
  <2>6. CASE Close
    BY <1>1, <2>6, CloseKeeps, FineStays DEF Close, Inv
  <2>7. ASSUME NEW s \in Scopes, Cancel(s)
        PROVE  scene' = scene /\ Good(reg', scope', step', cloud', closing', reclaims')
    BY <1>1, <2>7, CancelKeeps DEF Cancel
  <2>8. ASSUME NEW m \in Entries, Reclaim(m)
        PROVE  scene' = scene /\ Good(reg', scope', step', cloud', closing', reclaims')
    BY <1>1, <2>8, ReclaimKeeps DEF Reclaim
  <2>9. ASSUME scene' = scene, Good(reg', scope', step', cloud', closing', reclaims')
        PROVE  Inv'
    BY <1>1, <2>9, FineStays DEF Inv
  <2> QED
    BY <1>3, <2>1, <2>2, <2>3, <2>4, <2>5, <2>6, <2>7, <2>8, <2>9 DEF Next, Progress, FromOutside
<1> QED
  BY <1>2, <1>3

\* Every state of the mapping.
THEOREM Invariance == Spec => []Inv
<1>1. Init => Inv
  BY Begins
<1>2. Inv /\ [Next]_vars => Inv'
  BY Inductive
<1> QED
  BY <1>1, <1>2, PTL DEF Spec

-----------------------------------------------------------------------------
(* What the invariant says of the properties.                              *)

\* The invariant, part by part.
LEMMA InvParts ==
    ASSUME Inv
    PROVE  /\ SceneOk /\ scene \in Scenes
           /\ Shape(scope, step, cloud, closing, reclaims) /\ Sound(reg, scope, closing)
           /\ reg \in Registry /\ Once(reg.members) /\ Once(reg.waiters)
           /\ \A e \in Entries : EntryOk(reg, Held(scope), e)
           /\ \A p \in Steps : StepOk(reg, scope, cloud, closing, p, step[p])
           /\ Capped(reg, step) /\ Billed(reg, cloud)
<1>1. Good(reg, scope, step, cloud, closing, reclaims) /\ scene \in Scenes
  BY DEF Inv, Fine
<1>2. Sound(reg, scope, closing) /\ Core(reg, Held(scope))
  BY <1>1 DEF Good, Sound
<1> QED
  BY <1>1, <1>2, ScenesOk DEF Good, Core, Typed

\* Holds is what the invariant counts by.
LEMMA HoldsIs ==
    ASSUME scope \in [Scopes -> ScopeType]
    PROVE  \A s \in Scopes : \A e \in Entries : Holds(s, e) = Held(scope)[s][e]
BY DEF Holds, Held, HeldIn

\* CountsAddUp, of the invariant.
LEMMA InvCounts == Inv => CountsAddUp
<1> SUFFICES ASSUME Inv, NEW e \in reg.live
             PROVE  reg.entry[e].refs = SumFunction([s \in Scopes |-> Holds(s, e)])
                                        + Cardinality({p \in Steps : reg.got[p] = e})
  BY DEF CountsAddUp
<1>1. e \in Entries /\ scope \in [Scopes -> ScopeType]
  BY InvParts, Parts DEF Shape
<1>2. [s \in Scopes |-> Holds(s, e)] = [s \in Scopes |-> Held(scope)[s][e]]
  BY <1>1, HoldsIs
<1>3. reg.entry[e].refs = Total(Held(scope), e) + Cardinality(Handed(reg, e))
  BY <1>1, InvParts DEF EntryOk, Tallied
<1> QED
  BY <1>2, <1>3 DEF Total, Handed

\* NotUnderAUser, of the invariant.
LEMMA InvUsers == Inv => NotUnderAUser
BY InvParts DEF NotUnderAUser, StepOk, Over

\* EvictedGoesFirst, of the invariant.
LEMMA InvEvicted == Inv => EvictedGoesFirst
BY InvParts DEF EvictedGoesFirst, StepOk, Over

\* NothingLeftBilling, of the invariant.
LEMMA InvBilled == Inv => NothingLeftBilling
BY InvParts DEF NothingLeftBilling, Billed, Kept

\* PoolHolds, of the invariant.
LEMMA InvPool == Inv => PoolHolds
<1> SUFFICES ASSUME Inv, scene.exclusive PROVE PoolHolds
  BY DEF PoolHolds
<1>1. ASSUME NEW s \in Scopes \ Checks, NEW o \in Scopes \ Checks, NEW e \in ToSet(reg.members), s # o
      PROVE  ~(Holds(s, e) > 0 /\ Holds(o, e) > 0)
  <2>1. e \in Entries
    BY InvParts, Parts DEF Members
  <2>2. Holds(s, e) = Held(scope)[s][e] /\ Holds(o, e) = Held(scope)[o][e]
    BY <2>1, InvParts, HoldsIs DEF Shape
  <2>3. \A t \in Jobs : Held(scope)[t][e] > 0 => reg.entry[e].holder = t
    BY <2>1, InvParts DEF EntryOk, HeldByOne
  <2> QED
    BY <1>1, <2>2, <2>3 DEF Jobs
<1>2. NoCheckYet /\ scene.max > 0 => Len(reg.members) + Reserved(reg) <= scene.max
  BY InvParts DEF NoCheckYet, NoCheck, Capped, Within
<1> QED
  BY <1>1, <1>2 DEF PoolHolds

\* NobodyWaitsForNothing, of the invariant.
LEMMA InvWaits == Inv => NobodyWaitsForNothing
<1> SUFFICES ASSUME Inv, reg.waiters # <<>>, ~reg.closed
             PROVE  /\ ~Room(reg)
                    /\ Cardinality({e \in ToSet(reg.members) :
                          reg.entry[e].jobs = 0 /\ reg.entry[e].lease # "failed"}) <= Reserved(reg)
  BY DEF NobodyWaitsForNothing
<1>1. /\ scene.max > 0 /\ Len(reg.members) - Cardinality(Free(reg)) + Reserved(reg) >= scene.max
      /\ Cardinality(Free(reg)) <= Reserved(reg)
  BY InvParts DEF Sound, Settled
<1>2. Len(reg.members) \in Nat /\ Reserved(reg) \in Nat /\ Cardinality(Free(reg)) \in Nat
  <2>1. IsFiniteSet(Free(reg))
    <3>1. Free(reg) \subseteq Entries
      BY InvParts, Parts DEF Free
    <3> QED
      BY <3>1, Constants, FS_Subset
  <2> QED
    BY <2>1, InvParts, Sizes, FS_CardinalityType
<1>3. scene.max \in Nat
  BY InvParts DEF SceneOk, SceneType
<1>4. ~Room(reg)
  BY <1>1, <1>2, <1>3 DEF Room
<1> QED
  BY <1>1, <1>4 DEF Free, Members

\* TypeOK, of the invariant.
LEMMA InvType == Inv => TypeOK
<1> SUFFICES ASSUME Inv PROVE TypeOK
  OBVIOUS
<1>1. reg \in Registry /\ Shape(scope, step, cloud, closing, reclaims) /\ scene \in Scenes
  BY InvParts
<1>2. /\ reg.entry \in [Entries -> EntryType] /\ reg.current \in Entries \cup {None}
      /\ reg.reserved \in [Scopes -> 0..1]
      /\ reg.got \in [Steps -> Entries \cup {None}] /\ reg.live \subseteq Entries
  BY <1>1 DEF Registry
<1>3. /\ ToSet(reg.members) \subseteq Entries /\ IsInjective(reg.members)
      /\ ToSet(reg.waiters) \subseteq Steps /\ IsInjective(reg.waiters)
  <2>1. reg.members \in Seq(Entries) /\ reg.waiters \in Seq(Steps)
    BY <1>1, Parts
  <2> QED
    BY <2>1, SetOf, InvParts
<1>4. /\ scope \in [Scopes -> [phase: {"open", "releasing", "closed"}, cancelled: BOOLEAN,
                               held: [Tags -> Entries \cup {None}], owed: [Entries -> Nat],
                               claiming: BOOLEAN]]
      /\ step \in [Steps -> [pc: {"new", "landing", "sibling", "queued", "claimed", "acquiring",
                                  "using", "hit", "leaving", "done"},
                             at: Entries \cup {None}, tries: 0..Retries]]
  BY <1>1 DEF Shape, ScopeType, StepType
<1>5. /\ cloud \in [Entries -> {"off", "running", "dead"}]
      /\ closing \in {"no", "waiting", "forced", "closed"} /\ reclaims \in 0..scene.reclaims
  BY <1>1 DEF Shape, Cloud
<1> QED
  BY <1>1, <1>2, <1>3, <1>4, <1>5 DEF TypeOK

\* The type of the state.
THEOREM TypeCorrect == Spec => []TypeOK
BY Invariance, InvType, PTL

\* An entry's count is what the scopes that hold it and the waiters it was
\* handed to will give up (Registry.count, drop): so its last user gives the
\* machine back, and nobody before.
THEOREM CountsAlwaysAddUp == Spec => []CountsAddUp
BY Invariance, InvCounts, PTL

\* A machine a step is on is not given back, until Close stops waiting.
THEOREM NeverUnderAUser == Spec => []NotUnderAUser
BY Invariance, InvUsers, PTL

\* A machine steps started, and that runs, is owed its give-back by an entry
\* that is in use, about to expire or being given back.
THEOREM NothingLeft == Spec => []NothingLeftBilling
BY Invariance, InvBilled, PTL

\* One job at a time on a pooled machine; and a pool within ?max=, until a
\* check rides along.
THEOREM PoolAlwaysHolds == Spec => []PoolHolds
BY Invariance, InvPool, PTL

\* A job waits only for want of room (serve, after every step that makes any).
THEOREM NoLostWakeUp == Spec => []NobodyWaitsForNothing
BY Invariance, InvWaits, PTL

\* A step that is placed again does not queue: the place of the machine its
\* job lost is kept (retire, reserveFor).
THEOREM EvictedFirst == Spec => []EvictedGoesFirst
BY Invariance, InvEvicted, PTL
=============================================================================
