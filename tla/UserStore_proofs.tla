------------------------- MODULE UserStore_proofs ---------------------------
(***************************************************************************)
(* Proofs about UserStore for every number of sessions, camera types,      *)
(* cameras and labels.                                                     *)
(*                                                                         *)
(* The type invariant needs that an array is Ordered: finite, its          *)
(* positions bounded and no two entries at one position. A new entry gets  *)
(* the position after the last, and there is a last one only in a bounded  *)
(* array. Sound adds that no document hides an embedding of the old        *)
(* format.                                                                 *)
(*                                                                         *)
(* What a command has done to its document by the time it is at a camera   *)
(* is Halfway (each type is untouched, or as the command leaves it),       *)
(* Unpending (nothing is pending for the cameras behind SET_LABEL),        *)
(* Leftover (what is pending for types without a camera is as it was),     *)
(* Enrolled (for those behind ADD_USER, the new capture is) and Limited    *)
(* (no array is over the limit).                                           *)
(***************************************************************************)
EXTENDS UserStore, SortedSets, TLAPS

-----------------------------------------------------------------------------
(* Arrays of embeddings.                                                    *)

\* A bounded set of naturals that is not empty has a greatest element, Max.
LEMMA MaxOfBounded ==
    ASSUME NEW S \in SUBSET Nat, S # {}, NEW n \in Nat, \A y \in S : y <= n
    PROVE  Max(S) \in S /\ \A y \in S : y <= Max(S)
<1> DEFINE Above == {k \in Nat : \A y \in S : y <= k}
<1>1. PICK m \in Above : \A k \in Above : m <= k
  BY LeastNatural
<1>2. m \in S
  <2>1. SUFFICES ASSUME m \notin S PROVE FALSE
    OBVIOUS
  <2>2. \A y \in S : y <= m - 1
    BY <2>1
  <2>3. m - 1 \in Nat
    <3>1. PICK y \in S : TRUE
      OBVIOUS
    <3> QED BY <2>2, <3>1
  <2>4. m - 1 \in Above
    BY <2>2, <2>3
  <2> QED BY <1>1, <2>4
<1>3. \E x \in S : \A y \in S : x >= y
  BY <1>1, <1>2
<1> QED BY <1>3 DEF Max

\* The positions of an array are bounded, and every entry has its own.
Ordered(s) ==
    /\ \E n \in Nat : \A e \in s : e.at <= n
    /\ IsFiniteSet(s)
    /\ \A e, f \in s : e.at = f.at => e = f

\* The entries with other labels.
Rest(s, l) == {e \in s : e.label # l}

\* The first entry with a label, if there is one, is one of the array, and no other
\* with the label is before it.
LEMMA FirstIsLabelled ==
    ASSUME NEW s \in SUBSET Entries, NEW l, Labelled(s, l) # {}
    PROVE  /\ First(s, l) \in Labelled(s, l)
           /\ \A k \in Labelled(s, l) : First(s, l).at <= k.at
<1> DEFINE P == {e.at : e \in Labelled(s, l)}
<1>1. P \in SUBSET Nat /\ P # {}
  BY DEF Labelled, Entries
<1>2. PICK x \in P : \A y \in P : x <= y
  BY <1>1, LeastNatural
<1>3. PICK e \in Labelled(s, l) : e.at = x
  OBVIOUS
<1>4. \A k \in Labelled(s, l) : e.at <= k.at
  BY <1>2, <1>3
<1> QED BY <1>4 DEF First

\* An array with a new entry, a replaced or a refined one, is an array, and the
\* entries with other labels are the same.
LEMMA AddKeeps ==
    ASSUME NEW s \in SUBSET Entries, Ordered(s), NEW l \in Labels, NEW x \in SUBSET Sources
    PROVE  /\ Add(s, l, x) \in SUBSET Entries
           /\ Ordered(Add(s, l, x))
           /\ Rest(Add(s, l, x), l) = Rest(s, l)
<1> DEFINE P == {0} \cup {e.at : e \in s}
           new == [at |-> 1 + Max(P), label |-> l, data |-> x]
<1>1. PICK n \in Nat : \A e \in s : e.at <= n
  BY DEF Ordered
<1>2. P \in SUBSET Nat /\ P # {} /\ \A y \in P : y <= n
  BY <1>1 DEF Entries
<1>3. Max(P) \in P /\ \A y \in P : y <= Max(P)
  BY <1>2, MaxOfBounded
<1>4. Max(P) \in Nat
  BY <1>2, <1>3
<1>5. Add(s, l, x) = s \cup {new}
  BY DEF Add
<1>6. \A e \in s : e.at \in P
  OBVIOUS
<1> HIDE DEF P
<1>7. new \in Entries /\ new.label = l /\ new.at = 1 + Max(P)
  BY <1>4 DEF Entries
<1>8. \A e \in s : e.at <= 1 + Max(P)
  BY <1>3, <1>4, <1>6 DEF Entries
<1> HIDE DEF new
<1>9. Ordered(s \cup {new})
  <2>1. \E k \in Nat : \A e \in s \cup {new} : e.at <= k
    BY <1>4, <1>7, <1>8
  <2>2. IsFiniteSet(s \cup {new})
    BY FS_AddElement DEF Ordered
  <2>3. \A e \in s : e.at # new.at
    BY <1>3, <1>4, <1>6, <1>7
  <2>4. \A e, f \in s \cup {new} : e.at = f.at => e = f
    BY <2>3 DEF Ordered
  <2> QED BY <2>1, <2>2, <2>4 DEF Ordered
<1> QED BY <1>5, <1>7, <1>9 DEF Rest

\* The same for a label whose entry is replaced,
LEMMA PutKeeps ==
    ASSUME NEW s \in SUBSET Entries, Ordered(s), NEW l \in Labels, NEW x \in SUBSET Sources
    PROVE  /\ Put(s, l, x) \in SUBSET Entries
           /\ Ordered(Put(s, l, x))
           /\ Rest(Put(s, l, x), l) = Rest(s, l)
<1>1. CASE Labelled(s, l) = {}
  BY <1>1, AddKeeps DEF Put
<1>2. CASE Labelled(s, l) # {}
  <2> DEFINE old == First(s, l)
             new == [old EXCEPT !.data = x]
  <2>1. old \in s /\ old.label = l
    BY <1>2, FirstIsLabelled DEF Labelled
  <2>2. new \in Entries /\ new.label = l /\ new.at = old.at
    BY <2>1 DEF Entries
  <2>3. Put(s, l, x) = (s \ {old}) \cup {new}
    BY <1>2 DEF Put
  <2> HIDE DEF old, new
  <2>4. Ordered((s \ {old}) \cup {new})
    <3>1. IsFiniteSet((s \ {old}) \cup {new})
      BY FS_AddElement, FS_RemoveElement DEF Ordered
    <3>2. \A e, f \in (s \ {old}) \cup {new} : e.at = f.at => e = f
      BY <2>1, <2>2 DEF Ordered
    <3>3. \E n \in Nat : \A e \in (s \ {old}) \cup {new} : e.at <= n
      BY <2>1, <2>2 DEF Ordered
    <3> QED BY <3>1, <3>2, <3>3 DEF Ordered
  <2> QED BY <2>1, <2>2, <2>3, <2>4 DEF Rest
<1> QED BY <1>1, <1>2

\* and for one whose entry is averaged with a new capture.
LEMMA RefineKeeps ==
    ASSUME NEW s \in SUBSET Entries, Ordered(s), NEW l \in Labels, NEW x \in SUBSET Sources
    PROVE  /\ Refine(s, l, x) \in SUBSET Entries
           /\ Ordered(Refine(s, l, x))
           /\ Rest(Refine(s, l, x), l) = Rest(s, l)
<1>1. CASE Labelled(s, l) = {}
  BY <1>1, AddKeeps DEF Refine
<1>2. CASE Labelled(s, l) # {}
  <2>1. First(s, l) \in Entries
    BY <1>2, FirstIsLabelled DEF Labelled
  <2>2. First(s, l).data \cup x \in SUBSET Sources
    BY <2>1 DEF Entries
  <2> QED BY <1>2, <2>2, PutKeeps DEF Refine
<1> QED BY <1>1, <1>2

-----------------------------------------------------------------------------
(* Documents.                                                               *)

Sound(d) ==
    /\ d \in Docs
    /\ ~Shadowed(d)
    /\ \A t \in Types : Ordered(d.entries[t]) /\ (d.entries[t] # {} => d.array[t])

\* The document that is replaced when nothing parses.
LEMMA NoDocSound == Sound(NoDoc)
BY FS_EmptySet DEF Sound, NoDoc, Docs, Shadowed, Ordered

\* Moving the embedding of the old format into a new array keeps what
\* verifyUserCore compares faces with.
LEMMA MigrateKeeps ==
    ASSUME NEW d, Sound(d), NEW t \in Types
    PROVE  /\ Sound(Migrate(d, t))
           /\ Migrate(d, t).array[t]
           /\ Migrate(d, t).pending = d.pending
           /\ \A u \in Types : Templates(Migrate(d, t), u) = Templates(d, u)
<1> DEFINE m == Migrate(d, t)
           moved == Migrated(d, t)
<1>1. CASE d.array[t]
  BY <1>1 DEF Migrate
<1>2. CASE ~d.array[t]
  <2>1. m = [d EXCEPT !.array[t] = TRUE, !.legacy[t] = {}, !.entries[t] = moved]
    BY <1>2 DEF Migrate
  <2>2. moved \in SUBSET Entries /\ Ordered(moved)
    <3>1. Default \in Labels
      BY StoreAssumption DEF StoreAssumption
    <3>2. d.legacy[t] \in SUBSET Sources
      BY DEF Sound, Docs
    <3>3. \A e \in moved : e.at <= 1
      BY DEF Migrated
    <3>4. IsFiniteSet(moved)
      BY FS_EmptySet, FS_Singleton DEF Migrated
    <3>5. \A e, f \in moved : e = f
      BY DEF Migrated
    <3>6. moved \in SUBSET Entries
      BY <3>1, <3>2 DEF Migrated, Entries
    <3> HIDE DEF moved
    <3> QED BY <3>3, <3>4, <3>5, <3>6 DEF Ordered
  <2> HIDE DEF moved
  <2>3. /\ d.array \in [Types -> BOOLEAN]
        /\ d.legacy \in [Types -> SUBSET Sources]
        /\ d.entries \in [Types -> SUBSET Entries]
        /\ d.pending \in [Types -> SUBSET Sources]
    BY DEF Sound, Docs
  <2>4. m = [pending |-> d.pending, legacy |-> [d.legacy EXCEPT ![t] = {}],
             array |-> [d.array EXCEPT ![t] = TRUE],
             entries |-> [d.entries EXCEPT ![t] = moved]]
    BY <2>1 DEF Sound, Docs
  <2> HIDE DEF m
  <2>5. m \in Docs
    BY <2>2, <2>3, <2>4 DEF Docs
  <2>6. ~Shadowed(m)
    BY <2>3, <2>4 DEF Sound, Shadowed
  <2>7. \A u \in Types : Ordered(m.entries[u]) /\ (m.entries[u] # {} => m.array[u])
    BY <2>2, <2>3, <2>4 DEF Sound
  <2>8. Sound(m) /\ m.array[t] /\ m.pending = d.pending
    BY <2>3, <2>4, <2>5, <2>6, <2>7 DEF Sound
  <2>9. \A u \in Types : Templates(m, u) = Templates(d, u)
    <3>1. TAKE u \in Types
    <3>2. CASE u = t
      BY <1>2, <2>3, <2>4, <3>2 DEF Templates, moved
    <3>3. CASE u # t
      BY <2>3, <2>4, <3>3 DEF Templates, Migrated
    <3> QED BY <3>2, <3>3
  <2> QED BY <2>8, <2>9 DEF m
<1> QED BY <1>1, <1>2

\* A document with another array and other pending captures for a type.
Edited(d, t, p, s) == [d EXCEPT !.pending[t] = p, !.entries[t] = s]

\* Changing an array that exists in the entries with one label, and what is
\* pending, leaves every other template as it was.
LEMMA EditKeeps ==
    ASSUME NEW d, Sound(d), NEW t \in Types, NEW l,
           NEW s \in SUBSET Entries, Ordered(s), s # {} => d.array[t],
           Rest(s, l) = Rest(d.entries[t], l),
           NEW p \in SUBSET Sources
    PROVE  /\ Sound(Edited(d, t, p, s))
           /\ \A u \in Types :
                Others(Edited(d, t, p, s), u, l) = Others(d, u, l)
<1> DEFINE n == Edited(d, t, p, s)
<1>1. n \in Docs
  BY DEF Sound, Docs, Edited
<1>2. /\ n.array = d.array /\ n.legacy = d.legacy
      /\ n.entries = [d.entries EXCEPT ![t] = s]
  BY DEF Sound, Docs, Edited
<1> HIDE DEF n
<1>3. d.entries \in [Types -> SUBSET Entries]
  BY DEF Sound, Docs
<1>4. Sound(n)
  BY <1>1, <1>2, <1>3 DEF Sound, Shadowed
<1>5. \A u \in Types : Others(n, u, l) = Others(d, u, l)
  <2>1. TAKE u \in Types
  <2>2. CASE u = t /\ d.array[t]
    BY <1>2, <1>3, <2>2 DEF Others, Templates, Rest
  <2>3. CASE u # t \/ ~d.array[t]
    BY <1>2, <1>3, <2>3 DEF Others, Templates, Migrated
  <2> QED BY <2>2, <2>3
<1> QED BY <1>4, <1>5 DEF n

-----------------------------------------------------------------------------
(* Types.                                                                   *)

\* StoreTypeOK and the facts about documents that make it inductive.
StoreInv ==
    /\ StoreTypeOK
    /\ Sound(file.doc)
    /\ job # Idle => Sound(job.doc)

\* A job is a record of Jobs exactly when it is not Idle.
LEMMA JobCases ==
    ASSUME StoreTypeOK
    PROVE  /\ job # Idle <=> job \in Jobs
           /\ job \in Jobs => job.op \in Ops
           /\ \A op \in Ops : job.op = op => job \in Jobs
BY DEF StoreTypeOK, Jobs, Idle, Ops

\* At a camera, there is a job, and the camera's type is one of Types.
LEMMA CameraTyped ==
    ASSUME StoreTypeOK, NEW op \in Ops, AtCamera(op)
    PROVE  /\ job \in Jobs
           /\ job # Idle
           /\ CameraType \in Types
           /\ job.cam \in DOMAIN layout
<1>1. job \in Jobs /\ job # Idle
  BY JobCases DEF AtCamera
<1>2. layout \in Seq(Types)
  BY StoreAssumption DEF StoreAssumption, StoreTypeOK
<1>3. job.cam \in 1 .. Len(layout)
  BY <1>1, <1>2 DEF AtCamera, Jobs
<1> QED BY <1>1, <1>2, <1>3 DEF CameraType

\* The types of what the initial states and the requests start from.
LEMMA StoreInit == Init => StoreInv
<1> SUFFICES ASSUME Init PROVE StoreInv
  OBVIOUS
<1>1. file \in Files /\ ~Shadowed(file.doc)
  BY StoreAssumption DEF StoreAssumption, Init
<1>2. file.doc \in Docs
  BY <1>1 DEF Files
<1>3. \A t \in Types :
        Ordered(file.doc.entries[t]) /\ (file.doc.entries[t] # {} => file.doc.array[t])
  <2>1. TAKE t \in Types
  <2> DEFINE s == file.doc.entries[t]
             n == Cardinality(s)
  <2>2. {e.at : e \in s} = 1 .. n /\ IsFiniteSet(s)
    BY StoreAssumption DEF StoreAssumption, Init
  <2>3. n \in Nat
    BY <2>2, FS_CardinalityType
  <2>3a. file.doc.entries[t] # {} => file.doc.array[t]
    BY StoreAssumption DEF StoreAssumption, Init
  <2> HIDE DEF s, n
  <2>4. \A e \in s : e.at \in 1 .. n
    BY <2>2
  <2>4a. \A e, f \in s : e.at = f.at => e = f
    <3> DEFINE at == [e \in s |-> e.at]
    <3>1. at \in Surjection(s, 1 .. n)
      BY <2>2 DEF Surjection
    <3>2. Cardinality(1 .. n) = n
      BY <2>3, FS_Interval
    <3>3. at \in Injection(s, 1 .. n)
      BY <2>2, <3>1, <3>2, FS_SurjSameCardinalityImpliesInj DEF n
    <3> QED BY <3>3 DEF Injection, IsInjective
  <2>5. \A e \in s : e.at <= n
    BY <2>3, <2>4
  <2> QED BY <2>2, <2>3, <2>3a, <2>4a, <2>5 DEF Ordered, s
<1>4. layout \in Layouts /\ job = Idle
  BY DEF Init
<1>5. sess \in [Sessions -> Progress] /\ \A s \in Sessions : sess[s].pc # "wait"
  BY DEF Init, Progress
<1> QED BY <1>1, <1>2, <1>3, <1>4, <1>5 DEF StoreInv, StoreTypeOK, Sound

\* The answer to a session ends its wait and nobody else's.
LEMMA AnswerTyped ==
    ASSUME StoreTypeOK, NEW s \in Sessions, NEW op, NEW r, Answer(s, op, r)
    PROVE  /\ sess' \in [Sessions -> Progress]
           /\ sess'[s].pc # "wait"
           /\ \A u \in Sessions : u # s => sess'[u] = sess[u]
<1> DEFINE pc   == IF op = "ADD_USER" /\ r = "SUCCESS" THEN "list" ELSE "done"
           said == IF op = "SET_LABEL" /\ r \notin {"", "ERROR"} THEN "saved" ELSE sess[s].said
<1>1. sess \in [Sessions -> Progress]
  BY DEF StoreTypeOK
<1>2. sess' = [sess EXCEPT ![s].pc = pc, ![s].said = said]
  BY DEF Answer
<1>3. pc \in {"list", "done"} /\ said \in {"nothing", "saved", "discarded"}
  BY <1>1 DEF Progress
<1> HIDE DEF pc, said
<1>4. [sess[s] EXCEPT !.pc = pc, !.said = said] \in Progress
  BY <1>1, <1>3 DEF Progress
<1>5. sess' = [sess EXCEPT ![s] = [sess[s] EXCEPT !.pc = pc, !.said = said]]
  BY <1>1, <1>2 DEF Progress
<1>6. sess'[s].pc = pc
  BY <1>1, <1>5 DEF Progress
<1> QED BY <1>1, <1>3, <1>4, <1>5, <1>6

\* A command that is sent is answered at once or becomes the job.
LEMMA RequestTyped ==
    ASSUME StoreInv, NEW s \in Sessions, sess[s].pc # "wait", NEW op \in Ops,
           NEW l \in Labels, Serve(s, op, l)
    PROVE  StoreInv'
<1>1. job = Idle /\ file' = file /\ layout' = layout
  BY DEF Serve
<1>2. CASE job' = job /\ \E r : Answer(s, op, r)
  <2>1. PICK r : Answer(s, op, r)
    BY <1>2
  <2>2. StoreTypeOK
    BY DEF StoreInv
  <2>3. /\ sess' \in [Sessions -> Progress]
        /\ sess'[s].pc # "wait"
        /\ \A u \in Sessions : u # s => sess'[u] = sess[u]
    BY <2>1, <2>2, AnswerTyped
  <2> QED BY <1>1, <1>2, <2>2, <2>3 DEF StoreInv, StoreTypeOK
<1>3. CASE /\ job' = [op |-> op, by |-> s, label |-> l, cam |-> 1, doc |-> file.doc,
                      updated |-> FALSE]
           /\ sess' = [sess EXCEPT ![s].pc = "wait"]
  <2>1. job' \in Jobs /\ job' # Idle /\ job'.by = s /\ job'.doc = file.doc
    BY <1>3 DEF StoreInv, StoreTypeOK, Sound, Jobs, Idle
  <2>2. /\ sess' \in [Sessions -> Progress]
        /\ \A u \in Sessions : sess'[u].pc = "wait" <=> u = s
    BY <1>1, <1>3 DEF StoreInv, StoreTypeOK, Progress
  <2> QED BY <1>1, <2>1, <2>2 DEF StoreInv, StoreTypeOK
<1> QED BY <1>2, <1>3 DEF Serve

\* A session that moves on its own, and not to wait.
LEMMA SessionTyped ==
    ASSUME StoreInv, UNCHANGED <<file, layout, job>>, sess' \in [Sessions -> Progress],
           NEW s \in Sessions, sess[s].pc # "wait", sess'[s].pc # "wait",
           \A u \in Sessions : u # s => sess'[u] = sess[u]
    PROVE  StoreInv'
BY DEF StoreInv, StoreTypeOK

\* Going on with the next camera.
LEMMA NextCameraTyped ==
    ASSUME StoreInv, job \in Jobs, NEW d, Sound(d), NEW u \in BOOLEAN, NextCamera(d, u)
    PROVE  StoreInv'
<1>1. job' = [job EXCEPT !.cam = @ + 1, !.doc = d, !.updated = job.updated \/ u]
  BY DEF NextCamera
<1>2. /\ job'.op = job.op /\ job'.by = job.by /\ job'.doc = d
      /\ job' \in Jobs
  <2>1. d \in Docs /\ job.cam + 1 \in Nat \ {0}
    BY DEF Sound, Jobs
  <2>2. (job.updated \/ u) \in BOOLEAN
    OBVIOUS
  <2> QED BY <1>1, <2>1, <2>2 DEF Jobs
<1>3. job # Idle /\ job' # Idle
  BY <1>2 DEF Jobs, Ops, Idle
<1> QED BY <1>2, <1>3 DEF StoreInv, StoreTypeOK, NextCamera

\* Returning from the loop.
LEMMA AbandonTyped ==
    ASSUME StoreInv, job \in Jobs, NEW r, Abandon(r)
    PROVE  StoreInv'
<1>1. StoreTypeOK /\ job.by \in Sessions /\ job # Idle
  BY JobCases DEF StoreInv, Jobs
<1>2. /\ sess' \in [Sessions -> Progress]
      /\ sess'[job.by].pc # "wait"
      /\ \A u \in Sessions : u # job.by => sess'[u] = sess[u]
  BY <1>1, AnswerTyped DEF Abandon
<1> QED BY <1>1, <1>2 DEF StoreInv, StoreTypeOK, Abandon

-----------------------------------------------------------------------------
(* What the iterations of the loops do to the document.                     *)

\* A command goes on with a sound document that differs only in the entries with
\* its label, or is abandoned.
GoesOn(d) ==
    /\ Sound(d)
    /\ \A t \in Types : Others(d, t, job.label) = Others(job.doc, t, job.label)

CameraStep ==
    /\ job \in Jobs
    /\ \/ \E r : Abandon(r)
       \/ \E d, u : u \in BOOLEAN /\ NextCamera(d, u) /\ GoesOn(d)

\* The document as it was.
LEMMA SameGoesOn ==
    ASSUME StoreInv, job \in Jobs
    PROVE  GoesOn(job.doc)
BY JobCases DEF StoreInv, GoesOn

\* A camera's array is replaced by s, after the migration or not.
LEMMA EditGoesOn ==
    ASSUME StoreInv, job \in Jobs, NEW t \in Types,
           NEW d, Sound(d), \A u \in Types : Templates(d, u) = Templates(job.doc, u),
           NEW s \in SUBSET Entries, Ordered(s), s # {} => d.array[t],
           Rest(s, job.label) = Rest(d.entries[t], job.label),
           NEW p \in SUBSET Sources
    PROVE  GoesOn(Edited(d, t, p, s))
<1> DEFINE n == Edited(d, t, p, s)
           l == job.label
<1>1. Sound(n) /\ \A u \in Types : Others(n, u, l) = Others(d, u, l)
  BY EditKeeps
<1> HIDE DEF n
<1>2. \A u \in Types : Others(d, u, l) = Others(job.doc, u, l)
  BY DEF Others
<1> QED BY <1>1, <1>2 DEF GoesOn, n

\* Keeping an array or what is pending is a special case.
LEMMA KeepingOne ==
    ASSUME NEW d, Sound(d), NEW t \in Types, NEW s, NEW p
    PROVE  /\ [d EXCEPT !.entries[t] = s] = Edited(d, t, d.pending[t], s)
           /\ [d EXCEPT !.pending[t] = p] = Edited(d, t, p, d.entries[t])
           /\ d.pending[t] \in SUBSET Sources
           /\ d.entries[t] \in SUBSET Entries
BY DEF Sound, Docs, Edited

\* enrollUser touches what is pending and no array.
LEMMA AddCameraSteps ==
    ASSUME StoreInv, NEW o \in Captures, AddCamera(o)
    PROVE  CameraStep
<1>1. job \in Jobs /\ CameraType \in Types /\ Sound(job.doc) /\ job.by \in Sessions
  BY CameraTyped DEF StoreInv, AddCamera, Ops, Jobs
<1> DEFINE d == [job.doc EXCEPT !.pending[CameraType] = {job.by}]
<1>2. CASE o = "one"
  <2>1. NextCamera(d, TRUE)
    BY <1>2 DEF AddCamera
  <2>2. {job.by} \in SUBSET Sources
    BY <1>1 DEF Sources
  <2>3. LET s == job.doc.entries[CameraType]
        IN  Ordered(s) /\ (s # {} => job.doc.array[CameraType])
    BY <1>1 DEF Sound
  <2>4. GoesOn(Edited(job.doc, CameraType, {job.by}, job.doc.entries[CameraType]))
    BY <1>1, <2>2, <2>3, KeepingOne, EditGoesOn
  <2>5. GoesOn(d)
    BY <1>1, <2>4, KeepingOne
  <2> QED BY <1>1, <2>1, <2>5 DEF CameraStep
<1>3. CASE o # "one"
  <2>1. Abandon("FAIL") \/ Abandon("ERROR")
    BY <1>3 DEF AddCamera, Captures
  <2> QED BY <1>1, <2>1 DEF CameraStep
<1> QED BY <1>2, <1>3

\* setLabel puts what is pending into the array, moved there first if need be.
LEMMA LabelCameraSteps ==
    ASSUME StoreInv, LabelCamera
    PROVE  CameraStep
<1> DEFINE t == CameraType
           x == job.doc.pending[t]
           d == Migrate(job.doc, t)
           s == Put(d.entries[t], job.label, x)
           n == Edited(d, t, {}, s)
<1>1. job \in Jobs /\ t \in Types /\ Sound(job.doc) /\ job.label \in Labels
  BY CameraTyped DEF StoreInv, LabelCamera, Ops, Jobs
<1>2. \/ NextCamera(job.doc, FALSE)
      \/ Abandon("FAIL")
      \/ NextCamera(n, TRUE)
  BY DEF LabelCamera, Edited
<1>3. GoesOn(n)
  <2>1. /\ Sound(d) /\ d.array[t]
        /\ \A u \in Types : Templates(d, u) = Templates(job.doc, u)
    BY <1>1, MigrateKeeps
  <2>2. x \in SUBSET Sources
    BY <1>1, KeepingOne
  <2> HIDE DEF d, x
  <2>3. d.entries[t] \in SUBSET Entries /\ Ordered(d.entries[t])
    BY <1>1, <2>1, KeepingOne DEF Sound
  <2>4. /\ s \in SUBSET Entries /\ Ordered(s)
        /\ Rest(s, job.label) = Rest(d.entries[t], job.label)
    BY <1>1, <2>2, <2>3, PutKeeps
  <2> HIDE DEF s, t
  <2> QED BY <1>1, <2>1, <2>4, EditGoesOn
<1> HIDE DEF n
<1>4. GoesOn(job.doc)
  BY <1>1, SameGoesOn
<1> QED BY <1>1, <1>2, <1>3, <1>4 DEF CameraStep

\* trainUser adds to or refines the array, moved there first if need be.
LEMMA TrainCameraSteps ==
    ASSUME StoreInv, NEW o \in Captures, TrainCamera(o)
    PROVE  CameraStep
<1> DEFINE t == CameraType
           d == Migrate(job.doc, t)
           s == IF job.op = "TRAIN_NEW" THEN Add(d.entries[t], job.label, {job.by})
                ELSE Refine(d.entries[t], job.label, {job.by})
           n == TrainDoc(d, t)
<1>1. /\ job \in Jobs /\ t \in Types /\ Sound(job.doc) /\ job.label \in Labels
      /\ {job.by} \in SUBSET Sources
  BY CameraTyped DEF StoreInv, TrainCamera, Ops, Jobs, Sources
<1>2. \/ NextCamera(job.doc, FALSE)
      \/ Abandon("ERROR") \/ Abandon("FAIL")
      \/ NextCamera(n, TRUE)
  BY DEF TrainCamera
<1>3. GoesOn(n)
  <2>1. /\ Sound(d) /\ d.array[t]
        /\ \A u \in Types : Templates(d, u) = Templates(job.doc, u)
    BY <1>1, MigrateKeeps
  <2> HIDE DEF d
  <2>2. d.entries[t] \in SUBSET Entries /\ Ordered(d.entries[t]) /\ d.pending[t] \in SUBSET Sources
    BY <1>1, <2>1, KeepingOne DEF Sound
  <2>3. /\ s \in SUBSET Entries /\ Ordered(s)
        /\ Rest(s, job.label) = Rest(d.entries[t], job.label)
    BY <1>1, <2>2, AddKeeps, RefineKeeps
  <2>4. n = [d EXCEPT !.entries[t] = s]
    BY DEF TrainDoc
  <2> HIDE DEF s, t, n
  <2>5. n = Edited(d, t, d.pending[t], s)
    BY <1>1, <2>1, <2>4 DEF Sound, Docs, Edited
  <2>6. GoesOn(Edited(d, t, d.pending[t], s))
    BY <1>1, <2>1, <2>2, <2>3, EditGoesOn
  <2> QED BY <2>5, <2>6
<1> HIDE DEF n
<1>4. GoesOn(job.doc)
  BY <1>1, SameGoesOn
<1> QED BY <1>1, <1>2, <1>3, <1>4 DEF CameraStep

\* removeEmbedding takes entries out of the array.
LEMMA RemoveCameraSteps ==
    ASSUME StoreInv, RemoveCamera
    PROVE  CameraStep
<1> DEFINE t == CameraType
           d == job.doc
           gone == Labelled(d.entries[t], job.label)
           s == d.entries[t] \ gone
           n == [d EXCEPT !.entries[t] = s]
<1>1. job \in Jobs /\ t \in Types /\ Sound(d)
  BY CameraTyped DEF StoreInv, RemoveCamera, Ops, Jobs
<1>2. NextCamera(n, gone # {})
  BY DEF RemoveCamera
<1>3. GoesOn(n)
  <2>1. d.entries[t] \in SUBSET Entries /\ Ordered(d.entries[t]) /\ d.pending[t] \in SUBSET Sources
    BY <1>1, KeepingOne DEF Sound
  <2>2. s \in SUBSET Entries /\ Ordered(s) /\ (s # {} => d.array[t])
    <3>1. IsFiniteSet(s)
      BY <2>1, FS_Subset DEF Ordered
    <3>2. s # {} => d.array[t]
      BY <1>1 DEF Sound
    <3> QED BY <2>1, <3>1, <3>2 DEF Ordered
  <2>3. Rest(s, job.label) = Rest(d.entries[t], job.label)
    BY DEF Rest, Labelled
  <2>4. GoesOn(Edited(d, t, d.pending[t], s))
    BY <1>1, <2>1, <2>2, <2>3, EditGoesOn
  <2>5. n = Edited(d, t, d.pending[t], s)
    BY <1>1 DEF Edited, Sound, Docs
  <2> QED BY <2>4, <2>5
<1> HIDE DEF n
<1> QED BY <1>1, <1>2, <1>3 DEF CameraStep

-----------------------------------------------------------------------------
(* The invariant.                                                           *)

\* An iteration keeps the invariant.
LEMMA CameraStepTyped == StoreInv /\ CameraStep => StoreInv'
BY NextCameraTyped, AbandonTyped DEF CameraStep, GoesOn

\* What is written to the file, or left there, is a sound document.
LEMMA WriteTyped ==
    ASSUME StoreInv, job \in Jobs, IF Writing THEN Write(job.doc) ELSE UNCHANGED file
    PROVE  file' \in Files /\ Sound(file'.doc)
<1>1. Sound(job.doc) /\ file \in Files /\ Sound(file.doc) /\ Sound(NoDoc)
  BY NoDocSound, JobCases DEF StoreInv, StoreTypeOK
<1>2. file' \in {[state |-> "ok", doc |-> job.doc], Cut, file}
  BY DEF Write
<1> QED BY <1>1, <1>2 DEF Cut, Files, Sound

\* The end of a command.
LEMMA FinishJobTyped == StoreInv /\ FinishJob => StoreInv'
<1> SUFFICES ASSUME StoreInv, FinishJob PROVE StoreInv'
  OBVIOUS
<1>1. job \in Jobs /\ job # Idle /\ job.by \in Sessions /\ StoreTypeOK
  BY JobCases DEF FinishJob, StoreInv, Jobs
<1>2. file' \in Files /\ Sound(file'.doc)
  BY <1>1, WriteTyped DEF FinishJob
<1>3. /\ sess' \in [Sessions -> Progress]
      /\ sess'[job.by].pc # "wait"
      /\ \A u \in Sessions : u # job.by => sess'[u] = sess[u]
  BY <1>1, AnswerTyped DEF FinishJob
<1>4. job' = Idle /\ layout' = layout
  BY DEF FinishJob
<1> QED BY <1>1, <1>2, <1>3, <1>4 DEF StoreInv, StoreTypeOK

\* A restart, in the middle of a command or not.
LEMMA DaemonRestartsTyped == StoreInv /\ DaemonRestarts => StoreInv'
<1> SUFFICES ASSUME StoreInv, DaemonRestarts PROVE StoreInv'
  OBVIOUS
<1>1. job' = Idle /\ layout' \in Layouts /\ StoreTypeOK
  BY DEF DaemonRestarts, StoreInv
<1>2. CASE job = Idle
  <2>1. file' = file /\ sess' = sess
    BY <1>2 DEF DaemonRestarts, Writing
  <2> QED BY <1>1, <1>2, <2>1 DEF StoreInv, StoreTypeOK
<1>3. CASE job # Idle
  <2>1. job \in Jobs /\ job.by \in Sessions
    BY <1>1, <1>3, JobCases DEF Jobs
  <2>2. file' \in Files /\ Sound(file'.doc)
    BY <2>1, WriteTyped DEF DaemonRestarts
  <2>3. /\ sess' \in [Sessions -> Progress]
        /\ sess'[job.by].pc # "wait"
        /\ \A u \in Sessions : u # job.by => sess'[u] = sess[u]
    BY <1>1, <1>3, <2>1, AnswerTyped DEF DaemonRestarts
  <2> QED BY <1>1, <1>3, <2>1, <2>2, <2>3 DEF StoreInv, StoreTypeOK
<1> QED BY <1>2, <1>3

\* A request that the daemon refuses, for want of a label.
LEMMA RefusedTyped ==
    ASSUME StoreInv, NEW s \in Sessions, sess[s].pc # "wait", NEW op, Refused(s, op)
    PROVE  StoreInv'
BY AnswerTyped, SessionTyped DEF StoreInv, Refused

\* A session sends its command with the label that the wire left of it.
LEMMA CommandTyped ==
    ASSUME StoreInv, NEW s \in Sessions,
           \/ AddUser(s)
           \/ SetLabel(s)
           \/ \E op \in Ops, t \in Typed : TrainOrRemove(s, op, t)
    PROVE  StoreInv'
<1>1. Default \in Labels /\ \A t \in Typed : Word[t] # NoWord => Word[t] \in Labels
  BY StoreAssumption DEF StoreAssumption
<1>2. sess[s].pc # "wait"
  BY DEF AddUser, SetLabel, TrainOrRemove
<1>3. sess[s].typed \in SUBSET Typed
  BY DEF StoreInv, StoreTypeOK, Progress
<1>4. \/ \E op \in Ops, l \in Labels : Serve(s, op, l)
      \/ \E op \in Ops : Refused(s, op)
  BY <1>1, <1>3 DEF AddUser, SetLabel, TrainOrRemove, Ops
<1> QED BY <1>2, <1>4, RequestTyped, RefusedTyped

\* The labels that are listed are labels.
LEMMA ListTyped == ASSUME StoreInv, NEW s \in Sessions, List(s) PROVE StoreInv'
<1>1. PICK ls : sess' = [sess EXCEPT ![s].pc = "prompt", ![s].listed = ls]
                /\ ls \in {{}, Listed(file.doc)}
  BY DEF List
<1>2. Listed(file.doc) \in SUBSET Labels
  <2>1. layout \in Seq(Types)
    BY StoreAssumption DEF StoreAssumption, StoreInv, StoreTypeOK
  <2>2. \A c \in DOMAIN layout : layout[c] \in Types
    BY <2>1
  <2>3. Default \in Labels
    BY StoreAssumption DEF StoreAssumption
  <2>4. \A t \in Types : /\ \A e \in file.doc.entries[t] : e.label \in Labels
                         /\ \A e \in Migrated(file.doc, t) : e.label \in Labels
    BY <2>3 DEF StoreInv, Sound, Docs, Entries, Migrated
  <2> QED BY <2>2, <2>4 DEF Listed
<1>3. sess \in [Sessions -> Progress] /\ sess[s].pc # "wait"
  BY DEF StoreInv, StoreTypeOK, List
<1>4. /\ sess' \in [Sessions -> Progress]
      /\ sess'[s].pc # "wait"
      /\ \A u \in Sessions : u # s => sess'[u] = sess[u]
  BY <1>1, <1>2, <1>3 DEF Progress
<1> QED BY <1>3, <1>4, SessionTyped DEF List

\* What the user types at the prompt.
LEMMA TypeTyped ==
    ASSUME StoreInv, NEW s \in Sessions, NEW t \in Typed, Type(s, t) PROVE StoreInv'
<1>1. PICK pc \in {"ask", "go"} : sess' = [sess EXCEPT ![s].typed = {t}, ![s].pc = pc]
  BY DEF Type
<1>2. sess \in [Sessions -> Progress] /\ sess[s].pc # "wait"
  BY DEF StoreInv, StoreTypeOK, Type
<1>3. /\ sess' \in [Sessions -> Progress]
      /\ sess'[s].pc # "wait"
      /\ \A u \in Sessions : u # s => sess'[u] = sess[u]
  BY <1>1, <1>2 DEF Progress
<1> QED BY <1>2, <1>3, SessionTyped DEF Type

\* The user declines to overwrite.
LEMMA CancelTyped == ASSUME StoreInv, NEW s \in Sessions, Cancel(s) PROVE StoreInv'
<1>1. sess \in [Sessions -> Progress] /\ sess[s].pc # "wait"
  BY DEF StoreInv, StoreTypeOK, Cancel
<1>2. /\ sess' \in [Sessions -> Progress]
      /\ sess'[s].pc # "wait"
      /\ \A u \in Sessions : u # s => sess'[u] = sess[u]
  BY <1>1 DEF Progress, Cancel
<1> QED BY <1>1, <1>2, SessionTyped DEF Cancel

\* The iterations of the four loops.
Iteration ==
    \/ \E o \in Captures : AddCamera(o)
    \/ LabelCamera
    \/ \E o \in Captures : TrainCamera(o)
    \/ RemoveCamera

\* Every iteration of every loop is a CameraStep.
LEMMA IterationSteps == ASSUME StoreInv, Iteration PROVE CameraStep
BY AddCameraSteps, LabelCameraSteps, TrainCameraSteps, RemoveCameraSteps DEF Iteration

\* The steps of the sessions: a request, or one that the daemon has no part in.
SessionStep ==
    \E s \in Sessions :
      \/ AddUser(s)
      \/ \E op \in Ops, t \in Typed : TrainOrRemove(s, op, t)
      \/ List(s)
      \/ \E t \in Typed : Type(s, t)
      \/ Cancel(s)
      \/ SetLabel(s)

\* The next-state relation by who moves.
LEMMA NextCases == Next <=> SessionStep \/ Iteration \/ FinishJob \/ DaemonRestarts
BY DEF Next, SessionStep, Iteration

\* Every step keeps the invariant.
LEMMA StoreNext == StoreInv /\ [Next]_vars => StoreInv'
<1> SUFFICES ASSUME StoreInv, [Next]_vars PROVE StoreInv'
  OBVIOUS
<1>1. CASE SessionStep
  <2>1. PICK s \in Sessions :
          \/ AddUser(s) \/ SetLabel(s) \/ \E op \in Ops, t \in Typed : TrainOrRemove(s, op, t)
          \/ List(s) \/ Cancel(s) \/ \E t \in Typed : Type(s, t)
    BY <1>1 DEF SessionStep
  <2> QED BY <2>1, CommandTyped, ListTyped, CancelTyped, TypeTyped
<1>2. CASE Iteration
  BY <1>2, IterationSteps, CameraStepTyped
<1>3. CASE FinishJob
  BY <1>3, FinishJobTyped
<1>4. CASE DaemonRestarts
  BY <1>4, DaemonRestartsTyped
<1>5. CASE UNCHANGED vars
  BY <1>5 DEF vars, StoreInv, StoreTypeOK
<1> QED BY <1>1, <1>2, <1>3, <1>4, <1>5, NextCases

\* StoreInv is an invariant.
LEMMA StoreInvariant == Spec => []StoreInv
BY StoreInit, StoreNext, PTL DEF Spec

\* Type correctness of the file, the command being served and the sessions; at
\* most one session waits for the daemon.
THEOREM StoreTypes == Spec => []StoreTypeOK
<1>1. StoreInv => StoreTypeOK
  BY DEF StoreInv
<1> QED BY <1>1, StoreInvariant, PTL

\* No command hides an embedding of the old format behind an array (setLabel and
\* trainUser move it before they touch the array).
THEOREM NothingIsShadowed == Spec => []NothingShadowed
<1>1. StoreInv => NothingShadowed
  BY DEF StoreInv, Sound, NothingShadowed
<1> QED BY <1>1, StoreInvariant, PTL

-----------------------------------------------------------------------------
(* Commands change the entries with their label only.                       *)

\* The document of a command agrees with the file but for the command's label;
\* the file cannot change underneath, since one command is served at a time.
Agrees ==
    job # Idle =>
      \A t \in Types : Others(job.doc, t, job.label) = Others(file.doc, t, job.label)

\* What a session's step does to the daemon: nothing, or it starts a command.
LEMMA SessionStarts ==
    ASSUME StoreInv, SessionStep
    PROVE  /\ file' = file /\ layout' = layout
           /\ \/ job' = job
              \/ job'.doc = file.doc /\ job'.cam = 1 /\ file.state # "corrupt"
<1>1. ASSUME NEW s \in Sessions, NEW op, NEW l, Serve(s, op, l) \/ Refused(s, op)
      PROVE  /\ file' = file /\ layout' = layout
             /\ \/ job' = job
                \/ job'.doc = file.doc /\ job'.cam = 1 /\ file.state # "corrupt"
  <2>1. file' = file /\ layout' = layout
    BY <1>1 DEF Serve, Refused
  <2>2. \/ job' = job
        \/ /\ job' = [op |-> op, by |-> s, label |-> l, cam |-> 1, doc |-> file.doc,
                      updated |-> FALSE]
           /\ file.state \in {"ok", "absent"}
    BY <1>1, Zenon DEF Serve, Refused
  <2> QED BY <2>1, <2>2
<1>2. PICK s \in Sessions :
        \/ AddUser(s) \/ SetLabel(s) \/ \E op \in Ops, t \in Typed : TrainOrRemove(s, op, t)
        \/ List(s) \/ Cancel(s) \/ \E t \in Typed : Type(s, t)
  BY DEF SessionStep
<1>3. CASE \/ AddUser(s) \/ SetLabel(s)
           \/ \E op \in Ops, t \in Typed : TrainOrRemove(s, op, t)
  <2>1. \E op, l : Serve(s, op, l) \/ Refused(s, op)
    BY <1>3 DEF AddUser, SetLabel, TrainOrRemove
  <2> QED BY <1>1, <2>1
<1>4. CASE List(s) \/ Cancel(s) \/ \E t \in Typed : Type(s, t)
  BY <1>4 DEF List, Cancel, Type
<1> QED BY <1>2, <1>3, <1>4

\* Every step keeps the agreement.
LEMMA AgreesNext == StoreInv /\ Agrees /\ [Next]_vars => Agrees'
<1> SUFFICES ASSUME StoreInv, Agrees, [Next]_vars PROVE Agrees'
  OBVIOUS
<1>1. CASE SessionStep
  BY <1>1, SessionStarts DEF Agrees
<1>2. CASE Iteration
  <2>1. CASE \E r : Abandon(r)
    BY <2>1 DEF Abandon, Agrees
  <2>2. CASE \E d, u : u \in BOOLEAN /\ NextCamera(d, u) /\ GoesOn(d)
    <3>1. PICK d, u : u \in BOOLEAN /\ NextCamera(d, u) /\ GoesOn(d)
      BY <2>2
    <3>2. job \in Jobs /\ job # Idle
      BY <1>2, IterationSteps, JobCases DEF CameraStep, StoreInv
    <3>3. job'.doc = d /\ job'.label = job.label /\ file' = file
      BY <3>1, <3>2 DEF NextCamera, Jobs
    <3>4. \A t \in Types : Others(d, t, job.label) = Others(file.doc, t, job.label)
      BY <3>1, <3>2 DEF GoesOn, Agrees
    <3> QED BY <3>3, <3>4 DEF Agrees
  <2> QED BY <1>2, <2>1, <2>2, IterationSteps DEF CameraStep
<1>3. CASE FinishJob \/ DaemonRestarts
  BY <1>3 DEF FinishJob, DaemonRestarts, Agrees
<1>4. CASE UNCHANGED vars
  BY <1>4 DEF vars, Agrees
<1> QED BY <1>1, <1>2, <1>3, <1>4, NextCases

\* Only the end of a command, or a restart while it writes, changes the file, and
\* what still parses afterwards is the document of the command.
LEMMA FileChanges ==
    ASSUME StoreInv, [Next]_vars, file' # file, file'.state = "ok"
    PROVE  job \in Jobs /\ job # Idle /\ Writing /\ file'.doc = job.doc
<1>1. FinishJob \/ DaemonRestarts
  <2>1. ~SessionStep
    BY SessionStarts
  <2>2. ~Iteration
    BY IterationSteps DEF CameraStep, Abandon, NextCamera
  <2> QED BY <2>1, <2>2, NextCases DEF vars
<1>2. Writing /\ Write(job.doc)
  BY <1>1 DEF FinishJob, DaemonRestarts
<1>3. job # Idle /\ job \in Jobs
  BY <1>2, JobCases DEF Writing, StoreInv
<1> QED BY <1>2, <1>3 DEF Write, Cut

\* Every embedding outside the command's label survives every command, with its
\* label and its data, whatever fails (setLabel, trainUser, removeEmbedding,
\* enrollUser and the restarts between their loops and their writes).
THEOREM OthersUntouched == Spec => OnlyTheNamedLabel
<1>1. Init => Agrees
  BY DEF Init, Agrees
<1>2. StoreInv /\ Agrees /\ [Next]_vars =>
        [ file' # file /\ file'.state = "ok" =>
            \A t \in Types : Others(file'.doc, t, job.label) = Others(file.doc, t, job.label) ]_vars
  BY FileChanges DEF Agrees
<1> QED BY <1>1, <1>2, AgreesNext, StoreInvariant, PTL DEF Spec, OnlyTheNamedLabel

-----------------------------------------------------------------------------
(* Enrolment is all or nothing.                                             *)

\* The cameras an enrolment has done have a pending embedding of its session.
Enrolled ==
    job.op = "ADD_USER" =>
      \A c \in DOMAIN layout : c < job.cam => job.doc.pending[layout[c]] = {job.by}

\* An iteration of one loop does not become one of another.
LEMMA OtherLoops ==
    ASSUME StoreInv, Iteration, NEW op \in Ops, job.op # op
    PROVE  job'.op # op
<1>1. job \in Jobs
  BY IterationSteps DEF CameraStep
<1>2. CASE \E r : Abandon(r)
  BY <1>2 DEF Abandon, Idle, Ops
<1>3. CASE \E d, u : NextCamera(d, u)
  BY <1>1, <1>3 DEF NextCamera, Jobs
<1> QED BY <1>2, <1>3, IterationSteps DEF CameraStep

\* An iteration of an enrolment adds its own camera or returns.
LEMMA EnrolledAdd ==
    ASSUME StoreInv, Enrolled, NEW o \in Captures, AddCamera(o)
    PROVE  Enrolled'
<1>1. /\ job \in Jobs /\ CameraType \in Types /\ job.cam \in DOMAIN layout
      /\ job.op = "ADD_USER"
  BY CameraTyped DEF StoreInv, AddCamera, AtCamera, Ops
<1> DEFINE d == [job.doc EXCEPT !.pending[CameraType] = {job.by}]
<1>2. CASE o = "one"
  <2>1. /\ job' = [job EXCEPT !.cam = @ + 1, !.doc = d, !.updated = job.updated \/ TRUE]
        /\ layout' = layout
    BY <1>2 DEF AddCamera, NextCamera
  <2>2. d.pending = [job.doc.pending EXCEPT ![CameraType] = {job.by}]
        /\ job.doc.pending \in [Types -> SUBSET Sources]
    BY <1>1 DEF Jobs, Docs
  <2> HIDE DEF d
  <2>3. job'.cam = job.cam + 1 /\ job'.doc = d /\ job'.by = job.by /\ job.cam \in Nat
    BY <1>1, <2>1 DEF Jobs
  <2>4. layout \in Seq(Types)
    BY StoreAssumption DEF StoreAssumption, StoreInv, StoreTypeOK
  <2>5. ASSUME NEW c \in DOMAIN layout, c < job.cam + 1
        PROVE  d.pending[layout[c]] = {job.by}
    <3>1. layout[c] \in Types
      BY <2>4
    <3>2. CASE layout[c] = CameraType
      BY <2>2, <3>1, <3>2
    <3>3. CASE layout[c] # CameraType
      <4>1. c < job.cam
        BY <2>3, <2>4, <2>5, <3>3 DEF CameraType
      <4> QED BY <1>1, <2>2, <3>1, <3>3, <4>1 DEF Enrolled
    <3> QED BY <3>2, <3>3
  <2> QED BY <2>1, <2>3, <2>5 DEF Enrolled
<1>3. CASE o # "one"
  <2>1. job' = Idle
    BY <1>3 DEF AddCamera, Captures, Abandon
  <2>2. job'.op # "ADD_USER"
    BY <2>1 DEF Idle
  <2> QED BY <2>2 DEF Enrolled
<1> QED BY <1>2, <1>3

\* Every step keeps what an enrolment has so far.
LEMMA EnrolledNext == StoreInv /\ Enrolled /\ [Next]_vars => Enrolled'
<1> SUFFICES ASSUME StoreInv, Enrolled, [Next]_vars PROVE Enrolled'
  OBVIOUS
<1>1. CASE SessionStep
  <2>1. /\ layout' = layout
        /\ job' = job \/ job'.cam = 1
    BY <1>1, SessionStarts
  <2>2. \A c \in DOMAIN layout : ~(c < 1)
    BY StoreAssumption DEF StoreAssumption, StoreInv, StoreTypeOK
  <2> QED BY <2>1, <2>2 DEF Enrolled
<1>2. CASE \E o \in Captures : AddCamera(o)
  BY <1>2, EnrolledAdd
<1>3. CASE LabelCamera \/ RemoveCamera \/ \E o \in Captures : TrainCamera(o)
  <2>1. Iteration /\ job.op # "ADD_USER"
    BY <1>3 DEF Iteration, LabelCamera, RemoveCamera, TrainCamera, AtCamera
  <2> QED BY <2>1, OtherLoops DEF Enrolled, Ops
<1>4. CASE FinishJob \/ DaemonRestarts
  <2>1. job' = Idle
    BY <1>4 DEF FinishJob, DaemonRestarts
  <2>2. job'.op # "ADD_USER"
    BY <2>1 DEF Idle
  <2> QED BY <2>2 DEF Enrolled
<1>5. CASE UNCHANGED vars
  BY <1>5 DEF vars, Enrolled
<1> QED BY <1>1, <1>2, <1>3, <1>4, <1>5, NextCases DEF Iteration

\* An enrolment that changes the file has a capture of every camera of the layout
\* (the returns inside the loop of enrollUser come before the write).
THEOREM EnrolmentIsComplete == Spec => EnrolledEverywhere
<1>1. Init => Enrolled
  BY DEF Init, Enrolled, Idle
<1>2. StoreInv /\ Enrolled /\ [Next]_vars =>
        [ job.op = "ADD_USER" /\ file' # file /\ file'.state = "ok" =>
            \A c \in DOMAIN layout : file'.doc.pending[layout[c]] = {job.by} ]_vars
  <2> SUFFICES ASSUME StoreInv, Enrolled, [Next]_vars, job.op = "ADD_USER",
                      file' # file, file'.state = "ok", NEW c \in DOMAIN layout
               PROVE  file'.doc.pending[layout[c]] = {job.by}
    OBVIOUS
  <2>1. job \in Jobs /\ Writing /\ file'.doc = job.doc
    BY FileChanges
  <2>2. c < job.cam
    BY <2>1, StoreAssumption DEF StoreAssumption, StoreInv, StoreTypeOK, Writing, Jobs
  <2> QED BY <2>1, <2>2 DEF Enrolled
<1> QED BY <1>1, <1>2, EnrolledNext, StoreInvariant, PTL DEF Spec, EnrolledEverywhere

-----------------------------------------------------------------------------
(* The first entry with a label, after a command.                           *)

\* What is put under a label is what the first entry with it holds.
LEMMA FirstOfPut ==
    ASSUME NEW s \in SUBSET Entries, Ordered(s), NEW l \in Labels, NEW x \in SUBSET Sources
    PROVE  /\ Labelled(Put(s, l, x), l) # {}
           /\ First(Put(s, l, x), l).data = x
<1> DEFINE n == Put(s, l, x)
           f == First(n, l)
<1>1. n \in SUBSET Entries
  BY PutKeeps
<1>2. CASE Labelled(s, l) = {}
  <2> DEFINE new == [at |-> 1 + Max({0} \cup {e.at : e \in s}), label |-> l, data |-> x]
  <2>1. n = s \cup {new}
    BY <1>2 DEF Put, Add
  <2>2. new.label = l /\ new.data = x
    OBVIOUS
  <2> HIDE DEF new
  <2>3. Labelled(n, l) = {new}
    BY <1>2, <2>1, <2>2 DEF Labelled
  <2>4. f \in Labelled(n, l)
    BY <1>1, <2>3, FirstIsLabelled
  <2> QED BY <2>2, <2>3, <2>4
<1>3. CASE Labelled(s, l) # {}
  <2> DEFINE old == First(s, l)
             new == [old EXCEPT !.data = x]
  <2>1. old \in s /\ old.label = l /\ \A k \in Labelled(s, l) : old.at <= k.at
    BY <1>3, FirstIsLabelled DEF Labelled
  <2>2. new.label = l /\ new.at = old.at /\ new.data = x
    BY <2>1 DEF Entries
  <2>3. n = (s \ {old}) \cup {new}
    BY <1>3 DEF Put
  <2> HIDE DEF old, new, n, f
  <2>4. new \in Labelled(n, l)
    BY <2>2, <2>3 DEF Labelled
  <2>5. f \in Labelled(n, l) /\ f.at <= new.at
    BY <1>1, <2>4, FirstIsLabelled DEF f
  <2>6. ASSUME f # new PROVE FALSE
    <3>1. f \in s /\ f # old /\ f.label = l
      BY <2>3, <2>5, <2>6 DEF Labelled
    <3>2. old.at <= f.at
      BY <2>1, <3>1 DEF Labelled
    <3>3. old.at \in Nat /\ f.at \in Nat
      BY <2>1, <3>1 DEF Entries
    <3>4. old.at = f.at
      BY <2>2, <2>5, <3>2, <3>3
    <3> QED BY <2>1, <3>1, <3>4 DEF Ordered
  <2> QED BY <2>2, <2>4, <2>6 DEF f, n
<1> QED BY <1>2, <1>3

\* Averaging the same capture in a second time changes nothing in what it is made of.
LEMMA RefineTwice ==
    ASSUME NEW s \in SUBSET Entries, Ordered(s), NEW l \in Labels, NEW x \in SUBSET Sources
    PROVE  Refine(Refine(s, l, x), l, x) = Refine(s, l, x)
<1> DEFINE m == Refine(s, l, x)
<1>1. PICK y \in SUBSET Sources : x \subseteq y /\ m = Put(s, l, y)
  <2>1. CASE Labelled(s, l) = {}
    BY <2>1 DEF Refine, Put
  <2>2. CASE Labelled(s, l) # {}
    <3>1. First(s, l).data \cup x \in SUBSET Sources
      BY <2>2, FirstIsLabelled DEF Labelled, Entries
    <3> QED BY <2>2, <3>1 DEF Refine
  <2> QED BY <2>1, <2>2
<1>2. m \in SUBSET Entries
  BY RefineKeeps
<1>3. Labelled(m, l) # {} /\ First(m, l).data = y
  BY <1>1, FirstOfPut
<1> HIDE DEF m
<1>4. First(m, l) \in m /\ First(m, l) \in Entries
  BY <1>2, <1>3, FirstIsLabelled DEF Labelled
<1>5. [First(m, l) EXCEPT !.data = y \cup x] = First(m, l)
  BY <1>1, <1>3, <1>4 DEF Entries
<1>6. Refine(m, l, x) = (m \ {First(m, l)}) \cup {First(m, l)}
  BY <1>3, <1>5 DEF Refine, Put
<1> QED BY <1>4, <1>6 DEF m

-----------------------------------------------------------------------------
(* What the embeddings of an array are without their positions.             *)

Prints(s) == {[label |-> e.label, data |-> e.data] : e \in s}

\* A new entry is a new print.
LEMMA PrintsOfAdd ==
    ASSUME NEW s, NEW l, NEW x
    PROVE  Prints(Add(s, l, x)) = Prints(s) \cup {[label |-> l, data |-> x]}
<1> DEFINE new == [at |-> 1 + Max({0} \cup {e.at : e \in s}), label |-> l, data |-> x]
<1>1. Add(s, l, x) = s \cup {new}
  BY DEF Add
<1>2. new.label = l /\ new.data = x
  OBVIOUS
<1> HIDE DEF new
<1> QED BY <1>1, <1>2 DEF Prints

\* A replaced entry is a print that goes, unless there is another like it, and one
\* that comes.
LEMMA PrintsOfPut ==
    ASSUME NEW s \in SUBSET Entries, NEW l, NEW x, Labelled(s, l) # {}
    PROVE  LET p   == [label |-> l, data |-> First(s, l).data]
               new == [label |-> l, data |-> x]
           IN  /\ p \in Prints(s)
               /\ \/ Prints(Put(s, l, x)) = Prints(s) \cup {new}
                  \/ Prints(Put(s, l, x)) = (Prints(s) \ {p}) \cup {new}
<1> DEFINE old == First(s, l)
           e0  == [old EXCEPT !.data = x]
           p   == [label |-> l, data |-> old.data]
           new == [label |-> l, data |-> x]
           rest == s \ {old}
<1>1. old \in s /\ old.label = l
  BY FirstIsLabelled DEF Labelled
<1>2. e0.label = l /\ e0.data = x
  BY <1>1 DEF Entries
<1>3. Put(s, l, x) = rest \cup {e0}
  BY DEF Put
<1> HIDE DEF old, e0
<1>4. p \in Prints(s)
  BY <1>1 DEF Prints
<1>5. Prints(rest \cup {e0}) = Prints(rest) \cup {new}
  BY <1>2 DEF Prints
<1>6. Prints(s) = Prints(rest) \cup {p}
  BY <1>1 DEF Prints
<1> QED BY <1>3, <1>4, <1>5, <1>6 DEF old

\* Removing the entries with a label removes the prints with it.
LEMMA PrintsOfRest ==
    ASSUME NEW s, NEW l
    PROVE  Prints(s \ Labelled(s, l)) = Prints(s) \ {p \in Prints(s) : p.label = l}
BY DEF Prints, Labelled

-----------------------------------------------------------------------------
(* A command half-way through the cameras.                                  *)

\* What a face is compared with is an array too, the one a migration makes.
LEMMA TemplatesOrdered ==
    ASSUME NEW d, Sound(d), NEW t \in Types
    PROVE  /\ Templates(d, t) \in SUBSET Entries
           /\ Ordered(Templates(d, t))
           /\ Migrate(d, t).entries[t] = Templates(d, t)
<1> DEFINE m == Migrate(d, t)
<1>1. Sound(m) /\ m.array[t] /\ Templates(m, t) = Templates(d, t)
  BY MigrateKeeps
<1> HIDE DEF m
<1>2. m.entries[t] = Templates(d, t)
  BY <1>1 DEF Templates
<1>3. m.entries[t] \in SUBSET Entries /\ Ordered(m.entries[t])
  BY <1>1 DEF Sound, Docs
<1> QED BY <1>2, <1>3 DEF m

\* A changed array of one type, seen from that type and from the others.
LEMMA EditedTemplates ==
    ASSUME NEW d, Sound(d), NEW t \in Types, NEW p, NEW s
    PROVE  LET n == Edited(d, t, p, s) IN
           /\ n.pending[t] = p
           /\ n.array[t] = d.array[t]
           /\ n.entries[t] = s
           /\ d.array[t] => Templates(n, t) = s
           /\ s = d.entries[t] => Templates(n, t) = Templates(d, t)
           /\ \A u \in Types : u # t => /\ Templates(n, u) = Templates(d, u)
                                        /\ n.pending[u] = d.pending[u]
                                        /\ n.array[u] = d.array[u]
                                        /\ n.entries[u] = d.entries[u]
<1> DEFINE n == Edited(d, t, p, s)
<1>1. /\ n.pending = [d.pending EXCEPT ![t] = p] /\ n.entries = [d.entries EXCEPT ![t] = s]
      /\ n.array = d.array /\ n.legacy = d.legacy
  BY DEF Edited, Sound, Docs
<1>2. /\ DOMAIN d.pending = Types /\ DOMAIN d.entries = Types
  BY DEF Sound, Docs
<1> HIDE DEF n
<1>3. \A u \in Types : u # t => /\ Templates(n, u) = Templates(d, u)
                                /\ n.pending[u] = d.pending[u]
                                /\ n.array[u] = d.array[u]
                                /\ n.entries[u] = d.entries[u]
  BY <1>1, <1>2 DEF Templates, Migrated
<1>4. /\ n.pending[t] = p /\ n.array[t] = d.array[t] /\ n.entries[t] = s
      /\ d.array[t] => Templates(n, t) = s
      /\ s = d.entries[t] => Templates(n, t) = Templates(d, t)
  BY <1>1, <1>2 DEF Templates, Migrated
<1> QED BY <1>3, <1>4 DEF n

\* The command has not touched a type yet,
Same(d, t) ==
    Templates(d, t) = Templates(file.doc, t) /\ d.pending[t] = file.doc.pending[t]

\* or it has done with it what it does, once, however many cameras are of that type.
Done(d, t) ==
    LET old == Templates(file.doc, t)
        new == Templates(d, t)
        p   == file.doc.pending[t]
        x   == {job.by}
        l   == job.label
    IN  \/ job.op = "ADD_USER" /\ new = old /\ d.pending[t] = x
        \/ /\ job.op = "SET_LABEL"
           /\ p # {} /\ d.pending[t] = {} /\ d.array[t] /\ new = Put(old, l, p)
        \/ /\ job.op = "TRAIN_NEW"
           /\ d.pending[t] = p /\ Prints(new) = Prints(old) \cup {[label |-> l, data |-> x]}
        \/ job.op = "TRAIN_USER" /\ d.pending[t] = p /\ new = Refine(old, l, x)
        \/ job.op = "REMOVE_EMBEDDING" /\ d.pending[t] = p /\ new = old \ Labelled(old, l)

Halfway ==
    job # Idle =>
        file.state # "corrupt" /\ \A t \in Types : Same(job.doc, t) \/ Done(job.doc, t)

\* Going on with a document that differs in one type, where the command is done.
LEMMA HalfwayGoesOn ==
    ASSUME StoreInv, Halfway, job \in Jobs, NEW t \in Types, NEW d, \E u : NextCamera(d, u),
           Same(d, t) \/ Done(d, t),
           \A v \in Types : v # t => /\ Templates(d, v) = Templates(job.doc, v)
                                     /\ d.pending[v] = job.doc.pending[v]
                                     /\ d.array[v] = job.doc.array[v]
    PROVE  Halfway'
<1>1. /\ job'.doc = d /\ job'.op = job.op /\ job'.by = job.by /\ job'.label = job.label
      /\ file' = file
  BY DEF NextCamera, Jobs
<1>2. file.state # "corrupt" /\ \A v \in Types : Same(job.doc, v) \/ Done(job.doc, v)
  BY JobCases DEF Halfway, StoreInv
<1>3. \A v \in Types : v # t => Same(d, v) \/ Done(d, v)
  BY <1>2 DEF Same, Done
<1>4. \A v \in Types : Same(d, v) \/ Done(d, v)
  BY <1>3
<1>5. \A v \in Types : (Same(d, v))' <=> Same(d, v)
  BY <1>1 DEF Same
<1>6. \A v \in Types : (Done(d, v))' <=> Done(d, v)
  BY <1>1 DEF Done
<1> QED BY <1>1, <1>2, <1>4, <1>5, <1>6 DEF Halfway, Same, Done

\* Going on with the same document, and giving up.
LEMMA HalfwayStays ==
    ASSUME StoreInv, Halfway, job \in Jobs,
           NextCamera(job.doc, FALSE) \/ \E r : Abandon(r)
    PROVE  Halfway'
<1>1. CASE NextCamera(job.doc, FALSE)
  <2>1. /\ job'.doc = job.doc /\ job'.op = job.op /\ job'.by = job.by /\ job'.label = job.label
        /\ file' = file
    BY <1>1 DEF NextCamera, Jobs
  <2>2. job # Idle
    BY JobCases DEF StoreInv
  <2> QED BY <2>1, <2>2 DEF Halfway, Same, Done
<1>2. CASE \E r : Abandon(r)
  BY <1>2 DEF Abandon, Halfway
<1> QED BY <1>1, <1>2

\* A migration concerns one type.
LEMMA MigrateElsewhere ==
    ASSUME NEW d, Sound(d), NEW t \in Types, NEW v \in Types, v # t
    PROVE  Migrate(d, t).array[v] = d.array[v]
BY DEF Migrate, Sound, Docs

\* enrollUser replaces what is pending for the type of the camera.
LEMMA HalfwayAdd ==
    ASSUME StoreInv, Halfway, NEW o \in Captures, AddCamera(o)
    PROVE  Halfway'
<1> DEFINE t == CameraType
           n == Edited(job.doc, t, {job.by}, job.doc.entries[t])
<1>1. job \in Jobs /\ job # Idle /\ t \in Types /\ Sound(job.doc) /\ job.op = "ADD_USER"
  BY CameraTyped DEF StoreInv, AddCamera, AtCamera, Ops
<1>2. CASE o = "one"
  <2> DEFINE d == [job.doc EXCEPT !.pending[CameraType] = {job.by}]
  <2>0. d = n
    BY <1>1 DEF Edited, Sound, Docs
  <2>1. \E u : NextCamera(n, u)
    <3>1. NextCamera(d, TRUE)
      BY <1>2 DEF AddCamera
    <3> HIDE DEF d, n
    <3> QED BY <2>0, <3>1
  <2>2. Same(job.doc, t) \/ Done(job.doc, t)
    BY <1>1 DEF Halfway
  <2>3. Templates(job.doc, t) = Templates(file.doc, t)
    BY <1>1, <2>2 DEF Same, Done
  <2>4. n.pending[t] = {job.by} /\ Templates(n, t) = Templates(job.doc, t)
    BY <1>1, EditedTemplates
  <2>5. \A v \in Types : v # t => /\ Templates(n, v) = Templates(job.doc, v)
                                  /\ n.pending[v] = job.doc.pending[v]
                                  /\ n.array[v] = job.doc.array[v]
    BY <1>1, EditedTemplates
  <2> HIDE DEF n, t
  <2>6. Done(n, t)
    BY <1>1, <2>3, <2>4 DEF Done
  <2> QED BY <1>1, <2>1, <2>5, <2>6, HalfwayGoesOn
<1>3. CASE o # "one"
  <2>1. \E r : Abandon(r)
    BY <1>3 DEF AddCamera, Captures
  <2> QED BY <1>1, <2>1, HalfwayStays
<1> QED BY <1>2, <1>3

\* setLabel labels what the file has pending: a second camera of the type finds
\* nothing pending.
LEMMA HalfwayLabel == StoreInv /\ Halfway /\ LabelCamera => Halfway'
<1> SUFFICES ASSUME StoreInv, Halfway, LabelCamera PROVE Halfway'
  OBVIOUS
<1> DEFINE t == CameraType
           x == job.doc.pending[t]
           d == Migrate(job.doc, t)
           s == Put(d.entries[t], job.label, x)
           n == Edited(d, t, {}, s)
<1>1. job \in Jobs /\ job # Idle /\ t \in Types /\ Sound(job.doc) /\ job.op = "SET_LABEL"
  BY CameraTyped DEF StoreInv, LabelCamera, AtCamera, Ops
<1>2. \/ NextCamera(job.doc, FALSE)
      \/ Abandon("FAIL")
      \/ x # {} /\ NextCamera(n, TRUE)
  BY DEF LabelCamera, Edited
<1>3. ASSUME x # {}, NextCamera(n, TRUE) PROVE Halfway'
  <2>1. Same(job.doc, t)
    BY <1>1, <1>3 DEF Halfway, Done
  <2>2. /\ Sound(d) /\ d.array[t] /\ d.pending = job.doc.pending
        /\ \A v \in Types : Templates(d, v) = Templates(job.doc, v)
        /\ d.entries[t] = Templates(job.doc, t)
    BY <1>1, MigrateKeeps, TemplatesOrdered
  <2>3. \A v \in Types : v # t => d.array[v] = job.doc.array[v]
    BY <1>1, MigrateElsewhere
  <2> HIDE DEF d, t, s
  <2>4. n.pending[t] = {} /\ n.array[t] /\ Templates(n, t) = s
    BY <1>1, <2>2, EditedTemplates
  <2>5. \A v \in Types : v # t => /\ Templates(n, v) = Templates(job.doc, v)
                                  /\ n.pending[v] = job.doc.pending[v]
                                  /\ n.array[v] = job.doc.array[v]
    BY <1>1, <2>2, <2>3, EditedTemplates
  <2> HIDE DEF n
  <2>6. s = Put(Templates(file.doc, t), job.label, file.doc.pending[t])
    BY <2>1, <2>2 DEF Same, s
  <2>7. Done(n, t)
    BY <1>1, <1>3, <2>1, <2>4, <2>6 DEF Done, Same
  <2>8. \E u : NextCamera(n, u)
    BY <1>3
  <2> QED BY <1>1, <2>5, <2>7, <2>8, HalfwayGoesOn
<1> HIDE DEF n, x
<1> QED BY <1>1, <1>2, <1>3, HalfwayStays

\* trainUser adds the same print, or refines the same entry, for each camera of a type.
LEMMA HalfwayTrain ==
    ASSUME StoreInv, Halfway, NEW o \in Captures, TrainCamera(o)
    PROVE  Halfway'
<1> DEFINE t == CameraType
           d == Migrate(job.doc, t)
           s == IF job.op = "TRAIN_NEW" THEN Add(d.entries[t], job.label, {job.by})
                ELSE Refine(d.entries[t], job.label, {job.by})
           n == Edited(d, t, d.pending[t], s)
<1>1. /\ job \in Jobs /\ job # Idle /\ t \in Types /\ Sound(job.doc)
      /\ job.op \in {"TRAIN_USER", "TRAIN_NEW"}
      /\ job.label \in Labels /\ {job.by} \in SUBSET Sources
  BY CameraTyped DEF StoreInv, TrainCamera, AtCamera, Ops, Jobs, Sources
<1>2. /\ Sound(d) /\ d.array[t] /\ d.pending = job.doc.pending
      /\ \A v \in Types : Templates(d, v) = Templates(job.doc, v)
      /\ d.entries[t] = Templates(job.doc, t)
  BY <1>1, MigrateKeeps, TemplatesOrdered
<1>3. \/ NextCamera(job.doc, FALSE)
      \/ \E r : Abandon(r)
      \/ NextCamera(n, TRUE)
  <2>1. TrainDoc(d, t) = [d EXCEPT !.entries[t] = s]
    BY DEF TrainDoc
  <2>2. NextCamera(job.doc, FALSE) \/ (\E r : Abandon(r)) \/ NextCamera(TrainDoc(d, t), TRUE)
    BY DEF TrainCamera
  <2> HIDE DEF d, t, s
  <2>3. [d EXCEPT !.entries[t] = s] = n
    BY <1>1, <1>2 DEF Edited, Sound, Docs
  <2> QED BY <2>1, <2>2, <2>3
<1>4. ASSUME NextCamera(n, TRUE) PROVE Halfway'
  <2>1. Same(job.doc, t) \/ Done(job.doc, t)
    BY <1>1 DEF Halfway
  <2>2. \A v \in Types : v # t => d.array[v] = job.doc.array[v]
    BY <1>1, MigrateElsewhere
  <2> HIDE DEF d, t, s
  <2>3. n.pending[t] = job.doc.pending[t] /\ Templates(n, t) = s
    BY <1>1, <1>2, EditedTemplates
  <2>4. \A v \in Types : v # t => /\ Templates(n, v) = Templates(job.doc, v)
                                  /\ n.pending[v] = job.doc.pending[v]
                                  /\ n.array[v] = job.doc.array[v]
    BY <1>1, <1>2, <2>2, EditedTemplates
  <2> HIDE DEF n
  <2>5. job.doc.pending[t] = file.doc.pending[t]
    BY <1>1, <2>1 DEF Same, Done
  <2>6. ASSUME job.op = "TRAIN_NEW" PROVE Done(n, t)
    <3>1. Prints(s) = Prints(Templates(job.doc, t))
                        \cup {[label |-> job.label, data |-> {job.by}]}
      BY <1>2, <2>6, PrintsOfAdd DEF s
    <3>2. Prints(s) = Prints(Templates(file.doc, t))
                        \cup {[label |-> job.label, data |-> {job.by}]}
      BY <2>1, <2>6, <3>1 DEF Same, Done
    <3> QED BY <2>3, <2>5, <2>6, <3>2 DEF Done
  <2>7. ASSUME job.op = "TRAIN_USER" PROVE Done(n, t)
    <3>1. s = Refine(Templates(job.doc, t), job.label, {job.by})
      BY <1>2, <2>7 DEF s
    <3>2. Templates(file.doc, t) \in SUBSET Entries /\ Ordered(Templates(file.doc, t))
      BY <1>1, TemplatesOrdered DEF StoreInv
    <3>3. Templates(job.doc, t) \in
            {Templates(file.doc, t), Refine(Templates(file.doc, t), job.label, {job.by})}
      BY <2>1, <2>7 DEF Same, Done
    <3>4. s = Refine(Templates(file.doc, t), job.label, {job.by})
      BY <1>1, <3>1, <3>2, <3>3, RefineTwice
    <3> QED BY <2>3, <2>5, <2>7, <3>4 DEF Done
  <2>8. Done(n, t)
    BY <1>1, <2>6, <2>7
  <2>9. \E u : NextCamera(n, u)
    BY <1>4
  <2> QED BY <1>1, <2>4, <2>8, <2>9, HalfwayGoesOn
<1> HIDE DEF n
<1> QED BY <1>1, <1>3, <1>4, HalfwayStays

\* removeEmbedding has nothing left to remove for a second camera of the type.
LEMMA HalfwayRemove == StoreInv /\ Halfway /\ RemoveCamera => Halfway'
<1> SUFFICES ASSUME StoreInv, Halfway, RemoveCamera PROVE Halfway'
  OBVIOUS
<1> DEFINE t == CameraType
           d == job.doc
           l == job.label
           gone == Labelled(d.entries[t], l)
           s == d.entries[t] \ gone
           n == Edited(d, t, d.pending[t], s)
<1>1. job \in Jobs /\ job # Idle /\ t \in Types /\ Sound(d) /\ job.op = "REMOVE_EMBEDDING"
  BY CameraTyped DEF StoreInv, RemoveCamera, AtCamera, Ops
<1>2. \E u : NextCamera(n, u)
  <2>1. NextCamera([d EXCEPT !.entries[t] = d.entries[t] \ gone], gone # {})
    BY DEF RemoveCamera
  <2>2. [d EXCEPT !.entries[t] = d.entries[t] \ gone] = n
    BY <1>1 DEF Edited, Sound, Docs
  <2>3. \E e : e = (gone # {})
    OBVIOUS
  <2> HIDE DEF d, t, gone, n
  <2> QED BY <2>1, <2>2
<1> HIDE DEF s
<1>3. Same(d, t) \/ Done(d, t)
  BY <1>1 DEF Halfway
<1>4. \A v \in Types : v # t => /\ Templates(n, v) = Templates(d, v)
                                /\ n.pending[v] = d.pending[v]
                                /\ n.array[v] = d.array[v]
  BY <1>1, EditedTemplates
<1>5. /\ n.pending[t] = d.pending[t]
      /\ d.array[t] => Templates(n, t) = s
      /\ s = d.entries[t] => Templates(n, t) = Templates(d, t)
  BY <1>1, EditedTemplates
<1>6. d.pending[t] = file.doc.pending[t]
  BY <1>1, <1>3 DEF Same, Done
<1>7. CASE d.array[t]
  <2>1. Templates(n, t) = Templates(d, t) \ Labelled(Templates(d, t), l)
    BY <1>5, <1>7 DEF Templates, s
  <2> HIDE DEF n, t, s, gone
  <2>2. Templates(n, t) = Templates(file.doc, t) \ Labelled(Templates(file.doc, t), l)
    BY <1>1, <1>3, <2>1 DEF Same, Done, Labelled
  <2>3. Done(n, t)
    BY <1>1, <1>5, <1>6, <2>2 DEF Done
  <2> QED BY <1>1, <1>2, <1>4, <2>3, HalfwayGoesOn
<1>8. CASE ~d.array[t]
  <2>1. d.entries[t] = {}
    BY <1>1, <1>8 DEF Sound
  <2>2. Templates(n, t) = Templates(d, t)
    BY <1>5, <2>1 DEF s
  <2> HIDE DEF n, t, s, gone
  <2>3. Same(n, t) \/ Done(n, t)
    BY <1>1, <1>3, <1>5, <1>6, <2>2 DEF Same, Done
  <2> QED BY <1>1, <1>2, <1>4, <2>3, HalfwayGoesOn
<1> QED BY <1>7, <1>8

\* Every step keeps it.
LEMMA HalfwayNext == StoreInv /\ Halfway /\ [Next]_vars => Halfway'
<1> SUFFICES ASSUME StoreInv, Halfway, [Next]_vars PROVE Halfway'
  OBVIOUS
<1>1. CASE SessionStep
  <2>1. CASE job' = job
    BY <1>1, <2>1, SessionStarts DEF Halfway, Same, Done
  <2>2. CASE job'.doc = file.doc /\ file' = file /\ file.state # "corrupt"
    BY <2>2 DEF Halfway, Same
  <2> QED BY <1>1, <2>1, <2>2, SessionStarts
<1>2. CASE Iteration
  BY <1>2, HalfwayAdd, HalfwayLabel, HalfwayTrain, HalfwayRemove DEF Iteration
<1>3. CASE FinishJob \/ DaemonRestarts
  BY <1>3 DEF FinishJob, DaemonRestarts, Halfway
<1>4. CASE UNCHANGED vars
  BY <1>4 DEF vars, Halfway, Same, Done
<1> QED BY <1>1, <1>2, <1>3, <1>4, NextCases

-----------------------------------------------------------------------------
(* The commands are the steps of Gallery.                                   *)

\* A step leaves the file alone, or ends a command: its document is written, the
\* write is cut short, or it never comes to it.
LEMMA FileSteps ==
    ASSUME StoreInv, [Next]_vars, file' # file
    PROVE  job \in Jobs /\ job # Idle /\ Writing /\ Write(job.doc)
<1>1. FinishJob \/ DaemonRestarts
  <2>1. ~SessionStep
    BY SessionStarts
  <2>2. ~Iteration
    BY IterationSteps DEF CameraStep, Abandon, NextCamera
  <2> QED BY <2>1, <2>2, NextCases DEF vars
<1>2. Writing /\ Write(job.doc)
  BY <1>1 DEF FinishJob, DaemonRestarts
<1> QED BY <1>2, JobCases DEF Writing, StoreInv

\* A document as Gallery sees it.
LEMMA PrintsOfTemplates ==
    ASSUME NEW d
    PROVE  PrintsOf(d) = [t \in Types |-> Prints(Templates(d, t))]
BY DEF PrintsOf, Prints

\* What is written, half-way or all the way through the cameras.
WrittenHalfway ==
    /\ StoreInv /\ Halfway
    /\ job \in Jobs /\ job # Idle
    /\ file' = [state |-> "ok", doc |-> job.doc]

\* The three parts of the gallery before and after.
LEMMA Written ==
    ASSUME WrittenHalfway
    PROVE  /\ file.state # "corrupt" /\ file'.state # "corrupt"
           /\ PrintsOf(file.doc) = [t \in Types |-> Prints(Templates(file.doc, t))]
           /\ PrintsOf(file.doc)' = [t \in Types |-> Prints(Templates(job.doc, t))]
           /\ file'.doc.pending = job.doc.pending
           /\ DOMAIN job.doc.pending = Types /\ DOMAIN file.doc.pending = Types
           /\ job.by \in Sessions /\ job.label \in Labels
           /\ \A t \in Types : Same(job.doc, t) \/ Done(job.doc, t)
<1>1. Sound(job.doc) /\ Sound(file.doc)
  BY DEF WrittenHalfway, StoreInv
<1>2. PrintsOf(file.doc)' = PrintsOf(job.doc)
  BY DEF WrittenHalfway, PrintsOf
<1> QED BY <1>1, <1>2, PrintsOfTemplates DEF WrittenHalfway, Halfway, Jobs, Sound, Docs

\* An enrolment that is written is the step Enrol, for the types it has captured.
LEMMA WrittenEnrols == WrittenHalfway /\ job.op = "ADD_USER" => G!Enrol
<1> SUFFICES ASSUME WrittenHalfway, job.op = "ADD_USER" PROVE G!Enrol
  OBVIOUS
<1> DEFINE T == {t \in Types : Done(job.doc, t)}
<1>1. \A t \in Types : Templates(job.doc, t) = Templates(file.doc, t)
  BY Written DEF Same, Done
<1>2. PrintsOf(file.doc)' = PrintsOf(file.doc)
  BY <1>1, Written
<1>3. \A t \in Types : job.doc.pending[t] = IF t \in T THEN {job.by} ELSE file.doc.pending[t]
  BY Written DEF Same, Done
<1>4. file'.doc.pending = [t \in Types |-> IF t \in T THEN {job.by} ELSE file.doc.pending[t]]
  <2> HIDE DEF T
  <2>1. job.doc.pending = [t \in Types |-> job.doc.pending[t]]
    BY Written DEF WrittenHalfway, StoreInv, Sound, Docs
  <2> QED BY <1>3, <2>1, Written
<1>5. T \in SUBSET Types
  OBVIOUS
<1> HIDE DEF T
<1> QED BY <1>2, <1>4, <1>5, Written DEF G!Enrol

\* A print with a label is one of an entry with it.
LEMMA NamedPrints ==
    ASSUME WrittenHalfway, NEW t \in Types, NEW l
    PROVE  /\ G!Named(t, l) = {p \in Prints(Templates(file.doc, t)) : p.label = l}
           /\ G!Named(t, l) = {} <=> Labelled(Templates(file.doc, t), l) = {}
<1>1. PrintsOf(file.doc)[t] = Prints(Templates(file.doc, t))
  BY Written
<1>2. G!Named(t, l) = {p \in Prints(Templates(file.doc, t)) : p.label = l}
  BY <1>1 DEF G!Named
<1> DEFINE s == Templates(file.doc, t)
<1>3. ASSUME NEW e \in Labelled(s, l) PROVE {p \in Prints(s) : p.label = l} # {}
  <2>1. [label |-> e.label, data |-> e.data] \in Prints(s)
    BY DEF Prints, Labelled
  <2> QED BY <2>1 DEF Labelled
<1>4. ASSUME NEW p \in Prints(s), p.label = l PROVE Labelled(s, l) # {}
  BY <1>4 DEF Prints, Labelled
<1> QED BY <1>2, <1>3, <1>4

\* What was pending is a print with the label now, a new one or a replaced one.
LEMMA WrittenRelabels ==
    ASSUME WrittenHalfway, job.op = "SET_LABEL", NEW t \in Types, Done(job.doc, t)
    PROVE  G!Relabelled(t, job.label)
<1> DEFINE old == Templates(file.doc, t)
           l   == job.label
           x   == file.doc.pending[t]
           new == [label |-> l, data |-> x]
           p   == [label |-> l, data |-> First(old, l).data]
<1>1. /\ PrintsOf(file.doc)[t] = Prints(old)
      /\ PrintsOf(file.doc)'[t] = Prints(Put(old, l, x))
  BY Written DEF Done
<1>2. old \in SUBSET Entries
  BY TemplatesOrdered DEF WrittenHalfway, StoreInv
<1>3. CASE Labelled(old, l) = {}
  <2>1. Prints(Put(old, l, x)) = Prints(old) \cup {new}
    BY <1>3, PrintsOfAdd DEF Put
  <2>2. G!Adds(t, new)
    BY <1>1, <2>1 DEF G!Adds
  <2>3. G!Named(t, l) = {}
    BY <1>3, NamedPrints
  <2> QED BY <2>2, <2>3 DEF G!Relabelled
<1>4. CASE Labelled(old, l) # {}
  <2>1. /\ p \in Prints(old)
        /\ \/ Prints(Put(old, l, x)) = Prints(old) \cup {new}
           \/ Prints(Put(old, l, x)) = (Prints(old) \ {p}) \cup {new}
    BY <1>2, <1>4, PrintsOfPut
  <2>2. p \in G!Named(t, l)
    BY <2>1, NamedPrints
  <2> HIDE DEF p
  <2>3. G!Adds(t, new) \/ G!Replaces(t, p, new)
    BY <1>1, <2>1 DEF G!Adds, G!Replaces
  <2> QED BY <2>2, <2>3 DEF G!Relabelled
<1> QED BY <1>3, <1>4

\* SET_LABEL, when it is written, is the step Label.
LEMMA WrittenLabels == WrittenHalfway /\ job.op = "SET_LABEL" => G!Label
<1> SUFFICES ASSUME WrittenHalfway, job.op = "SET_LABEL" PROVE G!Label
  OBVIOUS
<1> DEFINE T == {t \in Types : Done(job.doc, t)}
<1>1. \A t \in T : file.doc.pending[t] # {}
  BY DEF Done
<1>2. \A t \in Types : job.doc.pending[t] = IF t \in T THEN {} ELSE file.doc.pending[t]
  BY Written DEF Same, Done
<1>3. \A t \in Types : IF t \in T THEN G!Relabelled(t, job.label) ELSE G!Stays(t)
  <2> SUFFICES ASSUME NEW t \in Types
               PROVE  IF t \in T THEN G!Relabelled(t, job.label) ELSE G!Stays(t)
    OBVIOUS
  <2>1. CASE t \in T
    BY <2>1, WrittenRelabels
  <2>2. CASE t \notin T
    BY <2>2, Written DEF Same, G!Stays
  <2> QED BY <2>1, <2>2
<1> HIDE DEF T
<1>4. file'.doc.pending = [t \in Types |-> IF t \in T THEN {} ELSE file.doc.pending[t]]
  <2>1. job.doc.pending = [t \in Types |-> job.doc.pending[t]]
    BY Written DEF WrittenHalfway, StoreInv, Sound, Docs
  <2> QED BY <1>2, <2>1, Written
<1>5. T \in SUBSET Types
  BY DEF T
<1> QED BY <1>1, <1>3, <1>4, <1>5, Written DEF G!Label

\* The new capture is a print of its own, or is in one that had the label.
LEMMA WrittenLearns ==
    ASSUME WrittenHalfway, job.op \in {"TRAIN_USER", "TRAIN_NEW"}, NEW t \in Types,
           Done(job.doc, t)
    PROVE  G!Learnt(t, job.by, job.label)
<1> DEFINE old == Templates(file.doc, t)
           l   == job.label
           x   == {job.by}
           alone == [label |-> l, data |-> x]
           y   == First(old, l).data \cup x
           p   == [label |-> l, data |-> First(old, l).data]
           new == [label |-> l, data |-> y]
<1>1. /\ PrintsOf(file.doc)[t] = Prints(old)
      /\ PrintsOf(file.doc)'[t] = Prints(Templates(job.doc, t))
  BY Written
<1>2. old \in SUBSET Entries
  BY TemplatesOrdered DEF WrittenHalfway, StoreInv
<1>3. CASE Prints(Templates(job.doc, t)) = Prints(old) \cup {alone}
  <2>1. G!Adds(t, alone)
    BY <1>1, <1>3 DEF G!Adds
  <2> QED BY <2>1 DEF G!Learnt
<1>4. CASE Labelled(old, l) # {} /\ Templates(job.doc, t) = Put(old, l, y)
  <2> HIDE DEF y, old
  <2>1. /\ p \in Prints(old)
        /\ \/ Prints(Put(old, l, y)) = Prints(old) \cup {new}
           \/ Prints(Put(old, l, y)) = (Prints(old) \ {p}) \cup {new}
    BY <1>2, <1>4, PrintsOfPut
  <2>2. p \in G!Named(t, l)
    BY <2>1, NamedPrints DEF old
  <2>3. [p EXCEPT !.data = p.data \cup x] = new
    BY DEF y
  <2> HIDE DEF p, new
  <2>4. G!Adds(t, new) \/ G!Replaces(t, p, new)
    BY <1>1, <1>4, <2>1 DEF G!Adds, G!Replaces
  <2> QED BY <2>2, <2>3, <2>4 DEF G!Learnt
<1>5. CASE job.op = "TRAIN_NEW"
  BY <1>3, <1>5 DEF Done
<1>6. CASE job.op = "TRAIN_USER"
  <2>1. Templates(job.doc, t) = Refine(old, l, x)
    BY <1>6 DEF Done
  <2>2. CASE Labelled(old, l) = {}
    <3>1. Templates(job.doc, t) = Add(old, l, x)
      BY <2>1, <2>2 DEF Refine
    <3> HIDE DEF x, old
    <3>2. Prints(Add(old, l, x)) = Prints(old) \cup {alone}
      BY PrintsOfAdd
    <3> QED BY <1>3, <3>1, <3>2
  <2>3. CASE Labelled(old, l) # {}
    BY <1>4, <2>1, <2>3 DEF Refine
  <2> QED BY <2>2, <2>3
<1> QED BY <1>5, <1>6

\* TRAIN_USER and TRAIN_NEW, when they are written, are the step Learn,
LEMMA WrittenTrains ==
    WrittenHalfway /\ job.op \in {"TRAIN_USER", "TRAIN_NEW"} => G!Learn
<1> SUFFICES ASSUME WrittenHalfway, job.op \in {"TRAIN_USER", "TRAIN_NEW"} PROVE G!Learn
  OBVIOUS
<1> DEFINE T == {t \in Types : Done(job.doc, t)}
<1>1. \A t \in Types : job.doc.pending[t] = file.doc.pending[t]
  BY Written DEF Same, Done
<1>2. \A t \in Types : IF t \in T THEN G!Learnt(t, job.by, job.label) ELSE G!Stays(t)
  <2> SUFFICES ASSUME NEW t \in Types
               PROVE  IF t \in T THEN G!Learnt(t, job.by, job.label) ELSE G!Stays(t)
    OBVIOUS
  <2>1. CASE t \in T
    BY <2>1, WrittenLearns
  <2>2. CASE t \notin T
    BY <2>2, Written DEF Same, G!Stays
  <2> QED BY <2>1, <2>2
<1>3. file'.doc.pending = file.doc.pending
  <2>1. /\ job.doc.pending = [t \in Types |-> job.doc.pending[t]]
        /\ file.doc.pending = [t \in Types |-> file.doc.pending[t]]
    BY DEF WrittenHalfway, StoreInv, Sound, Docs
  <2> QED BY <1>1, <2>1, Written
<1>4. T \in SUBSET Types
  OBVIOUS
<1> HIDE DEF T
<1> QED BY <1>2, <1>3, <1>4, Written DEF G!Learn

\* and REMOVE_EMBEDDING is Forget.
LEMMA WrittenRemoves == WrittenHalfway /\ job.op = "REMOVE_EMBEDDING" => G!Forget
<1> SUFFICES ASSUME WrittenHalfway, job.op = "REMOVE_EMBEDDING" PROVE G!Forget
  OBVIOUS
<1> DEFINE T == {t \in Types : Done(job.doc, t)}
<1>1. \A t \in Types : job.doc.pending[t] = file.doc.pending[t]
  BY Written DEF Same, Done
<1>2. ASSUME NEW t \in Types
      PROVE  IF t \in T THEN PrintsOf(file.doc)'[t] = PrintsOf(file.doc)[t] \ G!Named(t, job.label)
             ELSE G!Stays(t)
  <2>1. CASE t \in T
    <3>1. Templates(job.doc, t) = Templates(file.doc, t)
                                    \ Labelled(Templates(file.doc, t), job.label)
      BY <2>1 DEF Done
    <3>2. Prints(Templates(job.doc, t)) =
            Prints(Templates(file.doc, t))
              \ {p \in Prints(Templates(file.doc, t)) : p.label = job.label}
      BY <3>1, PrintsOfRest
    <3> QED BY <2>1, <3>2, NamedPrints, Written
  <2>2. CASE t \notin T
    BY <2>2, Written DEF Same, G!Stays
  <2> QED BY <2>1, <2>2
<1>3. file'.doc.pending = file.doc.pending
  <2>1. /\ job.doc.pending = [t \in Types |-> job.doc.pending[t]]
        /\ file.doc.pending = [t \in Types |-> file.doc.pending[t]]
    BY DEF WrittenHalfway, StoreInv, Sound, Docs
  <2> QED BY <1>1, <2>1, Written
<1>4. T \in SUBSET Types
  OBVIOUS
<1> HIDE DEF T
<1> QED BY <1>2, <1>3, <1>4, Written DEF G!Forget

\* A write that is cut short is the step Lose.
LEMMA CutLoses == file' = Cut => G!Lose
<1> SUFFICES ASSUME file' = Cut PROVE G!Lose
  OBVIOUS
<1>1. file'.state = "corrupt" /\ file'.doc.pending = [t \in Types |-> {}]
  BY DEF Cut, NoDoc
<1>2. PrintsOf(file.doc)' = PrintsOf(NoDoc)
  BY DEF Cut, PrintsOf
<1>3. \A t \in Types : Templates(NoDoc, t) = {}
  BY DEF NoDoc, Templates, Migrated
<1>4. PrintsOf(NoDoc) = [t \in Types |-> {}]
  BY <1>3, PrintsOfTemplates DEF Prints
<1> QED BY <1>1, <1>2, <1>4 DEF G!Lose

\* Every step of the store is a step of the gallery or does not touch it.
LEMMA StoreStepRefines ==
    StoreInv /\ Halfway /\ [Next]_vars => [G!Next]_(G!vars)
<1> SUFFICES ASSUME StoreInv, Halfway, [Next]_vars PROVE [G!Next]_(G!vars)
  OBVIOUS
<1>1. CASE file' = file
  BY <1>1 DEF G!vars, PrintsOf
<1>2. CASE file' # file
  <2>1. job \in Jobs /\ job # Idle /\ Write(job.doc)
    BY <1>2, FileSteps
  <2>2. CASE file' = Cut
    BY <2>2, CutLoses DEF G!Next
  <2>3. CASE file' = [state |-> "ok", doc |-> job.doc]
    <3>1. WrittenHalfway
      BY <2>1, <2>3 DEF WrittenHalfway
    <3>2. job.op \in Ops
      BY <2>1 DEF Jobs
    <3>3. G!Enrol \/ G!Label \/ G!Learn \/ G!Forget
      BY <3>1, <3>2, WrittenEnrols, WrittenLabels, WrittenTrains, WrittenRemoves DEF Ops
    <3> QED BY <3>3 DEF G!Next
  <2> QED BY <1>2, <2>1, <2>2, <2>3 DEF Write
<1> QED BY <1>1, <1>2

\* The files a daemon finds are galleries.
LEMMA StoreInitRefines == StoreInv => G!Init
<1> SUFFICES ASSUME StoreInv PROVE G!Init
  OBVIOUS
<1>1. \A t \in Types : Templates(file.doc, t) \in SUBSET Entries
  BY TemplatesOrdered DEF StoreInv
<1>2. \A t \in Types : Prints(Templates(file.doc, t)) \in SUBSET G!Imprint
  BY <1>1 DEF Prints, Entries, G!Imprint, Sources
<1>3. PrintsOf(file.doc) \in [Types -> SUBSET G!Imprint]
  BY <1>2, PrintsOfTemplates
<1>4. file.doc.pending \in [Types -> SUBSET (Sessions \cup {"old"})]
  BY DEF StoreInv, Sound, Docs, Sources
<1> QED BY <1>3, <1>4 DEF G!Init

\* Whatever formats, cameras, sessions and restarts do, the file of a user is a gallery
\* (enrollUser, setLabel, trainUser and removeEmbedding, from their loops to the write).
THEOREM GalleryRefinement == Spec => ImplementsGallery
<1>1. Init => Halfway
  BY DEF Init, Halfway
<1> QED BY <1>1, StoreInit, StoreInitRefines, StoreStepRefines, HalfwayNext, StoreInvariant,
           PTL DEF Spec, G!Spec, ImplementsGallery

-----------------------------------------------------------------------------
(* What was pending is under its label.                                     *)

\* The cameras that setLabel has done have nothing pending.
Unpending ==
    job.op = "SET_LABEL" =>
      \A c \in DOMAIN layout : c < job.cam => job.doc.pending[layout[c]] = {}

\* An iteration of setLabel leaves nothing pending for its camera, or gives up.
LEMMA UnpendingLabel == StoreInv /\ Unpending /\ LabelCamera => Unpending'
<1> SUFFICES ASSUME StoreInv, Unpending, LabelCamera PROVE Unpending'
  OBVIOUS
<1> DEFINE t == CameraType
           m == Migrate(job.doc, t)
           s == Put(m.entries[t], job.label, job.doc.pending[t])
           n == Edited(m, t, {}, s)
<1>1. /\ job \in Jobs /\ t \in Types /\ job.cam \in DOMAIN layout /\ Sound(job.doc)
      /\ job.op = "SET_LABEL"
  BY CameraTyped DEF StoreInv, LabelCamera, AtCamera, Ops
<1>2. layout \in Seq(Types)
  BY StoreAssumption DEF StoreAssumption, StoreInv, StoreTypeOK
<1>3. ASSUME NEW d, \E u : NextCamera(d, u), d.pending[t] = {},
             \A v \in Types : v # t => d.pending[v] = job.doc.pending[v]
      PROVE  Unpending'
  <2>1. job'.cam = job.cam + 1 /\ job'.doc = d /\ layout' = layout /\ job.cam \in Nat
    BY <1>1, <1>3 DEF NextCamera, Jobs
  <2>2. ASSUME NEW c \in DOMAIN layout, c < job.cam + 1 PROVE d.pending[layout[c]] = {}
    <3>1. layout[c] \in Types
      BY <1>2
    <3>2. CASE layout[c] = t
      BY <1>3, <3>2
    <3>3. CASE layout[c] # t
      <4>1. c < job.cam
        BY <1>2, <2>1, <2>2, <3>3 DEF CameraType
      <4> QED BY <1>1, <1>3, <3>1, <3>3, <4>1 DEF Unpending
    <3> QED BY <3>2, <3>3
  <2> QED BY <2>1, <2>2 DEF Unpending
<1>4. CASE job.doc.pending[t] = {}
  <2>1. NextCamera(job.doc, FALSE)
    BY <1>4 DEF LabelCamera
  <2> HIDE DEF t
  <2> QED BY <1>3, <1>4, <2>1
<1>5. CASE Abandon("FAIL")
  <2>1. job' = Idle
    BY <1>5 DEF Abandon
  <2> QED BY <2>1 DEF Unpending, Idle
<1>6. CASE NextCamera(n, TRUE)
  <2>1. Sound(m) /\ m.pending = job.doc.pending
    BY <1>1, MigrateKeeps
  <2> HIDE DEF m, s, t
  <2>2. n.pending[t] = {} /\ \A v \in Types : v # t => n.pending[v] = m.pending[v]
    BY <1>1, <2>1, EditedTemplates
  <2> HIDE DEF n
  <2>3. \A v \in Types : v # t => n.pending[v] = job.doc.pending[v]
    BY <2>1, <2>2
  <2>4. \E u : NextCamera(n, u)
    BY <1>6
  <2> QED BY <1>3, <2>2, <2>3, <2>4
<1>7. job.doc.pending[t] = {} \/ Abandon("FAIL") \/ NextCamera(n, TRUE)
  BY DEF LabelCamera, Edited
<1> HIDE DEF n
<1> QED BY <1>4, <1>5, <1>6, <1>7

\* Every step keeps what setLabel has done so far.
LEMMA UnpendingNext == StoreInv /\ Unpending /\ [Next]_vars => Unpending'
<1> SUFFICES ASSUME StoreInv, Unpending, [Next]_vars PROVE Unpending'
  OBVIOUS
<1>1. CASE SessionStep
  <2>1. /\ layout' = layout
        /\ job' = job \/ job'.cam = 1
    BY <1>1, SessionStarts
  <2>2. \A c \in DOMAIN layout : ~(c < 1)
    BY StoreAssumption DEF StoreAssumption, StoreInv, StoreTypeOK
  <2> QED BY <2>1, <2>2 DEF Unpending
<1>2. CASE LabelCamera
  BY <1>2, UnpendingLabel
<1>3. CASE Iteration /\ ~LabelCamera
  <2>1. job.op # "SET_LABEL"
    BY <1>3 DEF Iteration, AddCamera, RemoveCamera, TrainCamera, AtCamera
  <2> QED BY <1>3, <2>1, OtherLoops DEF Unpending, Ops
<1>4. CASE FinishJob \/ DaemonRestarts
  <2>1. job' = Idle
    BY <1>4 DEF FinishJob, DaemonRestarts
  <2> QED BY <2>1 DEF Unpending, Idle
<1>5. CASE UNCHANGED vars
  BY <1>5 DEF vars, Unpending
<1> QED BY <1>1, <1>2, <1>3, <1>4, <1>5, NextCases

\* What is pending of a type without a camera stays as it is in the file.
Leftover ==
    job.op = "SET_LABEL" =>
      \A t \in Types \ Range(layout) : job.doc.pending[t] = file.doc.pending[t]

\* An iteration of setLabel touches what is pending for its own camera only.
LEMMA LeftoverLabel == StoreInv /\ Leftover /\ LabelCamera => Leftover'
<1> SUFFICES ASSUME StoreInv, Leftover, LabelCamera PROVE Leftover'
  OBVIOUS
<1> DEFINE t == CameraType
           m == Migrate(job.doc, t)
           s == Put(m.entries[t], job.label, job.doc.pending[t])
           n == Edited(m, t, {}, s)
<1>1. /\ job \in Jobs /\ t \in Types /\ job.cam \in DOMAIN layout /\ Sound(job.doc)
      /\ job.op = "SET_LABEL"
  BY CameraTyped DEF StoreInv, LabelCamera, AtCamera, Ops
<1>2. t \in Range(layout)
  BY <1>1 DEF CameraType, Range
<1>3. ASSUME NEW d, \E u : NextCamera(d, u),
             \A v \in Types : v # t => d.pending[v] = job.doc.pending[v]
      PROVE  Leftover'
  <2>1. job'.doc = d /\ layout' = layout /\ file' = file
    BY <1>1, <1>3 DEF NextCamera, Jobs
  <2> HIDE DEF t
  <2>2. \A v \in Types \ Range(layout) : d.pending[v] = file.doc.pending[v]
    BY <1>1, <1>2, <1>3 DEF Leftover
  <2> QED BY <2>1, <2>2 DEF Leftover
<1>4. CASE job.doc.pending[t] = {}
  <2>1. NextCamera(job.doc, FALSE)
    BY <1>4 DEF LabelCamera
  <2> HIDE DEF t
  <2> QED BY <1>3, <2>1
<1>5. CASE Abandon("FAIL")
  <2>1. job' = Idle
    BY <1>5 DEF Abandon
  <2> QED BY <2>1 DEF Leftover, Idle
<1>6. CASE NextCamera(n, TRUE)
  <2>1. Sound(m) /\ m.pending = job.doc.pending
    BY <1>1, MigrateKeeps
  <2> HIDE DEF m, s, t
  <2>2. \A v \in Types : v # t => n.pending[v] = m.pending[v]
    BY <1>1, <2>1, EditedTemplates
  <2> HIDE DEF n
  <2>3. \A v \in Types : v # t => n.pending[v] = job.doc.pending[v]
    BY <2>1, <2>2
  <2> QED BY <1>3, <1>6, <2>3
<1>7. job.doc.pending[t] = {} \/ Abandon("FAIL") \/ NextCamera(n, TRUE)
  BY DEF LabelCamera, Edited
<1> HIDE DEF n
<1> QED BY <1>4, <1>5, <1>6, <1>7

\* Every step leaves it so: a command starts from the file, and ends with its write.
LEMMA LeftoverNext == StoreInv /\ Leftover /\ [Next]_vars => Leftover'
<1> SUFFICES ASSUME StoreInv, Leftover, [Next]_vars PROVE Leftover'
  OBVIOUS
<1>1. CASE SessionStep
  BY <1>1, SessionStarts DEF Leftover
<1>2. CASE LabelCamera
  BY <1>2, LeftoverLabel
<1>3. CASE Iteration /\ ~LabelCamera
  <2>1. job.op # "SET_LABEL"
    BY <1>3 DEF Iteration, AddCamera, RemoveCamera, TrainCamera, AtCamera
  <2> QED BY <1>3, <2>1, OtherLoops DEF Leftover, Ops
<1>4. CASE FinishJob \/ DaemonRestarts
  <2>1. job' = Idle
    BY <1>4 DEF FinishJob, DaemonRestarts
  <2> QED BY <2>1 DEF Leftover, Idle
<1>5. CASE UNCHANGED vars
  BY <1>5 DEF vars, Leftover
<1> QED BY <1>1, <1>2, <1>3, <1>4, <1>5, NextCases

\* After a SET_LABEL that changed the file nothing is pending for the cameras of the
\* layout, what was is what the first entry with the label holds, the one that later
\* commands will find, and for other types the same is pending as before (setLabel).
THEOREM PendingGetsItsLabel == Spec => PendingIsLabelled
<1>1. Init => Halfway /\ Unpending /\ Leftover
  BY DEF Init, Halfway, Unpending, Leftover, Idle
<1>2. StoreInv /\ Halfway /\ Unpending /\ Leftover /\ [Next]_vars =>
        [ job.op = "SET_LABEL" /\ file' # file /\ file'.state = "ok" =>
            /\ \A c \in DOMAIN layout :
                  LET t == layout[c] IN
                  /\ file'.doc.pending[t] = {}
                  /\ file.doc.pending[t] # {} =>
                       First(file'.doc.entries[t], job.label).data = file.doc.pending[t]
            /\ \A t \in Types \ Range(layout) : file'.doc.pending[t] = file.doc.pending[t] ]_vars
  <2> SUFFICES ASSUME StoreInv, Halfway, Unpending, Leftover, [Next]_vars,
                      job.op = "SET_LABEL", file' # file, file'.state = "ok"
               PROVE  /\ \A c \in DOMAIN layout :
                            LET t == layout[c] IN
                            /\ file'.doc.pending[t] = {}
                            /\ file.doc.pending[t] # {} =>
                                 First(file'.doc.entries[t], job.label).data = file.doc.pending[t]
                      /\ \A t \in Types \ Range(layout) :
                            file'.doc.pending[t] = file.doc.pending[t]
    OBVIOUS
  <2>1. job \in Jobs /\ job # Idle /\ Writing /\ file'.doc = job.doc
    BY FileChanges
  <2>2. \A t \in Types \ Range(layout) : file'.doc.pending[t] = file.doc.pending[t]
    BY <2>1 DEF Leftover
  <2>3. ASSUME NEW c \in DOMAIN layout
        PROVE  LET t == layout[c] IN
               /\ file'.doc.pending[t] = {}
               /\ file.doc.pending[t] # {} =>
                    First(file'.doc.entries[t], job.label).data = file.doc.pending[t]
    <3> DEFINE t == layout[c]
               p == file.doc.pending[t]
               old == Templates(file.doc, t)
    <3>1. c < job.cam /\ t \in Types
      BY <2>1, StoreAssumption DEF StoreAssumption, StoreInv, StoreTypeOK, Writing, Jobs
    <3>2. job.doc.pending[t] = {}
      BY <3>1 DEF Unpending
    <3>3. ASSUME p # {} PROVE First(job.doc.entries[t], job.label).data = p
      <4>1. Done(job.doc, t)
        BY <2>1, <3>1, <3>2, <3>3 DEF Halfway, Same
      <4>2. job.doc.entries[t] = Put(old, job.label, p)
        BY <4>1 DEF Done, Templates
      <4>3. old \in SUBSET Entries /\ Ordered(old)
        BY <3>1, TemplatesOrdered DEF StoreInv
      <4>4. job.label \in Labels /\ p \in SUBSET Sources
        BY <2>1, <3>1, KeepingOne DEF StoreInv, Jobs
      <4> HIDE DEF p, old
      <4> QED BY <4>2, <4>3, <4>4, FirstOfPut
    <3> QED BY <2>1, <3>2, <3>3
  <2> QED BY <2>2, <2>3
<1> QED BY <1>1, <1>2, HalfwayNext, UnpendingNext, LeftoverNext, StoreInvariant,
           PTL DEF Spec, PendingIsLabelled

-----------------------------------------------------------------------------
(* The limit.                                                               *)

\* An entry more is one more, a replaced entry is none.
LEMMA SizeOfAdd ==
    ASSUME NEW s, IsFiniteSet(s), NEW l, NEW x
    PROVE  /\ Cardinality(s) \in Nat /\ Cardinality(Add(s, l, x)) \in Nat
           /\ Cardinality(Add(s, l, x)) <= Cardinality(s) + 1
<1> DEFINE new == [at |-> 1 + Max({0} \cup {e.at : e \in s}), label |-> l, data |-> x]
<1>1. Add(s, l, x) = s \cup {new}
  BY DEF Add
<1> HIDE DEF new
<1>2. Cardinality(s) \in Nat
  BY FS_CardinalityType
<1>3. Cardinality(s \cup {new}) = IF new \in s THEN Cardinality(s) ELSE Cardinality(s) + 1
  BY FS_AddElement
<1> QED BY <1>1, <1>2, <1>3

\* An entry put under a label that is there makes the array no larger.
LEMMA SizeOfPut ==
    ASSUME NEW s \in SUBSET Entries, IsFiniteSet(s), NEW l, NEW x, Labelled(s, l) # {}
    PROVE  /\ Cardinality(s) \in Nat /\ Cardinality(Put(s, l, x)) \in Nat
           /\ Cardinality(Put(s, l, x)) <= Cardinality(s)
<1> DEFINE old == First(s, l)
           new == [old EXCEPT !.data = x]
           rest == s \ {old}
<1>1. old \in s
  BY FirstIsLabelled DEF Labelled
<1>2. Put(s, l, x) = rest \cup {new}
  BY DEF Put
<1> HIDE DEF old, new
<1>3. Cardinality(s) \in Nat
  BY FS_CardinalityType
<1>4. IsFiniteSet(rest) /\ Cardinality(rest) = Cardinality(s) - 1
  BY <1>1, FS_RemoveElement
<1> HIDE DEF rest
<1>5. Cardinality(rest \cup {new}) = IF new \in rest THEN Cardinality(rest) ELSE Cardinality(rest) + 1
  BY <1>4, FS_AddElement
<1>6. Cardinality(rest) \in Nat
  BY <1>4, FS_CardinalityType
<1> QED BY <1>2, <1>3, <1>4, <1>5, <1>6

\* What a command makes of a type is within the limit, or no more than there was.
Within(s, t) ==
    \/ Cardinality(s) <= Cardinality(Templates(file.doc, t))
    \/ MaxEmbeddings > 0 => Cardinality(s) <= MaxEmbeddings

Limited ==
    job # Idle /\ job.op # "TRAIN_USER" =>
      \A t \in Types : Within(Templates(job.doc, t), t)

\* Templates can be counted.
LEMMA SizeOfTemplates ==
    ASSUME NEW d, Sound(d), NEW t \in Types
    PROVE  IsFiniteSet(Templates(d, t)) /\ Cardinality(Templates(d, t)) \in Nat
BY TemplatesOrdered, FS_CardinalityType DEF Ordered

\* An array that is not full may grow by one, and any may shrink.
LEMMA WithinGrown ==
    ASSUME StoreInv, NEW t \in Types, NEW s, IsFiniteSet(s), ~Full(s), NEW l, NEW x
    PROVE  Within(Add(s, l, x), t)
<1>1. MaxEmbeddings \in Nat
  BY StoreAssumption DEF StoreAssumption
<1> QED BY <1>1, SizeOfAdd DEF Within, Full

\* An array that is no larger is within the limit, too.
LEMMA WithinSmaller ==
    ASSUME StoreInv, NEW t \in Types, NEW s, NEW r, Within(s, t), Cardinality(s) \in Nat,
           Cardinality(r) \in Nat, Cardinality(r) <= Cardinality(s)
    PROVE  Within(r, t)
<1>1. MaxEmbeddings \in Nat
  BY StoreAssumption DEF StoreAssumption
<1>2. Cardinality(Templates(file.doc, t)) \in Nat
  BY SizeOfTemplates DEF StoreInv
<1> QED BY <1>1, <1>2 DEF Within

\* Going on with a document that differs in one type, where the limit is kept.
LEMMA LimitedGoesOn ==
    ASSUME StoreInv, Limited, job \in Jobs, NEW t \in Types, NEW d, \E u : NextCamera(d, u),
           job.op # "TRAIN_USER" => Within(Templates(d, t), t),
           \A v \in Types : v # t => Templates(d, v) = Templates(job.doc, v)
    PROVE  Limited'
<1>1. job'.doc = d /\ job'.op = job.op /\ file' = file
  BY DEF NextCamera, Jobs
<1>2. job.op # "TRAIN_USER" => \A v \in Types : Within(Templates(d, v), v)
  BY JobCases DEF Limited, StoreInv
<1>3. \A v \in Types : Within(Templates(d, v), v)' <=> Within(Templates(d, v), v)
  BY <1>1 DEF Within
<1> QED BY <1>1, <1>2, <1>3 DEF Limited, Within

\* Going on with the same templates, and giving up.
LEMMA LimitedStays ==
    ASSUME StoreInv, Limited, job \in Jobs,
           \/ \E d : /\ \E u : NextCamera(d, u)
                     /\ \A v \in Types : Templates(d, v) = Templates(job.doc, v)
           \/ \E r : Abandon(r)
    PROVE  Limited'
<1>1. ASSUME NEW d, \E u : NextCamera(d, u),
             \A v \in Types : Templates(d, v) = Templates(job.doc, v)
      PROVE  Limited'
  <2>1. job'.doc = d /\ job'.op = job.op /\ file' = file
    BY <1>1 DEF NextCamera, Jobs
  <2> QED BY <1>1, <2>1, JobCases DEF Limited, Within, StoreInv
<1>2. CASE \E r : Abandon(r)
  BY <1>2 DEF Abandon, Limited
<1> QED BY <1>1, <1>2

\* enrollUser leaves the arrays alone,
LEMMA LimitedAdd ==
    ASSUME StoreInv, Limited, NEW o \in Captures, AddCamera(o)
    PROVE  Limited'
<1> DEFINE t == CameraType
           n == Edited(job.doc, t, {job.by}, job.doc.entries[t])
           d == [job.doc EXCEPT !.pending[CameraType] = {job.by}]
<1>1. job \in Jobs /\ t \in Types /\ Sound(job.doc)
  BY CameraTyped DEF StoreInv, AddCamera, Ops
<1>2. d = n
  BY <1>1 DEF Edited, Sound, Docs
<1>3. \A v \in Types : Templates(n, v) = Templates(job.doc, v)
  BY <1>1, EditedTemplates
<1>4. NextCamera(d, TRUE) \/ \E r : Abandon(r)
  BY DEF AddCamera, Captures
<1> HIDE DEF d, n
<1> QED BY <1>1, <1>2, <1>3, <1>4, LimitedStays

\* setLabel looks at the limit before each array it makes longer,
LEMMA LimitedLabel == StoreInv /\ Limited /\ LabelCamera => Limited'
<1> SUFFICES ASSUME StoreInv, Limited, LabelCamera PROVE Limited'
  OBVIOUS
<1> DEFINE t == CameraType
           x == job.doc.pending[t]
           d == Migrate(job.doc, t)
           e == d.entries[t]
           s == Put(e, job.label, x)
           n == Edited(d, t, {}, s)
<1>1. job \in Jobs /\ job # Idle /\ t \in Types /\ Sound(job.doc) /\ job.op = "SET_LABEL"
  BY CameraTyped DEF StoreInv, LabelCamera, AtCamera, Ops
<1>2. \/ NextCamera(job.doc, FALSE)
      \/ Abandon("FAIL")
      \/ ~(Full(e) /\ Labelled(e, job.label) = {}) /\ NextCamera(n, TRUE)
  BY DEF LabelCamera, Edited
<1>3. ASSUME ~(Full(e) /\ Labelled(e, job.label) = {}), NextCamera(n, TRUE)
      PROVE  Limited'
  <2>1. /\ Sound(d) /\ d.array[t]
        /\ \A v \in Types : Templates(d, v) = Templates(job.doc, v)
        /\ e = Templates(job.doc, t) /\ e \in SUBSET Entries
    BY <1>1, MigrateKeeps, TemplatesOrdered
  <2>2. IsFiniteSet(e) /\ Within(e, t)
    BY <1>1, <2>1, SizeOfTemplates DEF Limited
  <2> HIDE DEF e, x, t
  <2>3. Within(s, t)
    <3>1. CASE Labelled(e, job.label) = {}
      <4>1. s = Add(e, job.label, x)
        BY <3>1 DEF Put
      <4> QED BY <1>1, <1>3, <2>2, <3>1, <4>1, WithinGrown
    <3>2. CASE Labelled(e, job.label) # {}
      <4>1. Cardinality(e) \in Nat /\ Cardinality(s) \in Nat /\ Cardinality(s) <= Cardinality(e)
        BY <2>1, <2>2, <3>2, SizeOfPut
      <4> HIDE DEF s
      <4> QED BY <1>1, <2>2, <4>1, WithinSmaller
    <3> QED BY <3>1, <3>2
  <2> HIDE DEF d, s
  <2>4. Templates(n, t) = s /\ \A v \in Types : v # t => Templates(n, v) = Templates(job.doc, v)
    BY <1>1, <2>1, EditedTemplates
  <2> HIDE DEF n
  <2>5. \E u : NextCamera(n, u)
    BY <1>3
  <2> QED BY <1>1, <2>3, <2>4, <2>5, LimitedGoesOn
<1> HIDE DEF n, e
<1>4. CASE NextCamera(job.doc, FALSE) \/ Abandon("FAIL")
  BY <1>1, <1>4, LimitedStays
<1> QED BY <1>2, <1>3, <1>4

\* trainUser does so for TRAIN_NEW,
LEMMA LimitedTrain ==
    ASSUME StoreInv, Limited, NEW o \in Captures, TrainCamera(o)
    PROVE  Limited'
<1> DEFINE t == CameraType
           d == Migrate(job.doc, t)
           e == d.entries[t]
           s == IF job.op = "TRAIN_NEW" THEN Add(e, job.label, {job.by})
                ELSE Refine(e, job.label, {job.by})
           n == Edited(d, t, d.pending[t], s)
<1>1. job \in Jobs /\ job # Idle /\ t \in Types /\ Sound(job.doc)
      /\ job.op \in {"TRAIN_USER", "TRAIN_NEW"}
  BY CameraTyped DEF StoreInv, TrainCamera, AtCamera, Ops
<1>2. /\ Sound(d) /\ d.array[t]
      /\ \A v \in Types : Templates(d, v) = Templates(job.doc, v)
      /\ e = Templates(job.doc, t)
  BY <1>1, MigrateKeeps, TemplatesOrdered
<1>3. \/ NextCamera(job.doc, FALSE)
      \/ \E r : Abandon(r)
      \/ ~(job.op = "TRAIN_NEW" /\ Full(e)) /\ NextCamera(n, TRUE)
  <2>1. TrainDoc(d, t) = [d EXCEPT !.entries[t] = s]
    BY DEF TrainDoc
  <2>2. \/ NextCamera(job.doc, FALSE) \/ (\E r : Abandon(r))
        \/ ~(job.op = "TRAIN_NEW" /\ Full(e)) /\ NextCamera(TrainDoc(d, t), TRUE)
    BY DEF TrainCamera
  <2> HIDE DEF d, t, s, e
  <2>3. [d EXCEPT !.entries[t] = s] = n
    BY <1>1, <1>2 DEF Edited, Sound, Docs
  <2> QED BY <2>1, <2>2, <2>3
<1>4. ASSUME ~(job.op = "TRAIN_NEW" /\ Full(e)), NextCamera(n, TRUE) PROVE Limited'
  <2>1. IsFiniteSet(e)
    BY <1>1, <1>2, SizeOfTemplates
  <2> HIDE DEF e, t
  <2>2. job.op # "TRAIN_USER" => Within(s, t)
    <3>1. ASSUME job.op = "TRAIN_NEW" PROVE Within(s, t)
      <4>1. s = Add(e, job.label, {job.by}) /\ ~Full(e)
        BY <1>4, <3>1
      <4> HIDE DEF s
      <4> QED BY <1>1, <2>1, <4>1, WithinGrown
    <3> QED BY <1>1, <3>1
  <2> HIDE DEF d, s
  <2>3. Templates(n, t) = s /\ \A v \in Types : v # t => Templates(n, v) = Templates(job.doc, v)
    BY <1>1, <1>2, EditedTemplates
  <2> HIDE DEF n
  <2>4. \E u : NextCamera(n, u)
    BY <1>4
  <2> QED BY <1>1, <2>2, <2>3, <2>4, LimitedGoesOn
<1> HIDE DEF n, e
<1>5. CASE NextCamera(job.doc, FALSE) \/ \E r : Abandon(r)
  BY <1>1, <1>5, LimitedStays
<1> QED BY <1>3, <1>4, <1>5

\* and removeEmbedding makes arrays shorter.
LEMMA LimitedRemove == StoreInv /\ Limited /\ RemoveCamera => Limited'
<1> SUFFICES ASSUME StoreInv, Limited, RemoveCamera PROVE Limited'
  OBVIOUS
<1> DEFINE t == CameraType
           d == job.doc
           gone == Labelled(d.entries[t], job.label)
           s == d.entries[t] \ gone
           n == Edited(d, t, d.pending[t], s)
<1>1. job \in Jobs /\ job # Idle /\ t \in Types /\ Sound(d) /\ job.op = "REMOVE_EMBEDDING"
  BY CameraTyped DEF StoreInv, RemoveCamera, AtCamera, Ops
<1>2. \E u : NextCamera(n, u)
  <2>1. NextCamera([d EXCEPT !.entries[t] = d.entries[t] \ gone], gone # {})
    BY DEF RemoveCamera
  <2>2. [d EXCEPT !.entries[t] = d.entries[t] \ gone] = n
    BY <1>1 DEF Edited, Sound, Docs
  <2> HIDE DEF d, t, gone, n
  <2> QED BY <2>1, <2>2
<1>3. Within(Templates(d, t), t) /\ IsFiniteSet(Templates(d, t))
  BY <1>1, SizeOfTemplates DEF Limited
<1>4. Templates(n, t) \in SUBSET Templates(d, t)
  <2>1. CASE d.array[t]
    <3>1. Templates(d, t) = d.entries[t]
      BY <2>1 DEF Templates
    <3>2. Templates(n, t) = s
      <4> HIDE DEF s, t
      <4> QED BY <1>1, <2>1, EditedTemplates
    <3> QED BY <3>1, <3>2
  <2>2. CASE ~d.array[t]
    <3>1. s = d.entries[t]
      BY <1>1, <2>2 DEF Sound
    <3> HIDE DEF s, t
    <3> QED BY <1>1, <3>1, EditedTemplates
  <2> QED BY <2>1, <2>2
<1>5. \A v \in Types : v # t => Templates(n, v) = Templates(d, v)
  <2> HIDE DEF s, t
  <2> QED BY <1>1, EditedTemplates
<1> HIDE DEF n, t
<1>6. /\ Cardinality(Templates(d, t)) \in Nat /\ Cardinality(Templates(n, t)) \in Nat
      /\ Cardinality(Templates(n, t)) <= Cardinality(Templates(d, t))
  BY <1>3, <1>4, FS_Subset, FS_CardinalityType
<1>7. Within(Templates(n, t), t)
  BY <1>1, <1>3, <1>6, WithinSmaller
<1> QED BY <1>1, <1>2, <1>5, <1>7, LimitedGoesOn

\* Every step keeps the limit.
LEMMA LimitedNext == StoreInv /\ Limited /\ [Next]_vars => Limited'
<1> SUFFICES ASSUME StoreInv, Limited, [Next]_vars PROVE Limited'
  OBVIOUS
<1>1. CASE SessionStep
  <2>1. CASE job' = job
    BY <1>1, <2>1, SessionStarts DEF Limited, Within
  <2>2. CASE job'.doc = file.doc /\ file' = file
    <3>1. \A t \in Types : Cardinality(Templates(file.doc, t)) \in Nat
      BY SizeOfTemplates DEF StoreInv
    <3> QED BY <2>2, <3>1 DEF Limited, Within
  <2> QED BY <1>1, <2>1, <2>2, SessionStarts
<1>2. CASE Iteration
  BY <1>2, LimitedAdd, LimitedLabel, LimitedTrain, LimitedRemove DEF Iteration
<1>3. CASE FinishJob \/ DaemonRestarts
  BY <1>3 DEF FinishJob, DaemonRestarts, Limited
<1>4. CASE UNCHANGED vars
  BY <1>4 DEF vars, Limited, Within
<1> QED BY <1>1, <1>2, <1>3, <1>4, NextCases

\* No command but TRAIN_USER lets an array grow beyond max_embeddings, however many
\* cameras are of its type (the tests in the loops of setLabel and trainUser).
THEOREM LimitIsKept == Spec => LimitHolds
<1>1. Init => Limited
  BY DEF Init, Limited
<1>2. StoreInv /\ Limited /\ [Next]_vars =>
        [ file' # file /\ file'.state = "ok" /\ MaxEmbeddings > 0 /\ job.op # "TRAIN_USER" =>
            \A t \in Types :
              \/ Cardinality(file'.doc.entries[t]) <= MaxEmbeddings
              \/ Cardinality(file'.doc.entries[t]) <= Cardinality(Templates(file.doc, t)) ]_vars
  <2> SUFFICES ASSUME StoreInv, Limited, [Next]_vars, file' # file, file'.state = "ok",
                      MaxEmbeddings > 0, job.op # "TRAIN_USER", NEW t \in Types
               PROVE  \/ Cardinality(file'.doc.entries[t]) <= MaxEmbeddings
                      \/ Cardinality(file'.doc.entries[t]) <= Cardinality(Templates(file.doc, t))
    OBVIOUS
  <2>1. job \in Jobs /\ job # Idle /\ file'.doc = job.doc
    BY FileChanges
  <2>2. Sound(job.doc) /\ Sound(file.doc)
    BY <2>1 DEF StoreInv
  <2>3. CASE job.doc.array[t]
    BY <2>1, <2>3 DEF Limited, Within, Templates
  <2>4. CASE ~job.doc.array[t]
    <3>1. job.doc.entries[t] = {}
      BY <2>2, <2>4 DEF Sound
    <3>2. Cardinality(job.doc.entries[t]) = 0
      BY <3>1, FS_EmptySet
    <3>3. Cardinality(Templates(file.doc, t)) \in Nat
      BY <2>2, SizeOfTemplates
    <3> QED BY <2>1, <3>2, <3>3
  <2> QED BY <2>3, <2>4
<1> QED BY <1>1, <1>2, LimitedNext, StoreInvariant, PTL DEF Spec, LimitHolds
=============================================================================
