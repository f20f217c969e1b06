----------------------- MODULE NamespaceSettledProofs -----------------------
(***************************************************************************)
(* Proofs about the Namespaces that NamespaceReconciler leaves settled.     *)
(***************************************************************************)
EXTENDS NamespaceReconcilerProofs, SequenceTheorems

PassOf(n) == pass # IdlePass /\ pass.n = n

\* What namespacePred compares, and what updateSwitchAnnotations does.
SameLabel(x, y) == x.exists = y.exists /\ x.label = y.label
Recorded(x) == x.last = x.label

\* From the k-th version under way on, Namespace n has had the label it has.
Since(n, k) ==
    /\ nsObj[n].exists
    /\ \A j \in k..Len(nsWatch[n]) : SameLabel(nsWatch[n][j], nsObj[n])

\* The controller knows the label of Namespace n, and nothing under way will
\* make it believe in another.
Steady(n) == Since(n, 1) /\ SameLabel(nsCache[n], nsObj[n])

-----------------------------------------------------------------------------
\* Following.  The inductive invariant of the versions under way: they end in
\* the one on the server, a pass outlives a change of label in the cache only
\* if another pass will follow it, and no later version has forgotten a switch
\* that an earlier one recorded.

WatchEnds ==
    \A n \in Namespace :
        /\ nsWatch[n] = <<>> => nsCache[n] = nsObj[n]
        /\ nsWatch[n] # <<>> => nsWatch[n][Len(nsWatch[n])] = nsObj[n]

CopySteady ==
    \A n \in Namespace : PassOf(n) /\ n \notin queue => SameLabel(pass.copy, nsCache[n])

WatchRecorded ==
    \A n \in Namespace : \A k \in 1..Len(nsWatch[n]) :
        Since(n, k) /\ Recorded(nsWatch[n][k]) => Recorded(nsObj[n])

CacheRecorded ==
    \A n \in Namespace : Steady(n) /\ Recorded(nsCache[n]) => Recorded(nsObj[n])

CopyRecorded ==
    \A n \in Namespace :
        Steady(n) /\ n \notin queue /\ PassOf(n) /\ Recorded(pass.copy)
            => Recorded(nsObj[n])

Following == WatchEnds /\ CopySteady /\ WatchRecorded /\ CacheRecorded /\ CopyRecorded

\* A step of the pass ends it or keeps what its copy says of the class.
PassKept ==
    \/ pass' = IdlePass
    \/ /\ pass # IdlePass /\ pass' # IdlePass /\ pass'.n = pass.n
       /\ SameLabel(pass'.copy, pass.copy) /\ pass'.copy.last = pass.copy.last

\* The server has stored another version of Namespace n.
NextVersion(n) ==
    /\ nsWatch'[n] = Append(nsWatch[n], nsObj'[n])
    /\ \A m \in Namespace \ {n} : nsObj'[m] = nsObj[m] /\ nsWatch'[m] = nsWatch[m]

LEMMA VersionTypes ==
    ASSUME TypeOK, NEW n \in Namespace
    PROVE  /\ nsWatch[n] \in Seq(NamespaceVersion)
           /\ Len(nsWatch[n]) \in Nat
           /\ nsObj[n] \in NamespaceVersion
           /\ nsCache[n] \in NamespaceVersion
BY DEF TypeOK

\* A step that stores no version and delivers none.
LEMMA FollowingKept ==
    ASSUME TypeOK, Following, UNCHANGED <<nsObj, nsCache, nsWatch>>,
           queue \subseteq queue', PassKept
    PROVE  Following'
<1>1. WatchEnds' /\ WatchRecorded' /\ CacheRecorded'
  BY DEF Following, WatchEnds, WatchRecorded, CacheRecorded, Since, Steady
<1>2. CopySteady'
  BY DEF Following, CopySteady, PassOf, PassKept, SameLabel
<1>3. CopyRecorded'
  BY DEF Following, CopyRecorded, PassOf, PassKept, SameLabel, Recorded, Since, Steady
<1> QED BY <1>1, <1>2, <1>3 DEF Following

\* The label of a Namespace was what it is before a version that keeps it.
LEMMA SinceWritten ==
    ASSUME TypeOK, NEW n \in Namespace, NextVersion(n), SameLabel(nsObj'[n], nsObj[n]),
           NEW k \in 1..(Len(nsWatch[n]) + 1), Since(n, k)'
    PROVE  Since(n, k)
<1>1. nsWatch[n] \in Seq(NamespaceVersion) /\ nsWatch'[n] = Append(nsWatch[n], nsObj'[n])
  BY VersionTypes DEF NextVersion
<1>2. /\ Len(nsWatch'[n]) = Len(nsWatch[n]) + 1
      /\ \A j \in 1..Len(nsWatch[n]) : nsWatch'[n][j] = nsWatch[n][j]
  BY <1>1
<1>3. nsObj[n].exists
  BY DEF Since, SameLabel
<1>4. ASSUME NEW j \in k..Len(nsWatch[n])
      PROVE  SameLabel(nsWatch[n][j], nsObj[n])
  <2>1. j \in 1..Len(nsWatch[n]) /\ j \in k..Len(nsWatch'[n])
    BY <1>1, <1>2
  <2>2. SameLabel(nsWatch'[n][j], nsObj'[n])
    BY <2>1 DEF Since
  <2> QED BY <1>2, <2>1, <2>2 DEF SameLabel
<1> QED BY <1>3, <1>4 DEF Since

LEMMA SteadyWritten ==
    ASSUME TypeOK, NEW m \in Namespace, NextVersion(m), SameLabel(nsObj'[m], nsObj[m]),
           UNCHANGED nsCache, NEW n \in Namespace, Steady(n)'
    PROVE  Steady(n)
<1>1. CASE n # m
  BY <1>1 DEF NextVersion, Steady, Since
<1>2. CASE n = m
  <2>1. 1 \in 1..(Len(nsWatch[n]) + 1)
    BY VersionTypes
  <2>2. Since(n, 1)
    BY <1>2, <2>1, SinceWritten DEF Steady
  <2> QED BY <1>2, <2>2 DEF Steady, SameLabel
<1> QED BY <1>1, <1>2

\* After a version with another label, nothing the controller knows is current.
LEMMA SinceEdited ==
    ASSUME TypeOK, WatchEnds, NEW n \in Namespace, NextVersion(n),
           nsObj'[n].exists => ~SameLabel(nsObj'[n], nsObj[n]),
           NEW k \in 1..Len(nsWatch[n])
    PROVE  ~Since(n, k)'
<1> SUFFICES ASSUME Since(n, k)' PROVE FALSE
  OBVIOUS
<1>1. nsWatch[n] \in Seq(NamespaceVersion) /\ nsWatch'[n] = Append(nsWatch[n], nsObj'[n])
  BY VersionTypes DEF NextVersion
<1>2. /\ Len(nsWatch'[n]) = Len(nsWatch[n]) + 1
      /\ \A j \in 1..Len(nsWatch[n]) : nsWatch'[n][j] = nsWatch[n][j]
  BY <1>1
<1>3. Len(nsWatch[n]) \in k..Len(nsWatch'[n]) /\ Len(nsWatch[n]) \in 1..Len(nsWatch[n])
  BY <1>1, <1>2
<1>4. SameLabel(nsWatch'[n][Len(nsWatch[n])], nsObj'[n]) /\ nsObj'[n].exists
  BY <1>3 DEF Since
<1>5. nsWatch[n][Len(nsWatch[n])] = nsObj[n]
  BY <1>1, <1>3 DEF WatchEnds
<1> QED BY <1>2, <1>3, <1>4, <1>5 DEF SameLabel

LEMMA SteadyEdited ==
    ASSUME TypeOK, WatchEnds, NEW n \in Namespace, NextVersion(n),
           nsObj'[n].exists => ~SameLabel(nsObj'[n], nsObj[n]), UNCHANGED nsCache
    PROVE  ~Steady(n)'
<1>1. CASE nsWatch[n] = <<>>
  <2>1. nsCache'[n] = nsObj[n]
    BY <1>1 DEF WatchEnds
  <2> QED BY <2>1 DEF Steady, Since, SameLabel
<1>2. CASE nsWatch[n] # <<>>
  <2>1. 1 \in 1..Len(nsWatch[n])
    BY <1>2, VersionTypes
  <2> QED BY <2>1, SinceEdited DEF Steady
<1> QED BY <1>1, <1>2

\* A version that the controller stores keeps the label, and a recorded switch.
LEMMA FollowingWritten ==
    ASSUME TypeOK, TypeOK', Following, NEW m \in Namespace, NextVersion(m),
           SameLabel(nsObj'[m], nsObj[m]), Recorded(nsObj[m]) => Recorded(nsObj'[m]),
           UNCHANGED <<nsCache, queue>>, PassKept
    PROVE  Following'
<1> SUFFICES ASSUME NEW n \in Namespace
             PROVE  /\ nsWatch'[n] = <<>> => nsCache'[n] = nsObj'[n]
                    /\ nsWatch'[n] # <<>> => nsWatch'[n][Len(nsWatch'[n])] = nsObj'[n]
                    /\ PassOf(n)' /\ n \notin queue' => SameLabel(pass'.copy, nsCache'[n])
                    /\ \A k \in 1..Len(nsWatch'[n]) :
                          Since(n, k)' /\ Recorded(nsWatch'[n][k]) => Recorded(nsObj'[n])
                    /\ Steady(n)' /\ Recorded(nsCache'[n]) => Recorded(nsObj'[n])
                    /\ Steady(n)' /\ n \notin queue' /\ PassOf(n)' /\ Recorded(pass'.copy)
                          => Recorded(nsObj'[n])
  BY DEF Following, WatchEnds, CopySteady, WatchRecorded, CacheRecorded, CopyRecorded
<1>1. PassOf(n)' => PassOf(n) /\ SameLabel(pass'.copy, pass.copy)
                    /\ (Recorded(pass'.copy) => Recorded(pass.copy))
  BY DEF PassOf, PassKept, SameLabel, Recorded
<1>2. PassOf(n)' /\ n \notin queue' => SameLabel(pass'.copy, nsCache'[n])
  BY <1>1 DEF Following, CopySteady, SameLabel
<1>3. CASE n # m
  <2>1. nsObj'[n] = nsObj[n] /\ nsWatch'[n] = nsWatch[n] /\ nsCache'[n] = nsCache[n]
    BY <1>3 DEF NextVersion
  <2>2. \A k : Since(n, k)' <=> Since(n, k)
    BY <2>1 DEF Since
  <2>3. Steady(n)' <=> Steady(n)
    BY <2>1, <2>2 DEF Steady
  <2> QED BY <1>1, <1>2, <2>1, <2>2, <2>3
          DEF Following, WatchEnds, WatchRecorded, CacheRecorded, CopyRecorded
<1>4. CASE n = m
  <2>1. nsWatch[n] \in Seq(NamespaceVersion) /\ nsWatch'[n] = Append(nsWatch[n], nsObj'[n])
    BY <1>4, VersionTypes DEF NextVersion
  <2>2. /\ Len(nsWatch'[n]) = Len(nsWatch[n]) + 1 /\ nsWatch'[n] # <<>>
        /\ nsWatch'[n][Len(nsWatch[n]) + 1] = nsObj'[n]
        /\ \A k \in 1..Len(nsWatch[n]) : nsWatch'[n][k] = nsWatch[n][k]
    BY <2>1
  <2>3. ASSUME NEW k \in 1..(Len(nsWatch[n]) + 1), Since(n, k)'
        PROVE  Since(n, k)
    BY <1>4, <2>3, SinceWritten
  <2>4. Steady(n)' => Steady(n)
    BY SteadyWritten
  <2>5. ASSUME NEW k \in 1..Len(nsWatch'[n]), Since(n, k)', Recorded(nsWatch'[n][k])
        PROVE  Recorded(nsObj'[n])
    <3>1. CASE k = Len(nsWatch[n]) + 1
      BY <2>2, <2>5, <3>1
    <3>2. CASE k \in 1..Len(nsWatch[n])
      BY <1>4, <2>2, <2>3, <2>5, <3>2 DEF Following, WatchRecorded
    <3> QED BY <2>1, <2>2, <3>1, <3>2
  <2> QED BY <1>1, <1>2, <1>4, <2>2, <2>4, <2>5
          DEF Following, CacheRecorded, CopyRecorded
<1> QED BY <1>3, <1>4

\* A version that a user stores has another label, so nothing that the
\* controller knows is up to date.
LEMMA FollowingEdited ==
    ASSUME TypeOK, TypeOK', Following, NEW m \in Namespace, NextVersion(m),
           nsObj'[m].exists => ~SameLabel(nsObj'[m], nsObj[m]),
           UNCHANGED <<nsCache, queue, pass>>
    PROVE  Following'
<1> SUFFICES ASSUME NEW n \in Namespace
             PROVE  /\ nsWatch'[n] = <<>> => nsCache'[n] = nsObj'[n]
                    /\ nsWatch'[n] # <<>> => nsWatch'[n][Len(nsWatch'[n])] = nsObj'[n]
                    /\ PassOf(n)' /\ n \notin queue' => SameLabel(pass'.copy, nsCache'[n])
                    /\ \A k \in 1..Len(nsWatch'[n]) :
                          Since(n, k)' /\ Recorded(nsWatch'[n][k]) => Recorded(nsObj'[n])
                    /\ Steady(n)' /\ Recorded(nsCache'[n]) => Recorded(nsObj'[n])
                    /\ Steady(n)' /\ n \notin queue' /\ PassOf(n)' /\ Recorded(pass'.copy)
                          => Recorded(nsObj'[n])
  BY DEF Following, WatchEnds, CopySteady, WatchRecorded, CacheRecorded, CopyRecorded
<1>1. PassOf(n)' <=> PassOf(n)
  BY DEF PassOf
<1>2. PassOf(n)' /\ n \notin queue' => SameLabel(pass'.copy, nsCache'[n])
  BY <1>1 DEF Following, CopySteady, SameLabel
<1>3. CASE n # m
  <2>1. nsObj'[n] = nsObj[n] /\ nsWatch'[n] = nsWatch[n] /\ nsCache'[n] = nsCache[n]
    BY <1>3 DEF NextVersion
  <2>2. \A k : Since(n, k)' <=> Since(n, k)
    BY <2>1 DEF Since
  <2>3. Steady(n)' <=> Steady(n)
    BY <2>1, <2>2 DEF Steady
  <2> QED BY <1>1, <1>2, <2>1, <2>2, <2>3
          DEF Following, WatchEnds, WatchRecorded, CacheRecorded, CopyRecorded
<1>4. CASE n = m
  <2>1. nsWatch[n] \in Seq(NamespaceVersion) /\ nsWatch'[n] = Append(nsWatch[n], nsObj'[n])
    BY <1>4, VersionTypes DEF NextVersion
  <2>2. /\ Len(nsWatch'[n]) = Len(nsWatch[n]) + 1 /\ nsWatch'[n] # <<>>
        /\ nsWatch'[n][Len(nsWatch[n]) + 1] = nsObj'[n]
        /\ \A k \in 1..Len(nsWatch[n]) : nsWatch'[n][k] = nsWatch[n][k]
    BY <2>1
  <2>3. ASSUME NEW k \in 1..Len(nsWatch[n]) PROVE ~Since(n, k)'
    BY <1>4, SinceEdited DEF Following
  <2>4. ~Steady(n)'
    BY <1>4, SteadyEdited DEF Following
  <2>5. ASSUME NEW k \in 1..Len(nsWatch'[n]), Since(n, k)', Recorded(nsWatch'[n][k])
        PROVE  Recorded(nsObj'[n])
    BY <2>1, <2>2, <2>3, <2>5
  <2> QED BY <1>2, <2>2, <2>4, <2>5
<1> QED BY <1>3, <1>4

LEMMA FollowingTake ==
    ASSUME TypeOK, Following, NEW m \in Namespace, Take(m)
    PROVE  Following'
<1>1. UNCHANGED <<nsObj, nsCache, nsWatch>> /\ pass = IdlePass
  BY DEF Take, server, caches
<1>2. WatchEnds' /\ WatchRecorded' /\ CacheRecorded'
  BY <1>1 DEF Following, WatchEnds, WatchRecorded, CacheRecorded, Since, Steady
<1>3. ASSUME NEW n \in Namespace, PassOf(n)'
      PROVE  n = m /\ pass'.copy = nsCache[n]
  BY <1>3 DEF Take, StartPass, PassOf
<1>4. CopySteady'
  BY <1>1, <1>3 DEF CopySteady, SameLabel
<1>5. CopyRecorded'
  BY <1>1, <1>3 DEF Following, CacheRecorded, CopyRecorded, Since, Steady, Recorded
<1> QED BY <1>2, <1>4, <1>5 DEF Following

\* The first version under way reaches the cache.
LEMMA DeliveryFacts ==
    ASSUME TypeOK, NEW n \in Namespace, DeliverNamespace(n)
    PROVE  /\ nsWatch[n] \in Seq(NamespaceVersion) /\ nsWatch[n] # <<>>
           /\ nsCache'[n] = nsWatch[n][1]
           /\ nsWatch'[n] = Tail(nsWatch[n])
           /\ \A m \in Namespace \ {n} : nsCache'[m] = nsCache[m] /\ nsWatch'[m] = nsWatch[m]
           /\ UNCHANGED <<nsObj, pass>>
           /\ queue \subseteq queue'
           /\ ~SameLabel(nsCache[n], nsCache'[n]) => n \in queue'
<1>1. nsWatch[n] \in Seq(NamespaceVersion) /\ nsWatch[n] # <<>>
  BY DEF DeliverNamespace, TypeOK
<1>2. /\ nsCache'[n] = nsWatch[n][1]
      /\ nsWatch'[n] = Tail(nsWatch[n])
      /\ \A m \in Namespace \ {n} : nsCache'[m] = nsCache[m] /\ nsWatch'[m] = nsWatch[m]
  BY <1>1 DEF DeliverNamespace, TypeOK
<1>3. queue' = queue \cup {m \in {n} : NamespacePredicate(nsCache[n], nsWatch[n][1])}
  BY <1>1 DEF DeliverNamespace, Enqueue
<1>4. UNCHANGED <<nsObj, pass>>
  BY DEF DeliverNamespace, server
<1> QED BY <1>1, <1>2, <1>3, <1>4 DEF NamespacePredicate, SameLabel

\* What is under way after a delivery was under way or delivered.
LEMMA SinceDelivered ==
    ASSUME TypeOK, NEW n \in Namespace, DeliverNamespace(n),
           NEW k \in 1..Len(nsWatch'[n]), Since(n, k)'
    PROVE  Since(n, k + 1)
<1>1. nsWatch[n] \in Seq(NamespaceVersion) /\ nsWatch[n] # <<>>
      /\ nsWatch'[n] = Tail(nsWatch[n]) /\ nsObj' = nsObj
  BY DeliveryFacts
<1>2. Len(nsWatch[n]) \in Nat \ {0} /\ Len(nsWatch'[n]) = Len(nsWatch[n]) - 1
  BY <1>1
<1>3. ASSUME NEW j \in (k + 1)..Len(nsWatch[n])
      PROVE  SameLabel(nsWatch[n][j], nsObj[n])
  <2>1. /\ j - 1 \in 1..Len(nsWatch'[n]) /\ nsWatch'[n][j - 1] = nsWatch[n][j]
        /\ j - 1 \in k..Len(nsWatch'[n])
    BY <1>1, <1>2
  <2> QED BY <1>1, <2>1 DEF Since
<1> QED BY <1>1, <1>3 DEF Since

LEMMA SteadyDelivered ==
    ASSUME TypeOK, NEW m \in Namespace, DeliverNamespace(m),
           NEW n \in Namespace, Steady(n)'
    PROVE  Since(n, 1) /\ (n \notin queue' => Steady(n))
<1>1. CASE n # m
  <2>1. nsObj' = nsObj /\ nsWatch'[n] = nsWatch[n] /\ nsCache'[n] = nsCache[n]
    BY <1>1, DeliveryFacts
  <2> QED BY <2>1 DEF Steady, Since
<1>2. CASE n = m
  <2>1. /\ nsWatch[n] \in Seq(NamespaceVersion) /\ nsWatch[n] # <<>>
        /\ nsCache'[n] = nsWatch[n][1] /\ nsWatch'[n] = Tail(nsWatch[n])
        /\ nsObj' = nsObj
        /\ ~SameLabel(nsCache[n], nsCache'[n]) => n \in queue'
    BY <1>2, DeliveryFacts
  <2>2. SameLabel(nsWatch[n][1], nsObj[n]) /\ nsObj[n].exists
    BY <2>1 DEF Steady, Since
  <2>3. ASSUME NEW j \in 1..Len(nsWatch[n])
        PROVE  SameLabel(nsWatch[n][j], nsObj[n])
    <3>1. CASE j = 1
      BY <2>2, <3>1
    <3>2. CASE j # 1
      <4>1. j - 1 \in 1..Len(nsWatch'[n]) /\ nsWatch'[n][j - 1] = nsWatch[n][j]
        BY <2>1, <3>2
      <4> QED BY <2>1, <4>1 DEF Steady, Since
    <3> QED BY <3>1, <3>2
  <2>4. Since(n, 1)
    BY <2>2, <2>3 DEF Since
  <2> QED BY <2>1, <2>2, <2>4 DEF Steady, SameLabel
<1> QED BY <1>1, <1>2

LEMMA FollowingDelivered ==
    ASSUME TypeOK, Following, NEW m \in Namespace, DeliverNamespace(m)
    PROVE  Following'
<1> SUFFICES ASSUME NEW n \in Namespace
             PROVE  /\ nsWatch'[n] = <<>> => nsCache'[n] = nsObj'[n]
                    /\ nsWatch'[n] # <<>> => nsWatch'[n][Len(nsWatch'[n])] = nsObj'[n]
                    /\ PassOf(n)' /\ n \notin queue' => SameLabel(pass'.copy, nsCache'[n])
                    /\ \A k \in 1..Len(nsWatch'[n]) :
                          Since(n, k)' /\ Recorded(nsWatch'[n][k]) => Recorded(nsObj'[n])
                    /\ Steady(n)' /\ Recorded(nsCache'[n]) => Recorded(nsObj'[n])
                    /\ Steady(n)' /\ n \notin queue' /\ PassOf(n)' /\ Recorded(pass'.copy)
                          => Recorded(nsObj'[n])
  BY DEF Following, WatchEnds, CopySteady, WatchRecorded, CacheRecorded, CopyRecorded
<1>1. PassOf(n)' <=> PassOf(n)
  BY DeliveryFacts DEF PassOf
<1>2. nsObj' = nsObj /\ pass' = pass /\ queue \subseteq queue'
  BY DeliveryFacts
<1>3. CASE n # m
  <2>1. nsWatch'[n] = nsWatch[n] /\ nsCache'[n] = nsCache[n]
    BY <1>3, DeliveryFacts
  <2>2. \A k : Since(n, k)' <=> Since(n, k)
    BY <1>2, <2>1 DEF Since
  <2>3. Steady(n)' <=> Steady(n)
    BY <2>1, <1>2, <2>2 DEF Steady
  <2> QED BY <1>1, <1>2, <2>1, <2>2, <2>3
      DEF Following, WatchEnds, CopySteady, WatchRecorded, CacheRecorded, CopyRecorded
<1>4. CASE n = m
  <2>1. /\ nsWatch[n] \in Seq(NamespaceVersion) /\ nsWatch[n] # <<>>
        /\ nsCache'[n] = nsWatch[n][1] /\ nsWatch'[n] = Tail(nsWatch[n])
        /\ ~SameLabel(nsCache[n], nsCache'[n]) => n \in queue'
    BY <1>4, DeliveryFacts
  <2>2. /\ Len(nsWatch[n]) \in Nat \ {0}
        /\ Len(nsWatch'[n]) = Len(nsWatch[n]) - 1
        /\ \A k \in 1..Len(nsWatch'[n]) : nsWatch'[n][k] = nsWatch[n][k + 1]
    BY <2>1
  <2>3. nsWatch[n][Len(nsWatch[n])] = nsObj[n]
    BY <2>1 DEF Following, WatchEnds
  <2>4. nsWatch'[n] = <<>> => nsCache'[n] = nsObj'[n]
    <3>1. nsWatch'[n] = <<>> => Len(nsWatch'[n]) = 0
      OBVIOUS
    <3>2. Len(nsWatch[n]) - 1 = 0 => Len(nsWatch[n]) = 1
      BY <2>2
    <3> QED BY <1>2, <2>1, <2>2, <2>3, <3>1, <3>2
  <2>5. nsWatch'[n] # <<>> => nsWatch'[n][Len(nsWatch'[n])] = nsObj'[n]
    BY <1>2, <2>1, <2>2, <2>3
  <2>6. ASSUME NEW k \in 1..Len(nsWatch'[n]), Since(n, k)', Recorded(nsWatch'[n][k])
        PROVE  Recorded(nsObj'[n])
    <3>1. Since(n, k + 1) /\ k + 1 \in 1..Len(nsWatch[n])
      BY <1>4, <2>2, <2>6, SinceDelivered
    <3> QED BY <1>2, <2>2, <2>6, <3>1 DEF Following, WatchRecorded
  <2>7. Steady(n)' => Since(n, 1) /\ (n \notin queue' => Steady(n))
    BY SteadyDelivered
  <2>8. Steady(n)' /\ Recorded(nsCache'[n]) => Recorded(nsObj'[n])
    BY <1>2, <2>1, <2>2, <2>7 DEF Following, WatchRecorded
  <2>9. PassOf(n)' /\ n \notin queue' => SameLabel(pass'.copy, nsCache'[n])
    BY <1>1, <1>2, <2>1 DEF Following, CopySteady, SameLabel
  <2> QED BY <1>1, <1>2, <2>4, <2>5, <2>6, <2>7, <2>8, <2>9
          DEF Following, CopyRecorded
<1> QED BY <1>3, <1>4

LEMMA FollowingRestart ==
    ASSUME TypeOK, Restart
    PROVE  Following'
<1>1. /\ \A n \in Namespace : nsCache'[n] = nsObj'[n] /\ nsWatch'[n] = <<>>
      /\ pass' = IdlePass
  BY DEF Restart, server
<1> QED BY <1>1 DEF Following, WatchEnds, CopySteady, WatchRecorded, CacheRecorded,
           CopyRecorded, PassOf

LEMMA FollowingInit == Init => Following
<1>1. Init => \A n \in Namespace : nsCache[n] = nsObj[n] /\ nsWatch[n] = <<>>
  BY DEF Init
<1> QED BY <1>1 DEF Init, Following, WatchEnds, CopySteady, WatchRecorded,
           CacheRecorded, CopyRecorded, PassOf

-----------------------------------------------------------------------------
\* The steps of a pass.

PassStep ==
    \/ Reconcile
    \/ ApiFails
    \/ ConditionFails
    \/ \E r \in Ref : SkipUnmappedResource(r)

LEMMA PassStepIsBusy ==
    ASSUME TypeOK, PassStep
    PROVE  pass \in BusyPass /\ pass # IdlePass /\ pass.n \in Namespace
<1>1. pass.pc \in Steps
  BY DEF PassStep, Reconcile, GetNamespaceClassSpec, HasTemplateDrift, ClearHold, StartHold,
     KeepOrEndHold, SetClassAutoHealHeldCondition, ApplyClassResource, ReadInventory,
     DeleteRemovedResource, WriteInventory, UpdateSwitchAnnotations,
     UpdateSwitchAnnotationsHeld, ApiFails, CallPending, ConditionFails,
     SkipUnmappedResource, Steps
<1> QED BY <1>1, StepIsBusy DEF BusyPass

LEMMA PassStepOutside ==
    ASSUME PassStep
    PROVE  UNCHANGED <<class, nsCache, invCache, classEvents, queue, edits>>
BY DEF PassStep, Reconcile, GetNamespaceClassSpec, HasTemplateDrift, ClearHold, StartHold,
   KeepOrEndHold, SetClassAutoHealHeldCondition, ApplyClassResource, ReadInventory,
   DeleteRemovedResource, WriteInventory, UpdateSwitchAnnotations,
   UpdateSwitchAnnotationsHeld, ApiFails, ConditionFails, SkipUnmappedResource,
   server, caches, events, bounds

\* The class part of a version survives the bookkeeping of holds.
LEMMA HoldClearedClass ==
    ASSUME NEW x \in NamespaceVersion
    PROVE  SameLabel(HoldCleared(x), x) /\ HoldCleared(x).last = x.last
BY DEF HoldCleared, NamespaceVersion, SameLabel

LEMMA StoredClass ==
    ASSUME NEW x \in NamespaceVersion
    PROVE  SameLabel(Stored(x), x) /\ Stored(x).last = x.last
BY DEF Stored, NamespaceVersion, SameLabel

LEMMA PassStepKept ==
    ASSUME TypeOK, PassStep
    PROVE  PassKept
<1>1. pass \in BusyPass /\ pass # IdlePass /\ pass.copy \in NamespaceVersion
  BY PassStepIsBusy DEF BusyPass
<1>2. ASSUME pass' \in BusyPass, pass'.n = pass.n, pass'.copy = pass.copy
      PROVE  PassKept
  BY <1>1, <1>2 DEF PassKept, BusyPass, IdlePass, Steps, SameLabel
<1>3. ASSUME pass' = IdlePass PROVE PassKept
  BY <1>3 DEF PassKept
<1>4. TypeOK'
  BY TypeReconcile, TypeFailure DEF PassStep, Failure
<1>5. pass' # IdlePass => pass' \in BusyPass
  BY <1>4 DEF TypeOK
<1>6. CASE GetNamespaceClassSpec
  <2>1. CASE \/ pass' = [pass EXCEPT !.pc = "apply"]
             \/ pass' = [pass EXCEPT !.spec = class[pass.copy.label], !.pc = "drift"]
    BY <1>1, <1>2, <1>3, <1>5, <2>1 DEF BusyPass
  <2>2. CASE pass' = [pass EXCEPT !.spec = class[pass.copy.label],
                                  !.copy = HoldCleared(@), !.pc = "heldFalse"]
    <3>1. pass'.n = pass.n /\ pass'.copy = HoldCleared(pass.copy)
      BY <1>1, <2>2 DEF BusyPass
    <3> QED BY <1>1, <1>3, <3>1, HoldClearedClass DEF PassKept
  <2> QED BY <1>6, <2>1, <2>2 DEF GetNamespaceClassSpec, Goto
<1>7. CASE HasTemplateDrift \/ KeepOrEndHold \/ SetClassAutoHealHeldCondition
           \/ ReadInventory \/ ConditionFails
  BY <1>1, <1>2, <1>3, <1>5, <1>7 DEF HasTemplateDrift, KeepOrEndHold, Goto,
     SetClassAutoHealHeldCondition, ReadInventory, ConditionFails, BusyPass
<1>8. CASE ApplyClassResource \/ WriteInventory \/ ApiFails
  BY <1>1, <1>2, <1>3, <1>5, <1>8 DEF ApplyClassResource, WriteInventory, ApiFails,
     Requeue, Goto, BusyPass
<1>9. CASE \E r \in Ref : DeleteRemovedResource(r) \/ SkipUnmappedResource(r)
  BY <1>1, <1>2, <1>3, <1>5, <1>9 DEF DeleteRemovedResource, SkipUnmappedResource, BusyPass
<1>10. CASE ClearHold
  <2> DEFINE x == HoldCleared(pass.copy)
  <2>1. x \in NamespaceVersion /\ SameLabel(x, pass.copy) /\ x.last = pass.copy.last
    BY <1>1, TypeHoldCleared, HoldClearedClass
  <2>2. \/ pass' = IdlePass
        \/ pass' = [pass EXCEPT !.copy = Stored(x), !.i = 1, !.pc = "heldFalse"]
    BY <1>10 DEF ClearHold, UpdateNs, Requeue
  <2> HIDE DEF x
  <2>3. pass' # IdlePass => pass'.n = pass.n /\ pass'.copy = Stored(x)
    BY <1>1, <2>2 DEF BusyPass
  <2> QED BY <1>1, <2>1, <2>3, StoredClass DEF PassKept, SameLabel
<1>11. CASE StartHold
  <2> DEFINE x == [pass.copy EXCEPT !.until = pass.copy.rv + 1, !.used = TRUE]
  <2>1. x \in NamespaceVersion /\ SameLabel(x, pass.copy) /\ x.last = pass.copy.last
    <3>1. pass.copy.rv + 1 \in Nat
      BY <1>1 DEF NamespaceVersion
    <3> QED BY <1>1, <3>1 DEF NamespaceVersion, SameLabel
  <2>2. \/ pass' = IdlePass
        \/ pass' = [pass EXCEPT !.copy = Stored(x), !.pc = "heldTrue"]
    BY <1>11 DEF StartHold, UpdateNs, Requeue
  <2> HIDE DEF x
  <2>3. pass' # IdlePass => pass'.n = pass.n /\ pass'.copy = Stored(x)
    BY <1>1, <2>2 DEF BusyPass
  <2> QED BY <1>1, <2>1, <2>3, StoredClass DEF PassKept, SameLabel
<1>12. CASE UpdateSwitchAnnotations \/ UpdateSwitchAnnotationsHeld
  BY <1>3, <1>12 DEF UpdateSwitchAnnotations, UpdateSwitchAnnotationsHeld, UpdateNs,
     RequeueAfter, Requeue
<1> QED BY <1>6, <1>7, <1>8, <1>9, <1>10, <1>11, <1>12 DEF PassStep, Reconcile

\* The version that a pass stores, if any, carries the label that was there.
LEMMA PassStores ==
    ASSUME TypeOK, Versions, NEW x \in NamespaceVersion, pass # IdlePass, StoreNs(x),
           Fresh(x), x.rv = pass.copy.rv, SameLabel(x, pass.copy),
           x.last = pass.copy.last \/ Recorded(x)
    PROVE  \/ UNCHANGED <<nsObj, nsWatch>>
           \/ /\ NextVersion(pass.n)
              /\ SameLabel(nsObj'[pass.n], nsObj[pass.n])
              /\ Recorded(nsObj[pass.n]) => Recorded(nsObj'[pass.n])
<1>1. pass.n \in Namespace
  BY PassIsBusy DEF BusyPass
<1>2. Fresh(pass.copy)
  BY DEF Fresh
<1>3. pass.copy.label = nsObj[pass.n].label /\ pass.copy.last = nsObj[pass.n].last
  BY <1>2, CopyFacts
<1>4. pass.copy = nsObj[pass.n] \/ pass.copy = HoldCleared(nsObj[pass.n])
  BY <1>2 DEF Versions, CopyVersion, Fresh
<1>5. pass.copy.exists = nsObj[pass.n].exists
  BY <1>1, <1>4, VersionTypes, HoldClearedClass DEF SameLabel
<1>6. CASE x # nsObj[pass.n]
  <2>1. NsWrite(pass.n, x)
    BY <1>6 DEF StoreNs
  <2>2. NextVersion(pass.n)
    BY <1>1, <2>1, NsWriteFacts DEF NextVersion
  <2>3. /\ nsObj'[pass.n].label = x.label /\ nsObj'[pass.n].last = x.last
        /\ nsObj'[pass.n].exists = x.exists
    BY <1>1, <2>1, NsWriteFacts
  <2> QED BY <1>3, <1>5, <2>2, <2>3 DEF SameLabel, Recorded
<1>7. CASE x = nsObj[pass.n]
  BY <1>7 DEF StoreNs
<1> QED BY <1>6, <1>7

LEMMA PassStepWrites ==
    ASSUME TypeOK, Versions, PassStep
    PROVE  \/ UNCHANGED <<nsObj, nsWatch>>
           \/ /\ NextVersion(pass.n)
              /\ SameLabel(nsObj'[pass.n], nsObj[pass.n])
              /\ Recorded(nsObj[pass.n]) => Recorded(nsObj'[pass.n])
<1>1. pass \in BusyPass /\ pass # IdlePass /\ pass.copy \in NamespaceVersion
  BY PassStepIsBusy DEF BusyPass
<1>2. CASE ClearHold
  <2> DEFINE x == HoldCleared(pass.copy)
  <2>1. /\ x \in NamespaceVersion /\ SameLabel(x, pass.copy) /\ x.last = pass.copy.last
        /\ x.rv = pass.copy.rv
    BY <1>1, TypeHoldCleared, HoldClearedClass DEF HoldCleared, NamespaceVersion
  <2>2. UNCHANGED <<nsObj, nsWatch>> \/ (Fresh(x) /\ StoreNs(x))
    BY <1>2 DEF ClearHold, UpdateNs
  <2> HIDE DEF x
  <2> QED BY <1>1, <2>1, <2>2, PassStores
<1>3. CASE StartHold
  <2> DEFINE x == [pass.copy EXCEPT !.until = pass.copy.rv + 1, !.used = TRUE]
  <2>1. /\ x \in NamespaceVersion /\ SameLabel(x, pass.copy) /\ x.last = pass.copy.last
        /\ x.rv = pass.copy.rv
    <3>1. pass.copy.rv + 1 \in Nat
      BY <1>1 DEF NamespaceVersion
    <3> QED BY <1>1, <3>1 DEF NamespaceVersion, SameLabel
  <2>2. UNCHANGED <<nsObj, nsWatch>> \/ (Fresh(x) /\ StoreNs(x))
    BY <1>3 DEF StartHold, UpdateNs
  <2> HIDE DEF x
  <2> QED BY <1>1, <2>1, <2>2, PassStores
<1>4. CASE UpdateSwitchAnnotations \/ UpdateSwitchAnnotationsHeld
  <2> DEFINE x == Switched(pass.copy)
  <2>1. /\ x \in NamespaceVersion /\ SameLabel(x, pass.copy) /\ Recorded(x)
        /\ x.rv = pass.copy.rv
    BY <1>1, TypeSwitched DEF Switched, NamespaceVersion, SameLabel, Recorded
  <2>2. UNCHANGED <<nsObj, nsWatch>> \/ (Fresh(x) /\ StoreNs(x))
    <3>1. Fresh(x) <=> Fresh(pass.copy)
      BY <2>1 DEF Fresh
    <3> QED BY <1>4, <3>1 DEF UpdateSwitchAnnotations, UpdateSwitchAnnotationsHeld, UpdateNs
  <2> HIDE DEF x
  <2> QED BY <1>1, <2>1, <2>2, PassStores
<1>5. CASE ~(ClearHold \/ StartHold \/ UpdateSwitchAnnotations \/ UpdateSwitchAnnotationsHeld)
  BY <1>5 DEF PassStep, Reconcile, GetNamespaceClassSpec, HasTemplateDrift, KeepOrEndHold,
     SetClassAutoHealHeldCondition, ApplyClassResource, ReadInventory,
     DeleteRemovedResource, WriteInventory, ApiFails, ConditionFails,
     SkipUnmappedResource, server, caches
<1> QED BY <1>2, <1>3, <1>4, <1>5

-----------------------------------------------------------------------------
\* The other steps, and the proof of Following.

LEMMA UsersOutside ==
    ASSUME Users
    PROVE  UNCHANGED <<nsCache, invCache, queue, delayed, pass>>
BY DEF Users, Relabel, CreateNamespace, RollBackSwitch, DeleteNamespace, EditClass,
   DriftObject, caches

\* A version that a user stores has another label than the one before.
LEMMA UsersStore ==
    ASSUME TypeOK, Users
    PROVE  \/ UNCHANGED <<nsObj, nsWatch>>
           \/ \E m \in Namespace :
                 /\ NextVersion(m)
                 /\ nsObj'[m].exists => ~SameLabel(nsObj'[m], nsObj[m])
<1>1. ASSUME NEW m \in Namespace, NEW x \in NamespaceVersion, NsWrite(m, x),
             x.exists => ~SameLabel(x, nsObj[m])
      PROVE  NextVersion(m) /\ (nsObj'[m].exists => ~SameLabel(nsObj'[m], nsObj[m]))
  BY <1>1, NsWriteFacts DEF NextVersion, SameLabel
<1>2. ASSUME NEW m \in Namespace, NEW l \in MaybeClass, Relabel(m, l)
      PROVE  \E x \in NamespaceVersion :
                NsWrite(m, x) /\ (x.exists => ~SameLabel(x, nsObj[m]))
  <2> DEFINE x == [nsObj[m] EXCEPT !.label = l]
  <2>1. x \in NamespaceVersion /\ x.label = l
    BY VersionTypes DEF NamespaceVersion
  <2>2. NsWrite(m, x) /\ nsObj[m].label # l
    BY <1>2 DEF Relabel
  <2> HIDE DEF x
  <2> QED BY <2>1, <2>2 DEF SameLabel
<1>3. ASSUME NEW m \in Namespace, NEW l \in MaybeClass, CreateNamespace(m, l)
      PROVE  \E x \in NamespaceVersion :
                NsWrite(m, x) /\ (x.exists => ~SameLabel(x, nsObj[m]))
  <2> DEFINE x == NewNamespace(l, nsObj[m].rv)
  <2>1. x \in NamespaceVersion /\ x.exists = TRUE
    BY DEF TypeOK, NamespaceVersion, NewNamespace, MaybeClass
  <2>2. NsWrite(m, x) /\ ~nsObj[m].exists
    BY <1>3 DEF CreateNamespace
  <2> HIDE DEF x
  <2> QED BY <2>1, <2>2 DEF SameLabel
<1>4. ASSUME NEW m \in Namespace, RollBackSwitch(m)
      PROVE  \E x \in NamespaceVersion :
                NsWrite(m, x) /\ (x.exists => ~SameLabel(x, nsObj[m]))
  <2> DEFINE x == [nsObj[m] EXCEPT !.label = nsObj[m].prev, !.last = nsObj[m].prev,
                                   !.prev = NoClass]
  <2>1. x \in NamespaceVersion /\ x.label = nsObj[m].prev
    BY VersionTypes DEF NamespaceVersion, MaybeClass
  <2>2. NsWrite(m, x) /\ nsObj[m].prev # nsObj[m].label
    BY <1>4 DEF RollBackSwitch
  <2> HIDE DEF x
  <2> QED BY <2>1, <2>2 DEF SameLabel
<1>5. ASSUME NEW m \in Namespace, DeleteNamespace(m)
      PROVE  \E x \in NamespaceVersion :
                NsWrite(m, x) /\ (x.exists => ~SameLabel(x, nsObj[m]))
  <2> DEFINE x == NoNamespace(nsObj[m].rv)
  <2>1. x \in NamespaceVersion /\ x.exists = FALSE
    BY DEF TypeOK, NamespaceVersion, NoNamespace, NewNamespace, MaybeClass
  <2>2. NsWrite(m, x)
    BY <1>5 DEF DeleteNamespace
  <2> HIDE DEF x
  <2> QED BY <2>1, <2>2
<1>6. CASE \/ \E c \in Class, x \in ClassContents \cup {Absent} : EditClass(c, x)
           \/ \E p \in Place, v \in {Absent, Tampered} : DriftObject(p, v)
  BY <1>6 DEF EditClass, DriftObject, caches
<1> QED BY <1>1, <1>2, <1>3, <1>4, <1>5, <1>6 DEF Users

LEMMA FollowingStep == TypeOK /\ Versions /\ Following /\ [Next]_vars => Following'
<1> SUFFICES ASSUME TypeOK, Versions, Following, [Next]_vars PROVE Following'
  OBVIOUS
<1>1. TypeOK'
  BY TypeStep
<1>2. ASSUME UNCHANGED <<nsObj, nsCache, nsWatch, pass>>, queue \subseteq queue'
      PROVE  Following'
  <2>1. PassKept
    BY <1>2 DEF PassKept, SameLabel
  <2> QED BY <1>2, <2>1, FollowingKept
<1>3. CASE UNCHANGED vars
  BY <1>2, <1>3 DEF vars
<1>4. CASE \E n \in Namespace : Take(n)
  BY <1>4, FollowingTake
<1>5. CASE PassStep
  <2>1. UNCHANGED <<nsCache, queue>> /\ PassKept /\ pass.n \in Namespace
    BY <1>5, PassStepIsBusy, PassStepOutside, PassStepKept
  <2> QED BY <1>1, <1>5, <2>1, PassStepWrites, FollowingKept, FollowingWritten
<1>6. CASE Restart
  BY <1>6, FollowingRestart
<1>7. CASE Deliver
  <2>1. CASE \E n \in Namespace : DeliverNamespace(n)
    BY <2>1, FollowingDelivered
  <2>2. CASE ~(\E n \in Namespace : DeliverNamespace(n))
    BY <1>2, <1>7, <2>2 DEF Deliver, DeliverInventory, DeliverChild, RetryFires, Resync,
       WindowElapses, DeliverClass, Enqueue, server, caches
  <2> QED BY <2>1, <2>2
<1>8. CASE Users
  <2>1. UNCHANGED <<nsCache, queue, pass>>
    BY <1>8, UsersOutside
  <2> QED BY <1>1, <1>2, <1>8, <2>1, UsersStore, FollowingEdited
<1> QED BY <1>3, <1>4, <1>5, <1>6, <1>7, <1>8 DEF Next, Controller, Failure, PassStep

\* Once a version with the label of the Namespace records its switch, so does
\* every later one: a pass that finds nothing to record in its stale copy does
\* not leave a switch unrecorded (the early return of updateSwitchAnnotations).
THEOREM FollowingCorrect == Spec => []Following
BY FollowingInit, FollowingStep, TypeCorrect, VersionsCorrect, PTL DEF Spec

-----------------------------------------------------------------------------
\* The shape of a pass: what it has applied so far is what its index says.

RefsOf(res, i) == {RefOf[res[k]] : k \in 1..(i - 1)}

PassShape ==
    pass # IdlePass =>
        /\ pass.pc = "getClass" => pass.spec = NoContents
        /\ pass.pc \in {"getClass", "hold", "heldFalse"} => pass.i = 1
        /\ pass.pc \notin {"apply", "delete", "switch"} => pass.refs = {}
        /\ pass.pc \in {"apply", "delete", "switch"} =>
              /\ pass.i <= Len(pass.spec.res) + 1
              /\ pass.refs = RefsOf(pass.spec.res, pass.i)
        /\ pass.pc \in {"delete", "switch"} => pass.i = Len(pass.spec.res) + 1

LEMMA NoneApplied == \A res : RefsOf(res, 1) = {}
BY DEF RefsOf

LEMMA OneMoreApplied ==
    ASSUME NEW res, NEW i \in Nat \ {0}
    PROVE  RefsOf(res, i + 1) = RefsOf(res, i) \cup {RefOf[res[i]]}
<1>1. 1..((i + 1) - 1) = (1..(i - 1)) \cup {i}
  OBVIOUS
<1> QED BY <1>1 DEF RefsOf

LEMMA SpecType ==
    ASSUME pass \in BusyPass
    PROVE  pass.spec.res \in Seq(Template) /\ Len(pass.spec.res) \in Nat
<1>1. NoContents.res \in Seq(Template)
  BY DEF NoContents
<1>2. pass.spec \in ClassContents => pass.spec.res \in Seq(Template)
  BY ContentsAssumption
<1> QED BY <1>1, <1>2 DEF BusyPass

LEMMA ShapeTake ==
    ASSUME PassShape, NEW n \in Namespace, Take(n)
    PROVE  PassShape'
<1>1. pass' = IdlePass \/ pass' = StartPass(n, nsCache[n])
  BY DEF Take
<1>2. CASE pass' = StartPass(n, nsCache[n])
  <2>1. /\ pass'.pc \in {"apply", "getClass"}
        /\ pass'.spec = NoContents /\ pass'.i = 1 /\ pass'.refs = {}
    BY <1>2 DEF StartPass
  <2>2. Len(NoContents.res) = 0
    BY DEF NoContents
  <2> QED BY <2>1, <2>2, NoneApplied DEF PassShape
<1> QED BY <1>1, <1>2 DEF PassShape

LEMMA ShapeGetNamespaceClassSpec ==
    ASSUME TypeOK, PassShape, GetNamespaceClassSpec
    PROVE  PassShape'
<1>1. pass \in BusyPass /\ pass # IdlePass /\ pass.pc = "getClass"
  BY StepIsBusy DEF GetNamespaceClassSpec, Steps
<1>2. pass.i = 1 /\ pass.refs = {} /\ pass.spec = NoContents
  BY <1>1 DEF PassShape
<1>3. CASE pass' = [pass EXCEPT !.pc = "apply"]
  <2>1. pass'.pc = "apply" /\ pass'.i = 1 /\ pass'.refs = {} /\ pass'.spec = NoContents
    BY <1>1, <1>2, <1>3 DEF BusyPass
  <2>2. Len(NoContents.res) = 0
    BY DEF NoContents
  <2> QED BY <2>1, <2>2, NoneApplied DEF PassShape
<1>4. CASE \/ pass' = [pass EXCEPT !.spec = class[pass.copy.label], !.pc = "drift"]
           \/ pass' = [pass EXCEPT !.spec = class[pass.copy.label],
                                   !.copy = HoldCleared(@), !.pc = "heldFalse"]
  <2>1. pass'.pc \in {"drift", "heldFalse"} /\ pass'.i = 1 /\ pass'.refs = {}
    BY <1>1, <1>2, <1>4 DEF BusyPass
  <2> QED BY <2>1 DEF PassShape
<1> QED BY <1>3, <1>4 DEF GetNamespaceClassSpec, Goto

\* The steps before a pass applies anything.
LEMMA ShapeDrift ==
    ASSUME TypeOK, PassShape, HasTemplateDrift \/ ClearHold \/ StartHold \/ KeepOrEndHold
    PROVE  PassShape'
<1>1. pass \in BusyPass /\ pass # IdlePass
  BY StepIsBusy DEF HasTemplateDrift, ClearHold, StartHold, KeepOrEndHold, Steps
<1>2. pass.pc = "hold" => pass.i = 1
  BY <1>1 DEF PassShape
<1>3. pass.refs = {}
  BY <1>1 DEF PassShape, HasTemplateDrift, ClearHold, StartHold, KeepOrEndHold
<1>4. \/ pass' = IdlePass
      \/ /\ pass'.pc \in {"drift", "hold", "heldTrue", "heldFalse"}
         /\ pass'.refs = pass.refs
         /\ pass'.pc \in {"hold", "heldFalse"} => pass'.i = 1
  <2>1. CASE HasTemplateDrift
    BY <1>1, <2>1 DEF HasTemplateDrift, BusyPass
  <2>2. CASE ClearHold
    BY <1>1, <2>2 DEF ClearHold, UpdateNs, Requeue, BusyPass
  <2>3. CASE StartHold
    BY <1>1, <2>3 DEF StartHold, UpdateNs, Requeue, BusyPass
  <2>4. CASE KeepOrEndHold
    BY <1>1, <1>2, <2>4 DEF KeepOrEndHold, Goto, BusyPass
  <2> QED BY <2>1, <2>2, <2>3, <2>4
<1> QED BY <1>3, <1>4 DEF PassShape

LEMMA ShapeHeld ==
    ASSUME TypeOK, PassShape, SetClassAutoHealHeldCondition \/ ConditionFails
    PROVE  PassShape'
<1>1. pass \in BusyPass /\ pass # IdlePass /\ pass.pc \in {"heldTrue", "heldFalse"}
  BY StepIsBusy DEF SetClassAutoHealHeldCondition, ConditionFails, Steps
<1>2. pass.refs = {} /\ (pass.pc = "heldFalse" => pass.i = 1)
  BY <1>1 DEF PassShape
<1>3. /\ pass'.refs = pass.refs /\ pass'.i = pass.i /\ pass'.spec = pass.spec
      /\ \/ pass'.pc = "switchHeld"
         \/ pass.pc = "heldFalse" /\ pass'.pc = "apply"
  BY <1>1 DEF SetClassAutoHealHeldCondition, ConditionFails, Goto, BusyPass
<1> QED BY <1>1, <1>2, <1>3, SpecType, NoneApplied DEF PassShape

LEMMA ShapeApply ==
    ASSUME TypeOK, PassShape, ApplyClassResource \/ ReadInventory
    PROVE  PassShape'
<1>1. pass \in BusyPass /\ pass # IdlePass /\ pass.pc = "apply"
  BY StepIsBusy DEF ApplyClassResource, ReadInventory, Steps
<1>2. /\ pass.i \in Nat \ {0} /\ Len(pass.spec.res) \in Nat
      /\ pass.i <= Len(pass.spec.res) + 1
      /\ pass.refs = RefsOf(pass.spec.res, pass.i)
  BY <1>1, SpecType DEF PassShape, BusyPass
<1>3. CASE ApplyClassResource /\ pass' # IdlePass
  <2>1. /\ pass' = [pass EXCEPT !.refs = @ \cup {RefOf[ThisTemplate]}, !.i = @ + 1]
        /\ pass.i <= Len(pass.spec.res)
    BY <1>2, <1>3 DEF ApplyClassResource, Requeue, AllDone
  <2>2. /\ pass'.pc = "apply" /\ pass'.spec = pass.spec /\ pass'.i = pass.i + 1
        /\ pass'.refs = pass.refs \cup {RefOf[pass.spec.res[pass.i]]}
    BY <1>1, <2>1 DEF ThisTemplate, BusyPass
  <2> QED BY <1>2, <2>1, <2>2, OneMoreApplied DEF PassShape
<1>4. CASE ReadInventory
  <2>1. /\ pass'.pc = "delete" /\ pass'.spec = pass.spec /\ pass'.i = pass.i
        /\ pass'.refs = pass.refs
    BY <1>1, <1>4 DEF ReadInventory, BusyPass
  <2>2. pass.i = Len(pass.spec.res) + 1
    BY <1>2, <1>4 DEF ReadInventory, AllDone
  <2> QED BY <1>2, <2>1, <2>2 DEF PassShape
<1> QED BY <1>3, <1>4 DEF PassShape

LEMMA ShapeDelete ==
    ASSUME TypeOK, PassShape,
           \/ \E r \in Ref : DeleteRemovedResource(r) \/ SkipUnmappedResource(r)
           \/ WriteInventory
    PROVE  PassShape'
<1>1. pass \in BusyPass /\ pass # IdlePass /\ pass.pc = "delete"
  BY StepIsBusy DEF DeleteRemovedResource, SkipUnmappedResource, WriteInventory, Steps
<1>2. \/ pass' = IdlePass
      \/ /\ pass'.pc \in {"delete", "switch"} /\ pass'.spec = pass.spec
         /\ pass'.i = pass.i /\ pass'.refs = pass.refs
  BY <1>1 DEF DeleteRemovedResource, SkipUnmappedResource, WriteInventory, Requeue, Goto,
     BusyPass
<1> QED BY <1>1, <1>2 DEF PassShape

LEMMA ShapeEnds ==
    ASSUME \/ UpdateSwitchAnnotations \/ UpdateSwitchAnnotationsHeld
           \/ ApiFails \/ Restart
    PROVE  PassShape'
BY DEF PassShape, UpdateSwitchAnnotations, UpdateSwitchAnnotationsHeld, UpdateNs,
   RequeueAfter, Requeue, ApiFails, Restart

LEMMA DeliverOutside ==
    ASSUME Deliver
    PROVE  UNCHANGED <<class, heldCond, nsObj, obj, inv, pass, edits>>
BY DEF Deliver, DeliverNamespace, DeliverInventory, DeliverChild, RetryFires, Resync,
   WindowElapses, DeliverClass, server, bounds

LEMMA ShapeStep == TypeOK /\ PassShape /\ [Next]_vars => PassShape'
<1> SUFFICES ASSUME TypeOK, PassShape, [Next]_vars PROVE PassShape'
  OBVIOUS
<1>1. CASE UNCHANGED pass
  BY <1>1 DEF PassShape
<1>2. Deliver \/ Users \/ UNCHANGED vars => UNCHANGED pass
  BY DeliverOutside, UsersOutside DEF vars
<1> QED BY <1>1, <1>2, ShapeTake, ShapeGetNamespaceClassSpec, ShapeDrift, ShapeHeld,
           ShapeApply, ShapeDelete, ShapeEnds
        DEF Next, Controller, Reconcile, Failure

LEMMA ShapeCorrect == Spec => []PassShape
<1>1. Init => PassShape
  BY DEF Init, PassShape
<1> QED BY <1>1, ShapeStep, TypeCorrect, PTL DEF Spec

-----------------------------------------------------------------------------
\* Quiet Namespaces: nothing is queued or on its way that would start another
\* pass, except versions that change nothing.

Quiet(n) ==
    /\ Steady(n)
    /\ n \notin queue \cup delayed \cup childEvents
    /\ nsObj[n].label \notin classEvents

WantedRes(n) ==
    LET c == nsObj[n].label
    IN  IF c = NoClass \/ class[c] = Absent THEN <<>> ELSE class[c].res

\* What a step may not change for a Namespace that is quiet after it.
Undisturbed(n) ==
    /\ Quiet(n)
    /\ nsObj'[n].label = nsObj[n].label
    /\ Recorded(nsObj[n]) => Recorded(nsObj'[n])
    /\ WantedRes(n)' = WantedRes(n)
    /\ \A o \in Watched : obj'[<<n, o>>] = obj[<<n, o>>]
    /\ inv'[n] = inv[n] \/ (WriteInventory /\ pass.n = n)

LEMMA SettledIsQuiet ==
    ASSUME TypeOK, Following, NEW n \in Namespace, Settled(n)
    PROVE  Quiet(n) /\ ~PassOf(n)
<1>1. nsWatch[n] = <<>> /\ nsCache[n] = nsObj[n]
  BY DEF Settled, Following, WatchEnds
<1>2. \A j \in 1..Len(nsWatch[n]) : FALSE
  BY <1>1
<1>3. Steady(n)
  BY <1>1, <1>2 DEF Settled, Steady, Since, SameLabel
<1> QED BY <1>3 DEF Settled, Quiet, PassOf

LEMMA WatchedPlace ==
    ASSUME NEW n \in Namespace, NEW o \in Watched
    PROVE  PlaceOf(n, o) = <<n, o>> /\ <<n, o>> \in Place
<1>1. o \in Object /\ o \notin ClusterScoped
  BY TemplatesAssumption
<1> QED BY <1>1, PlaceType DEF PlaceOf

\* A watched object does not change without an event for its Namespace.
LEMMA ObjWriteSeen ==
    ASSUME TypeOK, NEW p \in Place, NEW v, ObjWrite(p, v),
           NEW n \in Namespace, NEW o \in Watched
    PROVE  /\ childEvents \subseteq childEvents'
           /\ obj'[<<n, o>>] = obj[<<n, o>>] \/ n \in childEvents'
<1>1. <<n, o>> \in Place
  BY WatchedPlace
<1>2. CASE p = <<n, o>>
  <2>1. p[1] = n /\ p[2] = o
    BY <1>2
  <2> QED BY <1>1, <1>2, <2>1 DEF ObjWrite, TypeOK
<1>3. CASE p # <<n, o>>
  BY <1>1, <1>3 DEF ObjWrite, TypeOK
<1> QED BY <1>2, <1>3

LEMMA PassStepEvents ==
    ASSUME TypeOK, PassStep
    PROVE  delayed \subseteq delayed' /\ childEvents \subseteq childEvents'
BY DEF PassStep, Reconcile, GetNamespaceClassSpec, HasTemplateDrift, ClearHold, StartHold,
   KeepOrEndHold, SetClassAutoHealHeldCondition, ApplyClassResource, ReadInventory,
   DeleteRemovedResource, WriteInventory, UpdateSwitchAnnotations,
   UpdateSwitchAnnotationsHeld, ApiFails, ConditionFails, SkipUnmappedResource,
   UpdateNs, RequeueAfter, Requeue, ObjWrite, events

LEMMA PassStepObjects ==
    ASSUME TypeOK, PassStep, NEW n \in Namespace, NEW o \in Watched
    PROVE  obj'[<<n, o>>] = obj[<<n, o>>] \/ n \in childEvents'
<1>1. pass \in BusyPass /\ pass.n \in Namespace
  BY PassStepIsBusy
<1>2. CASE ApplyClassResource
  <2>1. ThisTemplate \in Template
    BY <1>1, <1>2, ThisTemplateType DEF ApplyClassResource
  <2>2. PlaceOf(pass.n, Target(ThisTemplate)) \in Place
    BY <1>1, <2>1, TargetType, PlaceType
  <2>3. UNCHANGED obj \/ ObjWrite(PlaceOf(pass.n, Target(ThisTemplate)), ThisTemplate)
    BY <1>2 DEF ApplyClassResource
  <2> QED BY <2>2, <2>3, ObjWriteSeen
<1>3. ASSUME NEW r \in Ref, DeleteRemovedResource(r)
      PROVE  obj'[<<n, o>>] = obj[<<n, o>>] \/ n \in childEvents'
  <2>1. PlaceOf(pass.n, ObjectOf[r]) \in Place
    BY <1>1, PlaceType, TemplatesAssumption
  <2>2. ObjWrite(PlaceOf(pass.n, ObjectOf[r]), Absent)
    BY <1>3 DEF DeleteRemovedResource
  <2> QED BY <2>1, <2>2, ObjWriteSeen
<1>4. CASE ~(ApplyClassResource \/ \E r \in Ref : DeleteRemovedResource(r))
  BY <1>4 DEF PassStep, Reconcile, GetNamespaceClassSpec, HasTemplateDrift, ClearHold,
     StartHold, KeepOrEndHold, SetClassAutoHealHeldCondition, ReadInventory,
     WriteInventory, UpdateSwitchAnnotations, UpdateSwitchAnnotationsHeld, ApiFails,
     ConditionFails, SkipUnmappedResource, server
<1> QED BY <1>2, <1>3, <1>4

LEMMA PassStepInventory ==
    ASSUME TypeOK, PassStep, NEW n \in Namespace
    PROVE  inv'[n] = inv[n] \/ (WriteInventory /\ pass.n = n)
<1>1. CASE WriteInventory
  BY <1>1 DEF WriteInventory, TypeOK
<1>2. CASE ~WriteInventory
  BY <1>2 DEF PassStep, Reconcile, GetNamespaceClassSpec, HasTemplateDrift, ClearHold,
     StartHold, KeepOrEndHold, SetClassAutoHealHeldCondition, ApplyClassResource,
     ReadInventory, DeleteRemovedResource, UpdateSwitchAnnotations,
     UpdateSwitchAnnotationsHeld, ApiFails, ConditionFails, SkipUnmappedResource, server
<1> QED BY <1>1, <1>2

LEMMA UndisturbedByPass ==
    ASSUME TypeOK, Versions, PassStep, NEW n \in Namespace, Quiet(n)'
    PROVE  Undisturbed(n)
<1>1. UNCHANGED <<class, nsCache, queue, classEvents>>
  BY PassStepOutside
<1>2. delayed \subseteq delayed' /\ childEvents \subseteq childEvents'
  BY PassStepEvents
<1>3. /\ Steady(n)
      /\ nsObj'[n].label = nsObj[n].label
      /\ Recorded(nsObj[n]) => Recorded(nsObj'[n])
  <2>1. CASE UNCHANGED <<nsObj, nsWatch>>
    BY <1>1, <2>1 DEF Quiet, Steady, Since
  <2>2. CASE /\ NextVersion(pass.n)
             /\ SameLabel(nsObj'[pass.n], nsObj[pass.n])
             /\ Recorded(nsObj[pass.n]) => Recorded(nsObj'[pass.n])
    <3>1. pass.n \in Namespace
      BY PassStepIsBusy
    <3>2. Steady(n)
      BY <1>1, <2>2, <3>1, SteadyWritten DEF Quiet
    <3>3. n # pass.n => nsObj'[n] = nsObj[n]
      BY <2>2 DEF NextVersion
    <3> QED BY <2>2, <3>2, <3>3 DEF SameLabel
  <2> QED BY <2>1, <2>2, PassStepWrites
<1>4. Quiet(n)
  BY <1>1, <1>2, <1>3 DEF Quiet
<1>5. \A o \in Watched : obj'[<<n, o>>] = obj[<<n, o>>]
  BY PassStepObjects DEF Quiet
<1>6. WantedRes(n)' = WantedRes(n)
  BY <1>1, <1>3 DEF WantedRes
<1> QED BY <1>3, <1>4, <1>5, <1>6, PassStepInventory DEF Undisturbed

LEMMA UndisturbedByDelivery ==
    ASSUME TypeOK, Deliver, NEW n \in Namespace, Quiet(n)'
    PROVE  Undisturbed(n)
<1>1. UNCHANGED <<class, nsObj, obj, inv>>
  BY DeliverOutside
<1>2. n \notin queue' \cup delayed' \cup childEvents' /\ nsObj[n].label \notin classEvents'
  BY <1>1 DEF Quiet
<1>3. CASE \E m \in Namespace : DeliverNamespace(m)
  <2>1. PICK m \in Namespace : DeliverNamespace(m)
    BY <1>3
  <2>2. Steady(n)
    BY <1>2, <2>1, SteadyDelivered DEF Quiet
  <2>3. UNCHANGED <<delayed, classEvents, childEvents>> /\ queue \subseteq queue'
    BY <2>1, DeliveryFacts DEF DeliverNamespace, events
  <2> QED BY <1>1, <1>2, <2>2, <2>3 DEF Undisturbed, Quiet, WantedRes
<1>4. CASE ~(\E m \in Namespace : DeliverNamespace(m))
  <2>1. UNCHANGED <<nsCache, nsWatch>>
    BY <1>4 DEF Deliver, DeliverInventory, DeliverChild, RetryFires, Resync,
       WindowElapses, DeliverClass, caches
  <2>2. Steady(n)
    BY <1>1, <2>1 DEF Quiet, Steady, Since
  <2>3. n \notin queue \cup delayed \cup childEvents
    BY <1>2, <1>4 DEF Deliver, DeliverInventory, DeliverChild, RetryFires, Resync,
       WindowElapses, DeliverClass, Enqueue, events
  <2>4. nsObj[n].label \notin classEvents
    <3>1. ASSUME NEW c \in Class, DeliverClass(c) PROVE c # nsObj[n].label
      <4>1. c = nsObj[n].label => n \in MapClassToNamespaces(c)
        BY <2>2 DEF Steady, Since, SameLabel, MapClassToNamespaces
      <4> QED BY <1>2, <3>1, <4>1 DEF DeliverClass, Enqueue
    <3>2. \A c : c \in classEvents /\ c \notin classEvents' => c \in Class /\ DeliverClass(c)
      BY <1>4 DEF Deliver, DeliverInventory, DeliverChild, RetryFires, Resync,
         WindowElapses, DeliverClass, events
    <3> QED BY <1>2, <3>1, <3>2
  <2> QED BY <1>1, <2>2, <2>3, <2>4 DEF Undisturbed, Quiet, WantedRes
<1> QED BY <1>3, <1>4

\* An edit of annotations raises no event, and changes nothing to apply.
LEMMA EditClassSeen ==
    ASSUME TypeOK, NEW c \in Class, NEW x \in ClassContents \cup {Absent}, EditClass(c, x),
           NEW n \in Namespace, nsObj[n].label \notin classEvents'
    PROVE  WantedRes(n)' = WantedRes(n)
<1>1. nsObj' = nsObj /\ class' = [class EXCEPT ![c] = x]
  BY DEF EditClass
<1>2. nsObj[n].label \in Class \cup {NoClass}
  BY DEF TypeOK, NamespaceVersion, MaybeClass
<1>3. CASE nsObj[n].label # c
  BY <1>1, <1>2, <1>3 DEF WantedRes, TypeOK
<1>4. CASE nsObj[n].label = c
  <2>1. x # Absent /\ class[c] # Absent /\ x.res = class[c].res
    BY <1>4 DEF EditClass
  <2>2. class'[c] = x
    BY <1>1 DEF TypeOK
  <2> QED BY <1>1, <1>4, <2>1, <2>2 DEF WantedRes
<1> QED BY <1>3, <1>4

LEMMA UsersSend ==
    ASSUME Users
    PROVE  childEvents \subseteq childEvents' /\ classEvents \subseteq classEvents'
BY DEF Users, Relabel, CreateNamespace, RollBackSwitch, DeleteNamespace, EditClass,
   DriftObject, ObjWrite, events

LEMMA UndisturbedByUsers ==
    ASSUME TypeOK, Following, Users, NEW n \in Namespace, Quiet(n)'
    PROVE  Undisturbed(n)
<1>1. UNCHANGED <<nsCache, queue, delayed>>
  BY UsersOutside
<1>2. Steady(n) /\ nsObj'[n] = nsObj[n]
  <2>1. CASE UNCHANGED <<nsObj, nsWatch>>
    BY <1>1, <2>1 DEF Quiet, Steady, Since
  <2>2. ASSUME NEW m \in Namespace, NextVersion(m),
               nsObj'[m].exists => ~SameLabel(nsObj'[m], nsObj[m])
        PROVE  Steady(n) /\ nsObj'[n] = nsObj[n]
    <3>1. n # m
      BY <1>1, <2>2, SteadyEdited DEF Quiet, Following
    <3> QED BY <1>1, <2>2, <3>1 DEF NextVersion, Quiet, Steady, Since
  <2> QED BY <2>1, <2>2, UsersStore
<1>3. Quiet(n)
  BY <1>1, <1>2, UsersSend DEF Quiet
<1>4. WantedRes(n)' = WantedRes(n)
  <2>1. CASE UNCHANGED class
    BY <1>2, <2>1 DEF WantedRes
  <2>2. ASSUME NEW c \in Class, NEW x \in ClassContents \cup {Absent}, EditClass(c, x)
        PROVE  WantedRes(n)' = WantedRes(n)
    BY <1>2, <2>2, EditClassSeen DEF Quiet
  <2> QED BY <2>1, <2>2 DEF Users, Relabel, CreateNamespace, RollBackSwitch,
             DeleteNamespace, DriftObject
<1>5. ASSUME NEW m \in Namespace, DeleteNamespace(m)
      PROVE  n # m
  <2>1. NsWrite(m, NoNamespace(nsObj[m].rv))
    BY <1>5 DEF DeleteNamespace
  <2>2. /\ NoNamespace(nsObj[m].rv) \in NamespaceVersion
        /\ NoNamespace(nsObj[m].rv).exists = FALSE
    BY DEF TypeOK, NamespaceVersion, NoNamespace, NewNamespace, MaybeClass
  <2>3. ~nsObj'[m].exists
    BY <2>1, <2>2, NsWriteFacts
  <2> QED BY <2>3 DEF Quiet, Steady, Since
<1>6. inv'[n] = inv[n]
  BY <1>5 DEF Users, Relabel, CreateNamespace, RollBackSwitch, DeleteNamespace, EditClass,
     DriftObject, TypeOK
<1>7. ASSUME NEW o \in Watched
      PROVE  obj'[<<n, o>>] = obj[<<n, o>>]
  <2>1. ASSUME NEW p \in Place, NEW v \in {Absent, Tampered}, DriftObject(p, v)
        PROVE  obj'[<<n, o>>] = obj[<<n, o>>]
    BY <2>1, ObjWriteSeen DEF DriftObject, Quiet
  <2>2. ASSUME NEW m \in Namespace, DeleteNamespace(m)
        PROVE  obj'[<<n, o>>] = obj[<<n, o>>]
    <3>1. n # m /\ <<n, o>> \in Place
      BY <1>5, <2>2, WatchedPlace
    <3>2. <<n, o>>[1] = n
      OBVIOUS
    <3> QED BY <2>2, <3>1, <3>2 DEF DeleteNamespace
  <2> QED BY <2>1, <2>2 DEF Users, Relabel, CreateNamespace, RollBackSwitch, EditClass
<1> QED BY <1>2, <1>3, <1>4, <1>6, <1>7 DEF Undisturbed

\* No step but the start of its own pass makes a Namespace quiet, or changes
\* what a quiet Namespace should have, or what it has that is watched.
LEMMA UndisturbedStep ==
    ASSUME TypeOK, Versions, Following, [Next]_vars,
           NEW n \in Namespace, Quiet(n)', ~Take(n)
    PROVE  Undisturbed(n)
<1>1. ASSUME NEW m \in Namespace, Take(m)
      PROVE  Undisturbed(n)
  <2>1. n # m /\ queue' = queue \ {m}
    BY <1>1 DEF Take
  <2>2. UNCHANGED <<class, nsObj, obj, inv, nsCache, nsWatch, classEvents, childEvents,
                    delayed>>
    BY <1>1 DEF Take, server, caches, events
  <2> QED BY <2>1, <2>2 DEF Undisturbed, Quiet, Steady, Since, WantedRes
<1>2. CASE Restart
  <2>1. nsObj'[n].exists /\ n \notin queue'
    BY DEF Quiet, Steady, Since
  <2> QED BY <1>2, <2>1 DEF Restart, server
<1>3. CASE UNCHANGED vars
  BY <1>3 DEF vars, Undisturbed, Quiet, Steady, Since, WantedRes
<1> QED BY <1>1, <1>2, <1>3, UndisturbedByPass, UndisturbedByDelivery, UndisturbedByUsers
        DEF Next, Controller, Failure, PassStep

-----------------------------------------------------------------------------
\* Followed.  The inductive invariant behind SettledInSync: what a pass has done
\* so far for a quiet Namespace stands, and a quiet Namespace without a pass has
\* all that a pass does.

InPlace(n, t) == Target(t) \in Watched => obj[<<n, Target(t)>>] = t

Progress(n) ==
    Quiet(n) /\ PassOf(n) =>
        /\ pass.pc # "getClass" => pass.spec.res = WantedRes(n)
        /\ pass.pc \in {"apply", "delete", "switch"} =>
              \A k \in 1..(pass.i - 1) : InPlace(n, pass.spec.res[k])
        /\ pass.pc = "switch" => inv[n] = pass.refs

Synced(n) ==
    /\ Recorded(nsObj[n])
    /\ inv[n] = RefsOf(WantedRes(n), Len(WantedRes(n)) + 1)
    /\ \A k \in 1..Len(WantedRes(n)) : InPlace(n, WantedRes(n)[k])

Followed ==
    \A n \in Namespace : Progress(n) /\ (Quiet(n) /\ ~PassOf(n) => Synced(n))

LEMMA WantedResType ==
    ASSUME TypeOK, NEW n \in Namespace
    PROVE  WantedRes(n) \in Seq(Template) /\ Len(WantedRes(n)) \in Nat
<1>1. nsObj[n].label \in Class \cup {NoClass}
  BY DEF TypeOK, NamespaceVersion, MaybeClass
<1>2. ASSUME NEW c \in Class, class[c] # Absent
      PROVE  class[c].res \in Seq(Template)
  BY <1>2, ContentsAssumption DEF TypeOK
<1> QED BY <1>1, <1>2 DEF WantedRes

\* What the run checks of a settled Namespace, in terms of its templates.
LEMMA SyncedIsInSync ==
    ASSUME TypeOK, NEW n \in Namespace, Synced(n)
    PROVE  InSync(n)
<1> DEFINE res == WantedRes(n)
<1>1. res \in Seq(Template) /\ Len(res) \in Nat /\ DOMAIN res = 1..Len(res)
  BY WantedResType
<1>2. WantedTemplates(n) = {res[k] : k \in 1..Len(res)}
  BY <1>1 DEF WantedTemplates, WantedRes
<1> HIDE DEF res
<1>3. inv[n] = {RefOf[t] : t \in WantedTemplates(n)}
  <2>1. (Len(res) + 1) - 1 = Len(res)
    BY <1>1
  <2>2. inv[n] = {RefOf[res[k]] : k \in 1..Len(res)}
    BY <2>1 DEF Synced, RefsOf, res
  <2> QED BY <1>2, <2>2
<1>4. ASSUME NEW t \in WantedTemplates(n), Target(t) \in Watched
      PROVE  obj[PlaceOf(n, Target(t))] = t
  <2>1. PICK k \in 1..Len(res) : t = res[k]
    BY <1>2
  <2> QED BY <1>4, <2>1, WatchedPlace DEF Synced, InPlace, res
<1> QED BY <1>3, <1>4 DEF InSync, Synced, Recorded

\* A quiet Namespace whose pass has just begun.
LEMMA FollowedTake ==
    ASSUME NEW n \in Namespace, Take(n), Quiet(n)'
    PROVE  Progress(n)' /\ PassOf(n)'
<1>1. SameLabel(nsCache[n], nsObj'[n]) /\ nsObj'[n].exists
  BY DEF Quiet, Steady, Since, Take, caches
<1>2. pass' = StartPass(n, nsCache[n])
  BY <1>1 DEF Take, SameLabel
<1>3. /\ pass'.n = n /\ pass'.i = 1 /\ pass'.spec = NoContents
      /\ pass'.pc = IF nsCache[n].label = NoClass THEN "apply" ELSE "getClass"
      /\ pass' # IdlePass
  <2>1. StartPass(n, nsCache[n]).pc # IdlePass.pc
    BY DEF StartPass, IdlePass
  <2> QED BY <1>2, <2>1 DEF StartPass
<1>4. pass'.pc # "getClass" => pass'.spec.res = WantedRes(n)'
  BY <1>1, <1>3 DEF WantedRes, SameLabel, NoContents
<1>5. \A k : k \notin 1..(pass'.i - 1)
  BY <1>3
<1> QED BY <1>3, <1>4, <1>5 DEF Progress, PassOf

\* A step that leaves alone what the pass has done for a quiet Namespace.
LEMMA ProgressKept ==
    ASSUME Followed, NEW n \in Namespace, Undisturbed(n), PassOf(n),
           pass.pc # "getClass",
           pass'.spec = pass.spec, pass'.i = pass.i, pass'.refs = pass.refs,
           pass'.pc \in {"apply", "delete", "switch"} =>
              pass.pc \in {"apply", "delete", "switch"} \/ pass.i = 1,
           pass'.pc = "switch" => inv'[n] = pass.refs
    PROVE  Progress(n)'
<1>1. /\ Quiet(n)
      /\ pass.spec.res = WantedRes(n)
      /\ pass.pc \in {"apply", "delete", "switch"} =>
            \A k \in 1..(pass.i - 1) : InPlace(n, pass.spec.res[k])
  BY DEF Followed, Progress, Undisturbed
<1>2. WantedRes(n)' = WantedRes(n)
  BY DEF Undisturbed
<1>3. pass.i = 1 => \A k : k \notin 1..(pass.i - 1)
  OBVIOUS
<1>4. ASSUME pass'.pc \in {"apply", "delete", "switch"}, NEW k \in 1..(pass.i - 1),
             Target(pass.spec.res[k]) \in Watched
      PROVE  obj'[<<n, Target(pass.spec.res[k])>>] = pass.spec.res[k]
  BY <1>1, <1>3, <1>4 DEF Undisturbed, InPlace
<1> QED BY <1>1, <1>2, <1>4 DEF Progress, InPlace, Target

\* A pass for a quiet Namespace has a copy with its label.
LEMMA CopyLabel ==
    ASSUME Following, NEW n \in Namespace, Quiet(n), PassOf(n)
    PROVE  SameLabel(pass.copy, nsObj[n])
BY DEF Following, CopySteady, Quiet, Steady, SameLabel

LEMMA FollowedGetNamespaceClassSpec ==
    ASSUME TypeOK, Following, PassShape, GetNamespaceClassSpec,
           NEW n \in Namespace, Undisturbed(n), PassOf(n)
    PROVE  Progress(n)' /\ PassOf(n)'
<1>1. pass \in BusyPass /\ pass # IdlePass /\ pass.pc = "getClass"
  BY StepIsBusy DEF GetNamespaceClassSpec, Steps
<1>2. pass.i = 1 /\ pass.spec = NoContents
  BY <1>1 DEF PassShape
<1>3. pass.copy.label = nsObj[n].label /\ pass.copy.label # NoClass
  BY <1>1, CopyLabel DEF SameLabel, TypeOK, Undisturbed
<1>4. WantedRes(n)' = WantedRes(n)
  BY DEF Undisturbed
<1> DEFINE x == class[pass.copy.label]
<1>5. pass' \in BusyPass /\ pass' # IdlePass
  <2>1. TypeOK' /\ pass'.pc # "idle"
    BY <1>1, TypeGetNamespaceClassSpec DEF GetNamespaceClassSpec, Goto, BusyPass
  <2> QED BY <2>1 DEF TypeOK, IdlePass
<1>6. CASE x = Absent /\ pass' = [pass EXCEPT !.pc = "apply"]
  <2>1. pass'.n = n /\ pass'.i = 1 /\ pass'.pc = "apply" /\ pass'.spec = NoContents
    BY <1>1, <1>2, <1>6 DEF BusyPass, PassOf
  <2>2. pass'.spec.res = WantedRes(n)'
    BY <1>3, <1>4, <1>6, <2>1 DEF WantedRes, NoContents
  <2>3. \A k : k \notin 1..(pass'.i - 1)
    BY <2>1
  <2> QED BY <1>5, <2>1, <2>2, <2>3 DEF Progress, PassOf
<1>7. CASE /\ x # Absent
           /\ \/ pass' = [pass EXCEPT !.spec = x, !.pc = "drift"]
              \/ pass' = [pass EXCEPT !.spec = x, !.copy = HoldCleared(@),
                                      !.pc = "heldFalse"]
  <2>1. pass'.n = n /\ pass'.pc \in {"drift", "heldFalse"} /\ pass'.spec = x
    BY <1>1, <1>7 DEF BusyPass, PassOf
  <2>2. pass'.spec.res = WantedRes(n)'
    BY <1>3, <1>4, <1>7, <2>1 DEF WantedRes
  <2> QED BY <1>5, <2>1, <2>2 DEF Progress, PassOf
<1> QED BY <1>6, <1>7 DEF GetNamespaceClassSpec, Goto

\* A pass that fails comes again, so its Namespace is not quiet.
LEMMA RequeueNotQuiet ==
    ASSUME NEW n \in Namespace, PassOf(n), Requeue
    PROVE  ~Quiet(n)'
BY DEF PassOf, Requeue, Quiet

LEMMA FollowedBeforeApply ==
    ASSUME TypeOK, Following, PassShape, Followed,
           \/ HasTemplateDrift \/ ClearHold \/ StartHold \/ KeepOrEndHold
           \/ SetClassAutoHealHeldCondition \/ ConditionFails,
           NEW n \in Namespace, Quiet(n)', Undisturbed(n), PassOf(n)
    PROVE  Progress(n)' /\ PassOf(n)'
<1>1. pass \in BusyPass /\ pass # IdlePass
  BY DEF PassOf, TypeOK
<1>2. ~Requeue
  BY RequeueNotQuiet
<1>3. \/ /\ pass'.pc \in {"drift", "hold", "heldTrue", "heldFalse"}
         /\ pass'.spec = pass.spec /\ pass'.n = pass.n
      \/ /\ pass.pc = "heldTrue" /\ pass'.pc = "switchHeld"
         /\ pass'.spec = pass.spec /\ pass'.n = pass.n
      \/ /\ pass.pc = "heldFalse" /\ pass'.pc = "apply" /\ pass'.i = pass.i
         /\ pass'.spec = pass.spec /\ pass'.n = pass.n
  <2>1. CASE HasTemplateDrift
    BY <1>1, <2>1 DEF HasTemplateDrift, BusyPass
  <2>2. CASE ClearHold
    BY <1>1, <1>2, <2>2 DEF ClearHold, UpdateNs, BusyPass
  <2>3. CASE StartHold
    BY <1>1, <1>2, <2>3 DEF StartHold, UpdateNs, BusyPass
  <2>4. CASE KeepOrEndHold
    BY <1>1, <2>4 DEF KeepOrEndHold, Goto, BusyPass
  <2>5. CASE SetClassAutoHealHeldCondition \/ ConditionFails
    BY <1>1, <2>5 DEF SetClassAutoHealHeldCondition, ConditionFails, Goto, BusyPass
  <2> QED BY <2>1, <2>2, <2>3, <2>4, <2>5
<1>4. pass' # IdlePass
  BY <1>3 DEF IdlePass
<1>5. pass.pc # "getClass"
  BY DEF HasTemplateDrift, ClearHold, StartHold, KeepOrEndHold,
     SetClassAutoHealHeldCondition, ConditionFails
<1>6. pass'.spec.res = WantedRes(n)'
  BY <1>3, <1>5 DEF Followed, Progress, Undisturbed
<1>7. pass'.pc = "apply" => \A k : k \notin 1..(pass'.i - 1)
  <2>1. pass.pc = "heldFalse" => pass.i = 1
    BY <1>1 DEF PassShape
  <2> QED BY <1>3, <2>1
<1> QED BY <1>3, <1>4, <1>6, <1>7 DEF Progress, PassOf

LEMMA FollowedApply ==
    ASSUME TypeOK, Followed, ApplyClassResource,
           NEW n \in Namespace, Quiet(n)', Undisturbed(n), PassOf(n)
    PROVE  Progress(n)' /\ PassOf(n)'
<1> DEFINE t == ThisTemplate
<1>1. pass \in BusyPass /\ pass # IdlePass /\ pass.pc = "apply" /\ pass.n = n
  BY StepIsBusy DEF ApplyClassResource, Steps, PassOf
<1>2. t \in Template /\ Target(t) \in Object
  BY <1>1, ThisTemplateType, TargetType DEF ApplyClassResource
<1>3. /\ ObjWrite(PlaceOf(n, Target(t)), t)
      /\ pass' = [pass EXCEPT !.refs = @ \cup {RefOf[t]}, !.i = @ + 1]
  BY <1>1, RequeueNotQuiet DEF ApplyClassResource
<1>4. /\ pass'.n = n /\ pass'.pc = "apply" /\ pass'.spec = pass.spec
      /\ pass'.i = pass.i + 1 /\ pass.i \in Nat
  BY <1>1, <1>3 DEF BusyPass
<1>5. pass' # IdlePass
  BY <1>4 DEF IdlePass
<1>6. /\ pass.spec.res = WantedRes(n)
      /\ \A k \in 1..(pass.i - 1) : InPlace(n, pass.spec.res[k])
  BY <1>1 DEF Followed, Progress, Undisturbed, PassOf
<1>7. ASSUME NEW k \in 1..pass.i, Target(pass.spec.res[k]) \in Watched
      PROVE  obj'[<<n, Target(pass.spec.res[k])>>] = pass.spec.res[k]
  <2>1. CASE k = pass.i
    <3>1. t = pass.spec.res[k]
      BY <2>1 DEF ThisTemplate
    <3>2. PlaceOf(n, Target(t)) = <<n, Target(t)>> /\ <<n, Target(t)>> \in Place
      BY <1>7, <3>1, WatchedPlace
    <3>3. obj' = [obj EXCEPT ![<<n, Target(t)>>] = t]
      BY <1>3, <3>2 DEF ObjWrite
    <3> QED BY <3>1, <3>2, <3>3 DEF TypeOK
  <2>2. CASE k \in 1..(pass.i - 1)
    BY <1>6, <1>7, <2>2 DEF Undisturbed, InPlace
  <2> QED BY <1>4, <2>1, <2>2
<1> QED BY <1>4, <1>5, <1>6, <1>7 DEF Progress, PassOf, InPlace, Target, Undisturbed

LEMMA FollowedDelete ==
    ASSUME TypeOK, Followed,
           \/ ReadInventory \/ WriteInventory
           \/ \E r \in Ref : DeleteRemovedResource(r) \/ SkipUnmappedResource(r),
           NEW n \in Namespace, Quiet(n)', Undisturbed(n), PassOf(n)
    PROVE  Progress(n)' /\ PassOf(n)'
<1>1. pass \in BusyPass /\ pass # IdlePass /\ pass.pc \in {"apply", "delete"}
  BY DEF ReadInventory, WriteInventory, DeleteRemovedResource, SkipUnmappedResource,
     PassOf, TypeOK
<1>2. /\ pass'.pc \in {"delete", "switch"} /\ pass'.n = pass.n
      /\ pass'.spec = pass.spec /\ pass'.i = pass.i /\ pass'.refs = pass.refs
      /\ pass'.pc = "switch" => inv'[n] = pass.refs
  <2>1. CASE ReadInventory \/ \E r \in Ref : DeleteRemovedResource(r)
                                              \/ SkipUnmappedResource(r)
    BY <1>1, <2>1 DEF ReadInventory, DeleteRemovedResource, SkipUnmappedResource, BusyPass
  <2>2. CASE WriteInventory
    <3>1. Goto("switch") /\ inv' = [inv EXCEPT ![pass.n] = pass.refs]
      BY <2>2, RequeueNotQuiet DEF WriteInventory
    <3> QED BY <1>1, <3>1 DEF Goto, BusyPass, TypeOK, PassOf
  <2> QED BY <2>1, <2>2
<1>3. pass' # IdlePass
  BY <1>2 DEF IdlePass
<1> QED BY <1>1, <1>2, <1>3, ProgressKept DEF PassOf

\* The end of a pass that nothing will follow: all is in place.
LEMMA FollowedEnd ==
    ASSUME TypeOK, Versions, Following, PassShape, Followed, UpdateSwitchAnnotations,
           NEW n \in Namespace, Quiet(n)', Undisturbed(n), PassOf(n)
    PROVE  Synced(n)' /\ ~PassOf(n)'
<1>1. pass \in BusyPass /\ pass # IdlePass /\ pass.pc = "switch" /\ pass.n = n
  BY StepIsBusy DEF UpdateSwitchAnnotations, Steps, PassOf
<1>2. pass' = IdlePass
  BY DEF UpdateSwitchAnnotations, UpdateNs, Requeue
<1>3. /\ inv[n] = pass.refs /\ pass.spec.res = WantedRes(n)
      /\ \A k \in 1..(pass.i - 1) : InPlace(n, pass.spec.res[k])
  BY <1>1 DEF Followed, Progress, Undisturbed, PassOf
<1>4. /\ pass.refs = RefsOf(pass.spec.res, pass.i)
      /\ pass.i = Len(pass.spec.res) + 1 /\ Len(pass.spec.res) \in Nat
  BY <1>1, SpecType DEF PassShape
<1>5. WantedRes(n)' = WantedRes(n)
  BY DEF Undisturbed
<1>6. inv'[n] = RefsOf(WantedRes(n), Len(WantedRes(n)) + 1)
  <2>1. UNCHANGED inv
    BY DEF UpdateSwitchAnnotations
  <2> QED BY <1>3, <1>4, <2>1
<1>7. ASSUME NEW k \in 1..Len(WantedRes(n)), Target(WantedRes(n)[k]) \in Watched
      PROVE  obj'[<<n, Target(WantedRes(n)[k])>>] = WantedRes(n)[k]
  <2>1. k \in 1..(pass.i - 1)
    BY <1>3, <1>4
  <2> QED BY <1>3, <1>7, <2>1 DEF Undisturbed, InPlace
<1>8. Recorded(nsObj'[n])
  <2>1. SameLabel(pass.copy, nsObj[n]) /\ nsObj'[n].label = nsObj[n].label
    BY CopyLabel DEF Undisturbed
  <2>2. CASE pass.copy.last = pass.copy.label
    <3>1. Recorded(nsObj[n])
      BY <2>2 DEF Following, CopyRecorded, Undisturbed, Quiet, Recorded
    <3> QED BY <3>1 DEF Undisturbed
  <2>3. CASE pass.copy.last # pass.copy.label
    <3> DEFINE x == Switched(pass.copy)
    <3>1. Fresh(x) /\ StoreNs(x)
      BY <2>3, RequeueNotQuiet DEF UpdateSwitchAnnotations, UpdateNs
    <3>2. x \in NamespaceVersion /\ x.last = pass.copy.label
      BY <1>1, TypeSwitched DEF BusyPass, Switched, NamespaceVersion
    <3> HIDE DEF x
    <3>3. nsObj'[n].last = x.last
      BY <1>1, <3>1, <3>2, StoreNsFacts
    <3> QED BY <2>1, <3>2, <3>3 DEF Recorded, SameLabel
  <2> QED BY <2>2, <2>3
<1> QED BY <1>2, <1>5, <1>6, <1>7, <1>8 DEF Synced, PassOf, InPlace, Target

LEMMA FollowedPass ==
    ASSUME TypeOK, Versions, Following, PassShape, Followed, PassStep,
           NEW n \in Namespace, Quiet(n)', Undisturbed(n), PassOf(n)
    PROVE  Progress(n)' /\ (~PassOf(n)' => Synced(n)')
<1>1. ~(ApiFails \/ UpdateSwitchAnnotationsHeld)
  BY RequeueNotQuiet DEF ApiFails, UpdateSwitchAnnotationsHeld, RequeueAfter
<1>2. CASE UpdateSwitchAnnotations
  BY <1>2, FollowedEnd DEF Progress
<1> QED BY <1>1, <1>2, FollowedGetNamespaceClassSpec, FollowedBeforeApply, FollowedApply,
           FollowedDelete DEF PassStep, Reconcile

LEMMA FollowedPassUnchanged ==
    ASSUME Followed, UNCHANGED pass, NEW n \in Namespace, Undisturbed(n), PassOf(n),
           inv'[n] = inv[n]
    PROVE  Progress(n)' /\ PassOf(n)'
<1>1. CASE pass.pc # "getClass"
  <2>1. pass'.pc = "switch" => inv'[n] = pass.refs
    BY DEF Followed, Progress, Undisturbed
  <2> QED BY <1>1, <2>1, ProgressKept DEF PassOf
<1>2. CASE pass.pc = "getClass"
  BY <1>2 DEF Progress, PassOf
<1> QED BY <1>1, <1>2

LEMMA SyncedKept ==
    ASSUME NEW n \in Namespace, Undisturbed(n), Synced(n), inv'[n] = inv[n]
    PROVE  Synced(n)'
<1>1. WantedRes(n)' = WantedRes(n)
  BY DEF Undisturbed
<1>2. ASSUME NEW k \in 1..Len(WantedRes(n)), Target(WantedRes(n)[k]) \in Watched
      PROVE  obj'[<<n, Target(WantedRes(n)[k])>>] = WantedRes(n)[k]
  BY <1>2 DEF Undisturbed, Synced, InPlace
<1> QED BY <1>1, <1>2 DEF Undisturbed, Synced, InPlace, Target

LEMMA FollowedStep ==
    TypeOK /\ Versions /\ Following /\ PassShape /\ Followed /\ [Next]_vars => Followed'
<1> SUFFICES ASSUME TypeOK, Versions, Following, PassShape, Followed, [Next]_vars,
                    NEW n \in Namespace, Quiet(n)'
             PROVE  Progress(n)' /\ (~PassOf(n)' => Synced(n)')
  BY DEF Followed, Progress
<1>1. CASE Take(n)
  BY <1>1, FollowedTake
<1>2. CASE ~Take(n)
  <2>1. Undisturbed(n)
    BY <1>2, UndisturbedStep
  <2>2. ~Restart
    BY DEF Restart, Quiet, Steady, Since, server
  <2>3. ASSUME NEW m \in Namespace, Take(m)
        PROVE  ~PassOf(n) /\ ~PassOf(n)'
    BY <1>2, <2>3 DEF Take, PassOf, StartPass
  <2>4. Deliver \/ Users \/ UNCHANGED vars => UNCHANGED pass
    BY DeliverOutside, UsersOutside DEF vars
  <2>5. UNCHANGED pass \/ PassStep \/ \E m \in Namespace : Take(m)
    BY <2>2, <2>4 DEF Next, Controller, Failure, PassStep
  <2>6. PassStep => pass # IdlePass /\ PassKept
    BY PassStepIsBusy, PassStepKept
  <2>7. WriteInventory => pass # IdlePass /\ PassStep
    BY StepIsBusy DEF WriteInventory, Steps, PassStep, Reconcile
  <2>8. CASE PassOf(n) /\ PassStep
    BY <2>1, <2>8, FollowedPass
  <2>9. CASE PassOf(n) /\ ~PassStep
    <3>1. UNCHANGED pass /\ inv'[n] = inv[n]
      BY <2>1, <2>3, <2>5, <2>7, <2>9 DEF Undisturbed
    <3> QED BY <2>1, <2>9, <3>1, FollowedPassUnchanged
  <2>10. CASE ~PassOf(n)
    <3>1. ~PassOf(n)'
      BY <2>3, <2>5, <2>6, <2>10 DEF PassOf, PassKept
    <3>2. Synced(n) /\ inv'[n] = inv[n]
      BY <2>1, <2>7, <2>10 DEF Followed, Undisturbed, PassOf
    <3> QED BY <2>1, <3>1, <3>2, SyncedKept DEF Progress
  <2> QED BY <2>8, <2>9, <2>10
<1> QED BY <1>1, <1>2

LEMMA FollowedInit == Init => Followed
<1>1. Init => \A n \in Namespace : ~Quiet(n)
  BY DEF Init, Quiet
<1> QED BY <1>1 DEF Followed, Progress

LEMMA FollowedCorrect == Spec => []Followed
BY FollowedInit, FollowedStep, TypeCorrect, VersionsCorrect, FollowingCorrect, ShapeCorrect,
   PTL DEF Spec

\* No wakeup is lost, however many Namespaces share classes and whatever fails:
\* a Namespace that the controller will not look at again has recorded its
\* switch, and its inventory and watched objects are those of its class.
THEOREM SettledInSyncCorrect == Spec => []SettledInSync
<1>1. TypeOK /\ Following /\ Followed => SettledInSync
  BY SettledIsQuiet, SyncedIsInSync DEF SettledInSync, Followed
<1> QED BY <1>1, TypeCorrect, FollowingCorrect, FollowedCorrect, PTL

-----------------------------------------------------------------------------
\* Objects in Namespaces: where they come from and where they go.

Namespaced == Object \ ClusterScoped

Empty(n) == \A o \in Namespaced : obj[<<n, o>>] = Absent

LEMMA NamespacedPlace ==
    ASSUME NEW n \in Namespace, NEW o \in Namespaced
    PROVE  PlaceOf(n, o) = <<n, o>> /\ <<n, o>> \in Place
BY PlaceType DEF PlaceOf, Namespaced

\* No two Namespaces, and no two objects, share a place in a Namespace.
LEMMA PlaceInjective ==
    ASSUME NEW n \in Namespace, NEW m \in Namespace, NEW o, NEW q,
           PlaceOf(m, q) = <<n, o>>
    PROVE  m = n /\ q = o
BY NamesAssumption DEF PlaceOf

\* Only a pass creates objects, and it counts each among what it has applied.
LEMMA ObjectsAppear ==
    ASSUME TypeOK, [Next]_vars, NEW n \in Namespace, NEW o \in Namespaced,
           obj[<<n, o>>] = Absent, obj'[<<n, o>>] # Absent
    PROVE  /\ ApplyClassResource /\ PassOf(n) /\ nsObj[n].exists
           /\ pass' = [pass EXCEPT !.refs = @ \cup {RefOf[ThisTemplate]}, !.i = @ + 1]
           /\ Target(ThisTemplate) = o
<1>1. <<n, o>> \in Place
  BY NamespacedPlace
<1>2. ASSUME NEW p \in Place, NEW v, ObjWrite(p, v)
      PROVE  p = <<n, o>> /\ v # Absent
  BY <1>1, <1>2 DEF ObjWrite, TypeOK
<1>3. ASSUME NEW r \in Ref PROVE ~DeleteRemovedResource(r)
  <2> SUFFICES ASSUME DeleteRemovedResource(r) PROVE FALSE
    OBVIOUS
  <2>1. pass.n \in Namespace
    BY StepIsBusy DEF DeleteRemovedResource, Steps, BusyPass
  <2>2. PlaceOf(pass.n, ObjectOf[r]) \in Place
    BY <2>1, PlaceType, TemplatesAssumption
  <2> QED BY <1>2, <2>2 DEF DeleteRemovedResource
<1>4. ASSUME NEW p \in Place, NEW v \in {Absent, Tampered} PROVE ~DriftObject(p, v)
  BY <1>2 DEF DriftObject
<1>5. ASSUME NEW m \in Namespace PROVE ~DeleteNamespace(m)
  BY <1>1 DEF DeleteNamespace
<1>6. ApplyClassResource
  BY <1>3, <1>4, <1>5 DEF Next, Controller, Take, Reconcile, GetNamespaceClassSpec,
     HasTemplateDrift, ClearHold, StartHold, KeepOrEndHold, SetClassAutoHealHeldCondition,
     ReadInventory, WriteInventory, UpdateSwitchAnnotations, UpdateSwitchAnnotationsHeld,
     Failure, ApiFails, ConditionFails, Restart, SkipUnmappedResource, Deliver,
     DeliverNamespace, DeliverInventory, DeliverChild, RetryFires, Resync, WindowElapses,
     DeliverClass, Users, Relabel, CreateNamespace, RollBackSwitch, EditClass, server, vars
<1>7. /\ pass # IdlePass /\ pass.n \in Namespace
      /\ ThisTemplate \in Template
  BY <1>6, StepIsBusy, ThisTemplateType DEF ApplyClassResource, Steps, BusyPass
<1>8. PlaceOf(pass.n, Target(ThisTemplate)) \in Place
  BY <1>7, PlaceType, TargetType
<1>9. /\ ObjWrite(PlaceOf(pass.n, Target(ThisTemplate)), ThisTemplate)
      /\ ~(PlaceOf(pass.n, Target(ThisTemplate))[1] = pass.n /\ ~nsObj[pass.n].exists)
      /\ pass' = [pass EXCEPT !.refs = @ \cup {RefOf[ThisTemplate]}, !.i = @ + 1]
  BY <1>6 DEF ApplyClassResource
<1>10. PlaceOf(pass.n, Target(ThisTemplate)) = <<n, o>>
  BY <1>2, <1>8, <1>9
<1>11. pass.n = n /\ Target(ThisTemplate) = o
  BY <1>7, <1>10, PlaceInjective
<1> QED BY <1>6, <1>7, <1>9, <1>10, <1>11 DEF PassOf

LEMMA InventoryChanges ==
    ASSUME TypeOK, [Next]_vars, NEW n \in Namespace
    PROVE  \/ UNCHANGED inv[n]
           \/ WriteInventory /\ pass.n = n
           \/ DeleteNamespace(n)
<1>1. CASE WriteInventory
  BY <1>1 DEF WriteInventory, TypeOK
<1>2. ASSUME NEW m \in Namespace, DeleteNamespace(m)
      PROVE  UNCHANGED inv[n] \/ m = n
  BY <1>2 DEF DeleteNamespace, TypeOK
<1>3. \/ UNCHANGED inv \/ WriteInventory \/ \E m \in Namespace : DeleteNamespace(m)
  BY DEF Next, Controller, Take, Reconcile, GetNamespaceClassSpec,
     HasTemplateDrift, ClearHold, StartHold, KeepOrEndHold, SetClassAutoHealHeldCondition,
     ApplyClassResource, ReadInventory, DeleteRemovedResource, UpdateSwitchAnnotations,
     UpdateSwitchAnnotationsHeld, Failure, ApiFails, ConditionFails, Restart,
     SkipUnmappedResource, Deliver, DeliverNamespace, DeliverInventory, DeliverChild,
     RetryFires, Resync, WindowElapses, DeliverClass, Users, Relabel, CreateNamespace,
     RollBackSwitch, EditClass, DriftObject, server, vars
<1> QED BY <1>1, <1>2, <1>3

LEMMA TailEmpty ==
    ASSUME NEW S, NEW s \in Seq(S), s # <<>>
    PROVE  Tail(s) = <<>> <=> Len(s) = 1
<1>1. Tail(s) \in Seq(S) /\ Len(Tail(s)) = Len(s) - 1 /\ Len(s) \in Nat \ {0}
  OBVIOUS
<1> DEFINE t == Tail(s)
<1>2. t \in Seq(S) /\ Len(t) = Len(s) - 1
  BY <1>1
<1> HIDE DEF t
<1>3. t # <<>> => Len(t) \in Nat \ {0}
  BY <1>2, EmptySeq
<1>4. t = <<>> => Len(t) = 0
  OBVIOUS
<1>5. t = <<>> <=> Len(t) = 0
  BY <1>3, <1>4
<1>6. t = <<>> <=> Len(s) = 1
  BY <1>1, <1>2, <1>5
<1> QED BY <1>6 DEF t

\* Versions of an inventory under way to the cache end in the server's.
InventoryEnds ==
    \A n \in Namespace :
        /\ invWatch[n] = <<>> => invCache[n] = inv[n]
        /\ invWatch[n] # <<>> => invWatch[n][Len(invWatch[n])] = inv[n]

LEMMA InventoryWatchChanges ==
    ASSUME TypeOK, [Next]_vars, NEW n \in Namespace
    PROVE  \/ UNCHANGED invCache[n] /\ UNCHANGED invWatch[n]
           \/ WriteInventory /\ pass.n = n
           \/ DeleteNamespace(n)
           \/ DeliverInventory(n)
           \/ Restart
<1>1. CASE WriteInventory
  BY <1>1 DEF WriteInventory, TypeOK
<1>2. ASSUME NEW m \in Namespace, DeleteNamespace(m)
      PROVE  (UNCHANGED invCache[n] /\ UNCHANGED invWatch[n]) \/ m = n
  BY <1>2 DEF DeleteNamespace, TypeOK
<1>3. ASSUME NEW m \in Namespace, DeliverInventory(m)
      PROVE  (UNCHANGED invCache[n] /\ UNCHANGED invWatch[n]) \/ m = n
  BY <1>3 DEF DeliverInventory, TypeOK
<1>4. \/ UNCHANGED <<invCache, invWatch>> \/ WriteInventory \/ Restart
      \/ \E m \in Namespace : DeleteNamespace(m) \/ DeliverInventory(m)
  BY DEF Next, Controller, Take, Reconcile, GetNamespaceClassSpec,
     HasTemplateDrift, ClearHold, StartHold, KeepOrEndHold, SetClassAutoHealHeldCondition,
     ApplyClassResource, ReadInventory, DeleteRemovedResource, UpdateSwitchAnnotations,
     UpdateSwitchAnnotationsHeld, Failure, ApiFails, ConditionFails,
     SkipUnmappedResource, Deliver, DeliverNamespace, DeliverChild,
     RetryFires, Resync, WindowElapses, DeliverClass, Users, Relabel, CreateNamespace,
     RollBackSwitch, EditClass, DriftObject, caches, vars
<1> QED BY <1>1, <1>2, <1>3, <1>4

LEMMA InventoryEndsStep == TypeOK /\ InventoryEnds /\ [Next]_vars => InventoryEnds'
<1> SUFFICES ASSUME TypeOK, InventoryEnds, [Next]_vars, NEW n \in Namespace
             PROVE  /\ invWatch'[n] = <<>> => invCache'[n] = inv'[n]
                    /\ invWatch'[n] # <<>> => invWatch'[n][Len(invWatch'[n])] = inv'[n]
  BY DEF InventoryEnds
<1>1. /\ invWatch[n] \in Seq(Inventory)
      /\ invWatch[n] = <<>> => invCache[n] = inv[n]
      /\ invWatch[n] # <<>> => invWatch[n][Len(invWatch[n])] = inv[n]
  BY DEF TypeOK, InventoryEnds
<1>2. CASE WriteInventory /\ pass.n = n
  <2>1. CASE UNCHANGED <<inv, invWatch, invCache>>
    BY <1>1, <2>1
  <2>2. CASE /\ invWatch[n] = <<>>
             /\ inv' = [inv EXCEPT ![n] = pass.refs]
             /\ invWatch' = IF inv[n] = pass.refs THEN invWatch
                              ELSE [invWatch EXCEPT ![n] = <<pass.refs>>]
             /\ UNCHANGED invCache
    <3>1. inv'[n] = pass.refs
      BY <2>2 DEF TypeOK
    <3>2. CASE inv[n] = pass.refs
      BY <1>1, <2>2, <3>1, <3>2
    <3>3. CASE inv[n] # pass.refs
      <4>1. invWatch'[n] = <<pass.refs>>
        BY <2>2, <3>3 DEF TypeOK
      <4> QED BY <3>1, <4>1
    <3> QED BY <3>2, <3>3
  <2> QED BY <1>2, <2>1, <2>2 DEF WriteInventory
<1>3. CASE DeleteNamespace(n)
  <2>1. inv'[n] = NoInventory /\ UNCHANGED invCache
    BY <1>3 DEF DeleteNamespace, TypeOK
  <2>2. CASE inv[n] = NoInventory
    BY <1>1, <1>3, <2>1, <2>2 DEF DeleteNamespace
  <2>3. CASE inv[n] # NoInventory
    <3>1. invWatch'[n] = Append(invWatch[n], NoInventory)
      BY <1>3, <2>3 DEF DeleteNamespace, TypeOK
    <3>2. NoInventory \in Inventory
      BY DEF Inventory
    <3> QED BY <1>1, <2>1, <3>1, <3>2
  <2> QED BY <2>2, <2>3
<1>4. CASE DeliverInventory(n)
  <2>1. /\ invWatch[n] # <<>> /\ invCache'[n] = invWatch[n][1]
        /\ invWatch'[n] = Tail(invWatch[n]) /\ UNCHANGED inv
    BY <1>1, <1>4 DEF DeliverInventory, TypeOK, server
  <2>2. /\ Len(invWatch[n]) \in Nat \ {0}
        /\ Len(invWatch'[n]) = Len(invWatch[n]) - 1
        /\ \A k \in 1..Len(invWatch'[n]) : invWatch'[n][k] = invWatch[n][k + 1]
    BY <1>1, <2>1
  <2>3. CASE Len(invWatch[n]) = 1
    <3>1. invWatch'[n] = <<>>
      BY <1>1, <2>1, <2>3, TailEmpty
    <3> QED BY <1>1, <2>1, <2>3, <3>1
  <2>4. CASE Len(invWatch[n]) # 1
    <3>1. invWatch'[n] # <<>> /\ Len(invWatch'[n]) \in 1..Len(invWatch'[n])
      <4>1. invWatch'[n] # <<>>
        BY <1>1, <2>1, <2>4, TailEmpty
      <4> QED BY <2>2, <2>4, <4>1
    <3>2. invWatch'[n][Len(invWatch'[n])] = invWatch[n][Len(invWatch[n])]
      BY <2>2, <3>1
    <3> QED BY <1>1, <2>1, <3>1, <3>2
  <2> QED BY <2>3, <2>4
<1>5. CASE Restart
  BY <1>5 DEF Restart, server
<1>6. CASE UNCHANGED invCache[n] /\ UNCHANGED invWatch[n]
  BY <1>1, <1>2, <1>3, <1>6, InventoryChanges
<1> QED BY <1>2, <1>3, <1>4, <1>5, <1>6, InventoryWatchChanges

\* What the theorem about orphans assumes: no pass that has applied something
\* ends before it has recorded it, and none works from an inventory that is out
\* of date.  A class that will be refused is refused at its first template.
WholePasses ==
    /\ Faults \cap {"api", "restart", "discovery", "lag"} = {}
    /\ \A x \in ClassContents : \A k \in 1..Len(x.res) :
          Refused(x.res[k], x) => Refused(x.res[1], x)

LEMMA NoFaults ==
    ASSUME WholePasses
    PROVE  /\ "lag" \notin Faults
           /\ ~ApiFails /\ ~ConditionFails /\ ~Restart
           /\ \A r \in Ref : ~SkipUnmappedResource(r)
BY DEF WholePasses, ApiFails, ConditionFails, Restart, SkipUnmappedResource, Fault

\* A Namespace that is gone has no objects.
Emptied == \A n \in Namespace : ~nsObj[n].exists => Empty(n)

\* A pass that has applied something was not refused at its first template.
FirstAccepted ==
    pass # IdlePass /\ pass.pc = "apply" /\ pass.i > 1 =>
        ~Refused(pass.spec.res[1], pass.spec)

\* The pass has applied o and not recorded it yet.
Carried(n, o) ==
    /\ PassOf(n)
    /\ pass.pc \in {"apply", "delete"}
    /\ \E r \in pass.refs : ObjectOf[r] = o

Accounted ==
    \A n \in Namespace, o \in Namespaced :
        obj[<<n, o>>] # Absent =>
            (\E r \in Listed(inv[n]) : ObjectOf[r] = o) \/ Carried(n, o)

\* What the inventory lists is applied, or still to be deleted, or gone.
Deleting ==
    \A n \in Namespace :
        PassOf(n) /\ pass.pc = "delete" =>
            /\ invWatch[n] # <<>> => Empty(n)
            /\ \A r \in Listed(inv[n]) :
                  \/ r \in pass.refs \cup pass.prev
                  \/ ObjectOf[r] \in Namespaced => obj[<<n, ObjectOf[r]>>] = Absent

\* The books of a pass: what it, the inventory and the server know of objects.
Books == Emptied /\ FirstAccepted /\ Accounted /\ Deleting

LEMMA NamespaceDeleted ==
    ASSUME TypeOK, NEW n \in Namespace, DeleteNamespace(n)
    PROVE  Empty(n)' /\ Listed(inv[n])' = {}
<1>1. ASSUME NEW o \in Namespaced PROVE obj'[<<n, o>>] = Absent
  BY NamespacedPlace DEF DeleteNamespace
<1>2. inv'[n] = NoInventory
  BY DEF DeleteNamespace, TypeOK
<1> QED BY <1>1, <1>2 DEF Empty, Listed

LEMMA NamespaceGone ==
    ASSUME TypeOK, Versions, [Next]_vars,
           NEW n \in Namespace, nsObj[n].exists, ~nsObj'[n].exists
    PROVE  DeleteNamespace(n)
<1>1. ~PassStep
  BY PassStepWrites, PassStepIsBusy DEF NextVersion, SameLabel
<1>2. ASSUME NEW m \in Namespace, NEW x \in NamespaceVersion, NsWrite(m, x)
      PROVE  m = n /\ ~x.exists
  <2>1. m = n
    <3>1. m # n => nsObj'[n] = nsObj[n]
      BY <1>2 DEF NsWrite, TypeOK
    <3> QED BY <3>1
  <2>2. nsObj'[m].exists = x.exists
    BY <1>2, NsWriteFacts
  <2> QED BY <2>1, <2>2
<1>3. ASSUME NEW m \in Namespace, NEW l \in MaybeClass PROVE ~Relabel(m, l)
  <2> DEFINE x == [nsObj[m] EXCEPT !.label = l]
  <2>1. x \in NamespaceVersion /\ x.exists = nsObj[m].exists
    BY VersionTypes DEF NamespaceVersion
  <2>2. Relabel(m, l) => NsWrite(m, x)
    BY DEF Relabel
  <2> HIDE DEF x
  <2> QED BY <1>2, <2>1, <2>2
<1>4. ASSUME NEW m \in Namespace PROVE ~RollBackSwitch(m)
  <2> DEFINE x == [nsObj[m] EXCEPT !.label = nsObj[m].prev, !.last = nsObj[m].prev,
                                   !.prev = NoClass]
  <2>1. x \in NamespaceVersion /\ x.exists = nsObj[m].exists
    BY VersionTypes DEF NamespaceVersion, MaybeClass
  <2>2. RollBackSwitch(m) => NsWrite(m, x)
    BY DEF RollBackSwitch
  <2> HIDE DEF x
  <2> QED BY <1>2, <2>1, <2>2
<1>5. ASSUME NEW m \in Namespace, NEW l \in MaybeClass PROVE ~CreateNamespace(m, l)
  <2> DEFINE x == NewNamespace(l, nsObj[m].rv)
  <2>1. x \in NamespaceVersion /\ x.exists = TRUE
    BY DEF TypeOK, NamespaceVersion, NewNamespace, MaybeClass
  <2>2. CreateNamespace(m, l) => NsWrite(m, x)
    BY DEF CreateNamespace
  <2> HIDE DEF x
  <2> QED BY <1>2, <2>1, <2>2
<1>6. ASSUME NEW m \in Namespace, DeleteNamespace(m) PROVE m = n
  <2>1. NoNamespace(nsObj[m].rv) \in NamespaceVersion
    BY DEF TypeOK, NamespaceVersion, NoNamespace, NewNamespace, MaybeClass
  <2> QED BY <1>6, <1>2, <2>1 DEF DeleteNamespace
<1>7. ~Deliver
  BY DeliverOutside
<1>8. UNCHANGED nsObj \/ \E m \in Namespace : DeleteNamespace(m)
  BY <1>1, <1>3, <1>4, <1>5, <1>7 DEF Next, Controller, Take, Failure, Restart, PassStep,
     Users, EditClass, DriftObject, server, vars
<1> QED BY <1>6, <1>8

LEMMA EmptiedStep == TypeOK /\ Versions /\ Emptied /\ [Next]_vars => Emptied'
<1> SUFFICES ASSUME TypeOK, Versions, Emptied, [Next]_vars,
                    NEW n \in Namespace, ~nsObj'[n].exists
             PROVE  Empty(n)'
  BY DEF Emptied
<1>1. CASE nsObj[n].exists
  BY <1>1, NamespaceGone, NamespaceDeleted
<1>2. CASE ~nsObj[n].exists
  BY <1>2, ObjectsAppear DEF Emptied, Empty
<1> QED BY <1>1, <1>2

\* A template a pass is refused at is the first one, so nothing is applied yet.
LEMMA RefusedFirst ==
    ASSUME WholePasses, TypeOK, PassShape, FirstAccepted, pass # IdlePass, pass.pc = "apply",
           ~AllDone, Refused(ThisTemplate, pass.spec)
    PROVE  pass.refs = {}
<1>1. pass \in BusyPass
  BY PassIsBusy
<1>2. pass.i \in 1..Len(pass.spec.res) /\ Len(pass.spec.res) \in Nat
  BY <1>1, SpecType DEF AllDone, BusyPass
<1>3. Len(NoContents.res) = 0
  BY DEF NoContents
<1>4. pass.spec \in ClassContents
  BY <1>1, <1>2, <1>3 DEF BusyPass
<1>5. Refused(pass.spec.res[1], pass.spec)
  BY <1>2, <1>4 DEF WholePasses, ThisTemplate
<1>6. pass.i = 1
  BY <1>2, <1>5 DEF FirstAccepted
<1> QED BY <1>6, NoneApplied DEF PassShape

LEMMA FirstAcceptedStep ==
    TypeOK /\ PassShape /\ FirstAccepted /\ [Next]_vars => FirstAccepted'
<1> SUFFICES ASSUME TypeOK, PassShape, FirstAccepted, [Next]_vars,
                    pass' # IdlePass, pass'.pc = "apply", pass'.i > 1
             PROVE  ~Refused(pass'.spec.res[1], pass'.spec)
  BY DEF FirstAccepted, Refused
<1>1. CASE ApplyClassResource
  <2>1. pass \in BusyPass /\ pass # IdlePass /\ pass.pc = "apply"
    BY <1>1, StepIsBusy DEF ApplyClassResource, Steps
  <2>2. /\ pass' = [pass EXCEPT !.refs = @ \cup {RefOf[ThisTemplate]}, !.i = @ + 1]
        /\ ~Refused(ThisTemplate, pass.spec)
    BY <1>1 DEF ApplyClassResource, Requeue
  <2>3. pass'.spec = pass.spec
    BY <2>1, <2>2 DEF BusyPass
  <2>4. pass.i \in Nat \ {0}
    BY <2>1 DEF BusyPass
  <2> QED BY <2>1, <2>2, <2>3, <2>4 DEF FirstAccepted, ThisTemplate
<1>2. CASE UNCHANGED pass
  BY <1>2 DEF FirstAccepted
<1>3. Deliver \/ Users \/ UNCHANGED vars => UNCHANGED pass
  BY DeliverOutside, UsersOutside DEF vars
<1>4. \A n \in Namespace : ~Take(n)
  BY DEF Take, StartPass
<1>5. CASE PassStep /\ ~ApplyClassResource
  <2>1. pass \in BusyPass /\ pass # IdlePass
    BY <1>5, PassStepIsBusy
  <2>2. ~(GetNamespaceClassSpec \/ SetClassAutoHealHeldCondition \/ ConditionFails)
    <3>1. pass.pc \in {"getClass", "heldFalse"} => pass.i = 1
      BY <2>1 DEF PassShape
    <3>2. ~GetNamespaceClassSpec
      <4>1. pass' # [pass EXCEPT !.spec = class[pass.copy.label], !.pc = "drift"]
        BY <2>1 DEF BusyPass
      <4>2. pass' # [pass EXCEPT !.spec = class[pass.copy.label],
                                 !.copy = HoldCleared(@), !.pc = "heldFalse"]
        BY <2>1 DEF BusyPass
      <4>3. pass.pc = "getClass" => pass' # [pass EXCEPT !.pc = "apply"]
        BY <2>1, <3>1 DEF BusyPass
      <4> QED BY <4>1, <4>2, <4>3 DEF GetNamespaceClassSpec, Goto
    <3>3. ~(SetClassAutoHealHeldCondition \/ ConditionFails)
      BY <2>1, <3>1 DEF SetClassAutoHealHeldCondition, ConditionFails, Goto, BusyPass
    <3> QED BY <3>2, <3>3
  <2>3. ~(HasTemplateDrift \/ ClearHold \/ StartHold \/ KeepOrEndHold)
    BY <2>1 DEF HasTemplateDrift, ClearHold, StartHold, KeepOrEndHold, UpdateNs, Requeue,
       Goto, BusyPass
  <2>4. ~(ReadInventory \/ WriteInventory \/ UpdateSwitchAnnotations
            \/ UpdateSwitchAnnotationsHeld \/ ApiFails)
    BY <2>1 DEF ReadInventory, WriteInventory, UpdateSwitchAnnotations,
       UpdateSwitchAnnotationsHeld, UpdateNs, RequeueAfter, Requeue, Goto, ApiFails, BusyPass
  <2>5. \A r \in Ref : ~(DeleteRemovedResource(r) \/ SkipUnmappedResource(r))
    BY <2>1 DEF DeleteRemovedResource, SkipUnmappedResource, BusyPass
  <2> QED BY <1>5, <2>2, <2>3, <2>4, <2>5 DEF PassStep, Reconcile
<1>6. ~Restart
  BY DEF Restart
<1> QED BY <1>1, <1>2, <1>3, <1>4, <1>5, <1>6 DEF Next, Controller, Failure, PassStep

\* What a pass that has applied objects does next, short of recording them.
LEMMA CarriedOn ==
    ASSUME WholePasses, TypeOK, PassShape, Books, [Next]_vars,
           NEW n \in Namespace, NEW o \in Namespaced, Carried(n, o), obj[<<n, o>>] # Absent,
           ~WriteInventory
    PROVE  Carried(n, o)'
<1>1. /\ pass \in BusyPass /\ pass # IdlePass /\ pass.n = n
      /\ pass.pc \in {"apply", "delete"} /\ pass.refs # {}
  BY PassIsBusy DEF Carried, PassOf
<1>2. nsObj[n].exists
  BY DEF Books, Emptied, Empty
<1>3. ASSUME pass'.n = n, pass' # IdlePass, pass'.pc \in {"apply", "delete"},
             pass.refs \subseteq pass'.refs
      PROVE  Carried(n, o)'
  BY <1>3 DEF Carried, PassOf
<1>4. CASE ApplyClassResource
  <2>1. ~AllDone /\ pass.pc = "apply"
    BY <1>4 DEF ApplyClassResource
  <2>2. ~Refused(ThisTemplate, pass.spec)
    BY <1>1, <2>1, RefusedFirst DEF Books
  <2>3. pass' = [pass EXCEPT !.refs = @ \cup {RefOf[ThisTemplate]}, !.i = @ + 1]
    BY <1>1, <1>2, <1>4, <2>2 DEF ApplyClassResource
  <2>4. /\ pass'.n = n /\ pass'.pc = "apply" /\ pass.refs \subseteq pass'.refs
    BY <1>1, <2>1, <2>3 DEF BusyPass
  <2> QED BY <1>3, <2>4 DEF IdlePass
<1>5. CASE ReadInventory \/ \E r \in Ref : DeleteRemovedResource(r)
  <2>1. pass'.n = n /\ pass'.pc = "delete" /\ pass'.refs = pass.refs
    BY <1>1, <1>5 DEF ReadInventory, DeleteRemovedResource, BusyPass
  <2> QED BY <1>3, <2>1 DEF IdlePass
<1>6. CASE UNCHANGED pass
  BY <1>6 DEF Carried, PassOf
<1>7. Deliver \/ Users \/ UNCHANGED vars => UNCHANGED pass
  BY DeliverOutside, UsersOutside DEF vars
<1>8. ~(\E m \in Namespace : Take(m))
  BY <1>1 DEF Take
<1>9. ~(GetNamespaceClassSpec \/ HasTemplateDrift \/ ClearHold \/ StartHold \/ KeepOrEndHold
          \/ SetClassAutoHealHeldCondition \/ UpdateSwitchAnnotations
          \/ UpdateSwitchAnnotationsHeld)
  BY <1>1 DEF GetNamespaceClassSpec, HasTemplateDrift, ClearHold, StartHold, KeepOrEndHold,
     SetClassAutoHealHeldCondition, UpdateSwitchAnnotations, UpdateSwitchAnnotationsHeld
<1> QED BY <1>4, <1>5, <1>6, <1>7, <1>8, <1>9, NoFaults
        DEF Next, Controller, Failure, Reconcile

LEMMA AccountedStep ==
    ASSUME WholePasses
    PROVE  TypeOK /\ PassShape /\ Books /\ [Next]_vars => Accounted'
<1> SUFFICES ASSUME TypeOK, PassShape, Books, [Next]_vars,
                    NEW n \in Namespace, NEW o \in Namespaced, obj'[<<n, o>>] # Absent
             PROVE  (\E r \in Listed(inv'[n]) : ObjectOf[r] = o) \/ Carried(n, o)'
  BY DEF Accounted, Listed
<1>1. CASE obj[<<n, o>>] = Absent
  <2>1. /\ ApplyClassResource /\ PassOf(n) /\ Target(ThisTemplate) = o
        /\ pass' = [pass EXCEPT !.refs = @ \cup {RefOf[ThisTemplate]}, !.i = @ + 1]
    BY <1>1, ObjectsAppear
  <2>2. pass \in BusyPass /\ pass.pc = "apply"
    BY <2>1, PassIsBusy DEF PassOf, ApplyClassResource
  <2>3. /\ pass'.n = n /\ pass'.pc = "apply" /\ RefOf[ThisTemplate] \in pass'.refs
    BY <2>1, <2>2 DEF PassOf, BusyPass
  <2> QED BY <2>1, <2>3 DEF Carried, PassOf, Target, IdlePass
<1>2. CASE obj[<<n, o>>] # Absent
  <2>1. ~DeleteNamespace(n)
    BY NamespaceDeleted DEF Empty
  <2>2. (\E r \in Listed(inv[n]) : ObjectOf[r] = o) \/ Carried(n, o)
    BY <1>2 DEF Books, Accounted
  <2>3. CASE WriteInventory /\ pass.n = n
    <3>1. pass \in BusyPass /\ PassOf(n) /\ pass.pc = "delete" /\ pass.refs \subseteq Ref
      BY <2>3, StepIsBusy DEF WriteInventory, Steps, PassOf, BusyPass
    <3>2. ~Empty(n)
      BY <1>2 DEF Empty
    <3>3. nsObj[n].exists /\ invWatch[n] = <<>>
      BY <3>1, <3>2 DEF Books, Emptied, Deleting
    <3>4. inv' = [inv EXCEPT ![n] = pass.refs] /\ Removed = {}
      BY <2>3, <3>3 DEF WriteInventory
    <3>5. Listed(inv'[n]) = pass.refs
      <4>1. inv'[n] = pass.refs
        BY <3>4 DEF TypeOK
      <4>2. pass.refs # NoInventory
        BY <3>1, NamesAssumption DEF NoInventory
      <4> QED BY <4>1, <4>2 DEF Listed
    <3>6. \E r \in pass.refs : ObjectOf[r] = o
      <4>1. ASSUME NEW r \in Listed(inv[n]), ObjectOf[r] = o PROVE r \in pass.refs
        BY <1>2, <3>1, <3>4, <4>1 DEF Books, Deleting, Removed
      <4> QED BY <2>2, <4>1 DEF Carried
    <3> QED BY <3>5, <3>6
  <2>4. CASE ~(WriteInventory /\ pass.n = n)
    <3>1. inv'[n] = inv[n]
      BY <2>1, <2>4, InventoryChanges
    <3>2. CASE \E r \in Listed(inv[n]) : ObjectOf[r] = o
      BY <3>1, <3>2
    <3>3. CASE Carried(n, o)
      <4>1. ~WriteInventory
        BY <2>4, <3>3 DEF Carried, PassOf
      <4> QED BY <1>2, <3>3, <4>1, CarriedOn
    <3> QED BY <2>2, <3>2, <3>3
  <2> QED BY <2>3, <2>4
<1> QED BY <1>1, <1>2

\* How a pass gets to its deletions, or stays there.
LEMMA DeletingBefore ==
    ASSUME WholePasses, TypeOK, [Next]_vars,
           NEW n \in Namespace, PassOf(n)', pass'.pc = "delete"
    PROVE  /\ PassOf(n)
           /\ ReadInventory \/ (\E r \in Ref : DeleteRemovedResource(r)) \/ UNCHANGED pass
<1>1. Deliver \/ Users \/ UNCHANGED vars => UNCHANGED pass
  BY DeliverOutside, UsersOutside DEF vars
<1>2. ~(\E m \in Namespace : Take(m))
  BY DEF Take, StartPass, IdlePass
<1>3. CASE Reconcile
  <2>1. pass \in BusyPass /\ pass # IdlePass
    BY <1>3, PassStepIsBusy DEF PassStep
  <2>2. pass' # IdlePass
    BY DEF PassOf
  <2>3. ~GetNamespaceClassSpec
    <3>1. pass' # [pass EXCEPT !.spec = class[pass.copy.label], !.pc = "drift"]
      BY <2>1 DEF BusyPass
    <3>2. pass' # [pass EXCEPT !.spec = class[pass.copy.label],
                               !.copy = HoldCleared(@), !.pc = "heldFalse"]
      BY <2>1 DEF BusyPass
    <3>3. pass' # [pass EXCEPT !.pc = "apply"]
      BY <2>1 DEF BusyPass
    <3> QED BY <3>1, <3>2, <3>3 DEF GetNamespaceClassSpec, Goto
  <2>4. ~(HasTemplateDrift \/ ClearHold \/ StartHold \/ KeepOrEndHold)
    BY <2>1, <2>2 DEF HasTemplateDrift, ClearHold, StartHold, KeepOrEndHold, UpdateNs,
       Requeue, Goto, BusyPass
  <2>5. ~(SetClassAutoHealHeldCondition \/ ApplyClassResource)
    BY <2>1, <2>2 DEF SetClassAutoHealHeldCondition, ApplyClassResource, Requeue, Goto,
       BusyPass
  <2>6. ~(WriteInventory \/ UpdateSwitchAnnotations \/ UpdateSwitchAnnotationsHeld)
    BY <2>1, <2>2 DEF WriteInventory, UpdateSwitchAnnotations, UpdateSwitchAnnotationsHeld,
       UpdateNs, RequeueAfter, Requeue, Goto, BusyPass
  <2>7. ReadInventory \/ \E r \in Ref : DeleteRemovedResource(r)
    BY <1>3, <2>3, <2>4, <2>5, <2>6 DEF Reconcile
  <2>8. pass'.n = pass.n
    BY <2>1, <2>7 DEF ReadInventory, DeleteRemovedResource, BusyPass
  <2> QED BY <2>1, <2>7, <2>8 DEF PassOf
<1>4. UNCHANGED pass => PassOf(n)
  BY DEF PassOf
<1> QED BY <1>1, <1>2, <1>3, <1>4, NoFaults DEF Next, Controller, Failure

LEMMA DeletingStep ==
    ASSUME WholePasses
    PROVE  TypeOK /\ InventoryEnds /\ Books /\ [Next]_vars => Deleting'
<1> SUFFICES ASSUME TypeOK, InventoryEnds, Books, [Next]_vars,
                    NEW n \in Namespace, PassOf(n)', pass'.pc = "delete"
             PROVE  /\ invWatch'[n] # <<>> => Empty(n)'
                    /\ \A r \in Listed(inv'[n]) :
                          \/ r \in pass'.refs \cup pass'.prev
                          \/ ObjectOf[r] \in Namespaced => obj'[<<n, ObjectOf[r]>>] = Absent
  BY DEF Deleting, Listed
<1>1. /\ PassOf(n)
      /\ ReadInventory \/ (\E r \in Ref : DeleteRemovedResource(r)) \/ UNCHANGED pass
  BY DeletingBefore
<1>2. pass \in BusyPass /\ pass # IdlePass /\ pass.n = n
  BY <1>1, PassIsBusy DEF PassOf
<1>3. ~ApplyClassResource /\ ~WriteInventory
  <2>1. ~ApplyClassResource
    BY <1>2 DEF ApplyClassResource, Requeue, BusyPass, IdlePass, PassOf
  <2>2. ~WriteInventory
    BY <1>2 DEF WriteInventory, Requeue, Goto, BusyPass, IdlePass, PassOf
  <2> QED BY <2>1, <2>2
<1>4. \A o \in Namespaced : obj[<<n, o>>] = Absent => obj'[<<n, o>>] = Absent
  BY <1>3, ObjectsAppear
<1>5. Empty(n) => Empty(n)'
  BY <1>4 DEF Empty
<1>6. CASE ReadInventory
  <2>1. invWatch[n] = <<>> /\ UNCHANGED <<inv, invWatch>>
    BY <1>2, <1>6, NoFaults DEF ReadInventory, server, caches
  <2>2. pass'.prev = Listed(inv[n])
    <3>1. pass'.prev = Listed(invCache[n])
      BY <1>2, <1>6 DEF ReadInventory, BusyPass
    <3> QED BY <2>1, <3>1 DEF InventoryEnds
  <2> QED BY <2>1, <2>2
<1>7. ASSUME NEW r \in Ref, DeleteRemovedResource(r)
      PROVE  /\ invWatch'[n] # <<>> => Empty(n)'
             /\ \A s \in Listed(inv'[n]) :
                   \/ s \in pass'.refs \cup pass'.prev
                   \/ ObjectOf[s] \in Namespaced => obj'[<<n, ObjectOf[s]>>] = Absent
  <2>1. /\ pass.pc = "delete" /\ UNCHANGED <<inv, invWatch>>
        /\ pass'.refs = pass.refs /\ pass'.prev = pass.prev \ {r}
    BY <1>2, <1>7 DEF DeleteRemovedResource, caches, BusyPass
  <2>2. ObjectOf[r] \in Namespaced => obj'[<<n, ObjectOf[r]>>] = Absent
    BY <1>2, <1>7, NamespacedPlace DEF DeleteRemovedResource, ObjWrite, TypeOK
  <2>3. /\ invWatch[n] # <<>> => Empty(n)
        /\ \A s \in Listed(inv[n]) :
              \/ s \in pass.refs \cup pass.prev
              \/ ObjectOf[s] \in Namespaced => obj[<<n, ObjectOf[s]>>] = Absent
    BY <1>1, <2>1 DEF Books, Deleting
  <2> QED BY <1>4, <1>5, <2>1, <2>2, <2>3
<1>8. CASE UNCHANGED pass
  <2>1. /\ invWatch[n] # <<>> => Empty(n)
        /\ \A s \in Listed(inv[n]) :
              \/ s \in pass.refs \cup pass.prev
              \/ ObjectOf[s] \in Namespaced => obj[<<n, ObjectOf[s]>>] = Absent
    BY <1>1, <1>8 DEF Books, Deleting
  <2>2. CASE DeleteNamespace(n)
    BY <2>2, NamespaceDeleted DEF Listed
  <2>3. CASE ~DeleteNamespace(n)
    <3>1. inv'[n] = inv[n]
      BY <1>3, <2>3, InventoryChanges
    <3>2. invWatch'[n] # <<>> => invWatch[n] # <<>>
      BY <1>3, <2>3, NoFaults, InventoryWatchChanges DEF DeliverInventory
    <3> QED BY <1>4, <1>5, <1>8, <2>1, <3>1, <3>2
  <2> QED BY <2>2, <2>3
<1> QED BY <1>1, <1>6, <1>7, <1>8

LEMMA BooksInit == Init => Books /\ InventoryEnds
<1> SUFFICES ASSUME Init PROVE Books /\ InventoryEnds
  OBVIOUS
<1>1. \A n \in Namespace : Empty(n) /\ nsObj[n].exists
  BY NamespacedPlace DEF Init, Empty, NewNamespace
<1>2. pass = IdlePass /\ \A n \in Namespace : invWatch[n] = <<>> /\ invCache[n] = inv[n]
  BY DEF Init
<1> QED BY <1>1, <1>2 DEF Books, Emptied, FirstAccepted, Accounted, Deleting, Empty, PassOf,
        InventoryEnds

\* The inventory of a settled Namespace accounts for every object in it, as long
\* as every pass that applies something gets to record it (WholePasses; the
\* violating run of SettledNoOrphan breaks exactly that).
THEOREM SettledNoOrphanCorrect ==
    ASSUME WholePasses
    PROVE  Spec => []SettledNoOrphan
<1>1. /\ TypeOK /\ Versions /\ PassShape /\ InventoryEnds /\ Books /\ [Next]_vars
      => InventoryEnds' /\ Books'
  BY InventoryEndsStep, EmptiedStep, FirstAcceptedStep, AccountedStep, DeletingStep DEF Books
<1>2. TypeOK /\ Books => SettledNoOrphan
  <2> SUFFICES ASSUME TypeOK, Books, NEW n \in Namespace, NEW o \in Namespaced,
                      Settled(n), obj[<<n, o>>] # Absent
               PROVE  \E r \in inv[n] : ObjectOf[r] = o
    BY DEF SettledNoOrphan, Namespaced
  <2>1. ~Carried(n, o)
    BY DEF Settled, Carried, PassOf
  <2>2. \E r \in Listed(inv[n]) : ObjectOf[r] = o
    BY <2>1 DEF Books, Accounted
  <2> QED BY <2>2 DEF Listed
<1> QED BY <1>1, <1>2, BooksInit, TypeCorrect, VersionsCorrect, ShapeCorrect, PTL DEF Spec

=============================================================================
