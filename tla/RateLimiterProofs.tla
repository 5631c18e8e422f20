------------------------- MODULE RateLimiterProofs -------------------------
(***************************************************************************)
(* The rate limiter implements FixedWindow, and lets nobody through more   *)
(* than twice the limit in the length of a window, for any set of clients, *)
(* limit and window.                                                       *)
(***************************************************************************)
EXTENDS RateLimiter, TLAPS

\* No counter is from the future, none is empty and none above the limit.
CountersInLimit ==
  /\ now \in Nat
  /\ counters \in [Keys -> Counter \cup {Absent}]
  /\ \A k \in Keys : counters[k] # Absent =>
       counters[k].count \in 1..Limit /\ counters[k].lastTime <= now

LEMMA LimitPositive == Limit \in Nat \ {0} /\ Window \in Nat \ {0}
  BY ArgsAssumption DEF Limit, Window

\* What a request finds is a counter, and one that is not in an open window
\* starts again from nothing.
LEMMA FreshType ==
  ASSUME CountersInLimit, NEW k \in Keys
  PROVE  /\ Fresh(k) \in Counter
         /\ Fresh(k).count <= Limit /\ Fresh(k).lastTime <= now
         /\ now - Fresh(k).lastTime <= Window
         /\ OpenWindow[k] = Absent
              => Fresh(k).count = 0 /\ Fresh(k).lastTime = now
         /\ OpenWindow[k] # Absent
              => /\ Fresh(k).count \in 1..Limit
                 /\ OpenWindow[k] = [start |-> Fresh(k).lastTime,
                                     used |-> Fresh(k).count]
<1>1. CASE counters[k] = Absent \/ now - counters[k].lastTime > Window
  BY <1>1, LimitPositive DEF CountersInLimit, Fresh, OpenWindow, Counter
<1>2. CASE ~(counters[k] = Absent \/ now - counters[k].lastTime > Window)
  <2>1. /\ Fresh(k) = counters[k]
        /\ counters[k] \in Counter
        /\ counters[k].count \in 1..Limit /\ counters[k].lastTime <= now
    BY <1>2 DEF CountersInLimit, Fresh
  <2>2. OpenWindow[k] = [start |-> counters[k].lastTime,
                         used |-> counters[k].count]
    BY <1>2 DEF OpenWindow
  <2>3. OpenWindow[k] # Absent
    BY <2>1, <2>2, AbsentAssumption DEF Counter
  <2>4. now - counters[k].lastTime <= Window
    BY <1>2, <2>1, LimitPositive DEF CountersInLimit, Counter
  <2> QED
    BY <2>1, <2>2, <2>3, <2>4, LimitPositive
<1> QED
  BY <1>1, <1>2

\* The two outcomes of a request.
LEMMA RequestCases ==
  ASSUME CountersInLimit, NEW k \in Keys, Request(k)
  PROVE  \/ /\ Fresh(k).count = Limit
            /\ counters' = [counters EXCEPT ![k] = Fresh(k)]
            /\ reply' = <<k, FALSE>> /\ now' = now /\ admitted' = admitted
         \/ /\ Fresh(k).count < Limit
            /\ counters' = [counters EXCEPT ![k] =
                              [count |-> Fresh(k).count + 1,
                               lastTime |-> Fresh(k).lastTime]]
            /\ reply' = <<k, TRUE>> /\ now' = now
            /\ admitted' = [admitted EXCEPT ![k] = Append(@, now)]
<1>1. Fresh(k).count \in Nat /\ Fresh(k).count <= Limit /\ Limit \in Nat
  BY FreshType, LimitPositive DEF Counter
<1>2. /\ Fresh(k).count >= Limit => Fresh(k).count = Limit
      /\ ~(Fresh(k).count >= Limit) => Fresh(k).count < Limit
  BY <1>1
<1> QED
  BY <1>2, Zenon DEF Request

LEMMA CountersInvariant == Spec => []CountersInLimit
<1>1. Init => CountersInLimit
  BY DEF Init, CountersInLimit
<1>2. CountersInLimit /\ [Next]_vars => CountersInLimit'
  <2> SUFFICES ASSUME CountersInLimit, [Next]_vars PROVE CountersInLimit'
    OBVIOUS
  <2>1. ASSUME NEW k \in Keys, Request(k) PROVE CountersInLimit'
    <3>1. PICK c \in Counter :
            /\ counters' = [counters EXCEPT ![k] = c]
            /\ c.count \in 1..Limit /\ c.lastTime <= now /\ now' = now
      <4>1. /\ Fresh(k).count \in Nat /\ Fresh(k).count <= Limit
            /\ Fresh(k) \in Counter /\ Fresh(k).lastTime \in Nat
            /\ Fresh(k).lastTime <= now /\ Limit \in Nat \ {0}
        BY FreshType, LimitPositive DEF Counter
      <4>2. CASE Fresh(k).count = Limit
        <5>1. ~(Fresh(k).count < Limit) /\ Fresh(k).count \in 1..Limit
          BY <4>1, <4>2
        <5>2. counters' = [counters EXCEPT ![k] = Fresh(k)] /\ now' = now
          BY <2>1, <5>1, RequestCases, Zenon
        <5> QED
          BY <4>1, <5>1, <5>2, Zenon
      <4>3. CASE Fresh(k).count < Limit
        <5> DEFINE d == [count |-> Fresh(k).count + 1,
                         lastTime |-> Fresh(k).lastTime]
        <5>1. counters' = [counters EXCEPT ![k] = d] /\ now' = now
          <6>1. Fresh(k).count # Limit
            BY <4>1, <4>3
          <6> QED
            BY <2>1, <6>1, RequestCases, Zenon
        <5>2. d \in Counter /\ d.count \in 1..Limit /\ d.lastTime <= now
          BY <4>1, <4>3 DEF Counter
        <5> HIDE DEF d
        <5> QED
          BY <5>1, <5>2
      <4> QED
        BY <4>1, <4>2, <4>3
    <3>2. counters' \in [Keys -> Counter \cup {Absent}]
      BY <3>1 DEF CountersInLimit
    <3>3. \A j \in Keys : counters'[j] = IF j = k THEN c ELSE counters[j]
      BY <3>1 DEF CountersInLimit
    <3> QED
      BY <3>1, <3>2, <3>3 DEF CountersInLimit
  <2>2. CASE Cleanup
    BY <2>2 DEF Cleanup, CountersInLimit
  <2>3. CASE Tick
    BY <2>3 DEF Tick, CountersInLimit, Counter
  <2>4. CASE UNCHANGED vars
    BY <2>4 DEF vars, CountersInLimit
  <2> QED
    BY <2>1, <2>2, <2>3, <2>4 DEF Next
<1> QED
  BY <1>1, <1>2, PTL DEF Spec

\* A request is one of the three answers of the promise.
LEMMA RequestKeepsPromise ==
  ASSUME CountersInLimit, NEW k \in Keys, Request(k)
  PROVE  Promise!Begin(k) \/ Promise!Admit(k) \/ Promise!Refuse(k)
<1> DEFINE c == Fresh(k)
           d == [count |-> c.count + 1, lastTime |-> c.lastTime]
           win == OpenWindow[k]
<1>1. /\ c \in Counter /\ c.count \in Nat /\ c.lastTime \in Nat
      /\ c.count <= Limit /\ c.lastTime <= now /\ now - c.lastTime <= Window
      /\ now \in Nat /\ Limit \in Nat \ {0} /\ Window \in Nat
  BY FreshType, LimitPositive DEF CountersInLimit, Counter
<1>2. /\ win = Absent => c.count = 0 /\ c.lastTime = now
      /\ win # Absent => win = [start |-> c.lastTime, used |-> c.count]
  BY FreshType
<1>3. \/ /\ c.count = Limit
         /\ counters' = [counters EXCEPT ![k] = c]
         /\ reply' = <<k, FALSE>> /\ now' = now
      \/ /\ c.count < Limit
         /\ counters' = [counters EXCEPT ![k] = d]
         /\ reply' = <<k, TRUE>> /\ now' = now
  BY RequestCases
<1>4. c # Absent /\ d \in Counter /\ d # Absent
  BY <1>1, AbsentAssumption DEF Counter
<1>5. d.count = c.count + 1 /\ d.lastTime = c.lastTime
  OBVIOUS
<1> HIDE DEF c, d
\* One counter changes, and so does one window.
<1>6. ASSUME NEW e \in Counter, counters' = [counters EXCEPT ![k] = e],
             now' = now, e # Absent, e.lastTime = c.lastTime
      PROVE  OpenWindow' = [OpenWindow EXCEPT ![k] =
                              [start |-> c.lastTime, used |-> e.count]]
  <2>1. \A j \in Keys : counters'[j] = IF j = k THEN e ELSE counters[j]
    BY <1>6 DEF CountersInLimit
  <2>2. ~(now - e.lastTime > Window)
    BY <1>1, <1>6
  <2>3. \A j \in Keys : OpenWindow'[j] =
          IF j = k THEN [start |-> c.lastTime, used |-> e.count]
                   ELSE OpenWindow[j]
    <3> SUFFICES ASSUME NEW j \in Keys
                 PROVE  OpenWindow'[j] =
                          IF j = k THEN [start |-> c.lastTime, used |-> e.count]
                                   ELSE OpenWindow[j]
      OBVIOUS
    <3>1. CASE j = k
      <4>1. counters'[k] = e
        BY <2>1
      <4>2. OpenWindow'[k] = [start |-> e.lastTime, used |-> e.count]
        BY <1>6, <2>2, <4>1, Zenon DEF OpenWindow
      <4> QED
        BY <1>6, <3>1, <4>2, Zenon
    <3>2. CASE j # k
      <4>1. counters'[j] = counters[j]
        BY <2>1, <3>2
      <4> QED
        BY <1>6, <3>2, <4>1, Zenon DEF OpenWindow
    <3> QED
      BY <3>1, <3>2
  <2> QED
    BY <2>3 DEF OpenWindow
<1>7. CASE c.count = Limit
  <2>1. /\ counters' = [counters EXCEPT ![k] = c]
        /\ reply' = <<k, FALSE>> /\ now' = now
    <3>1. ~(c.count < Limit)
      BY <1>1, <1>7
    <3> QED
      BY <1>3, <3>1, Zenon
  <2>2. win = [start |-> c.lastTime, used |-> c.count] /\ win # Absent
    BY <1>1, <1>2, <1>7
  <2>3. OpenWindow' = [OpenWindow EXCEPT ![k] = win]
    BY <1>1, <1>4, <1>6, <2>1, <2>2
  <2>4. OpenWindow' = OpenWindow
    BY <2>3 DEF OpenWindow
  <2>5. win.used = Limit
    BY <1>7, <2>2
  <2> QED
    BY <2>1, <2>2, <2>4, <2>5 DEF Promise!Refuse
<1>8. CASE c.count < Limit
  <2>1. /\ counters' = [counters EXCEPT ![k] = d]
        /\ reply' = <<k, TRUE>> /\ now' = now
    <3>1. c.count # Limit
      BY <1>1, <1>8
    <3> QED
      BY <1>3, <3>1, Zenon
  <2>2. OpenWindow' = [OpenWindow EXCEPT ![k] =
                         [start |-> c.lastTime, used |-> c.count + 1]]
    BY <1>4, <1>5, <1>6, <2>1
  <2>3. CASE win = Absent
    <3>1. c.count + 1 = 1 /\ c.lastTime = now
      BY <1>2, <2>3
    <3> QED
      BY <2>1, <2>2, <2>3, <3>1 DEF Promise!Begin
  <2>4. CASE win # Absent
    <3>1. win.start = c.lastTime /\ win.used = c.count
      BY <1>2, <2>4
    <3> QED
      BY <1>8, <2>1, <2>2, <2>4, <3>1 DEF Promise!Admit
  <2> QED
    BY <2>3, <2>4
<1> QED
  BY <1>1, <1>7, <1>8

\* The limiter refines the promise: requests answer as a fixed window does,
\* cleanup is invisible, and a tick closes the windows that are over.
THEOREM Refinement == Spec => IsFixedWindow
<1>1. Init => Promise!FWInit
  BY DEF Init, Promise!FWInit, OpenWindow
<1>2. CountersInLimit /\ [Next]_vars => [Promise!FWNext]_Promise!FWVars
  <2> SUFFICES ASSUME CountersInLimit, [Next]_vars
               PROVE  [Promise!FWNext]_Promise!FWVars
    OBVIOUS
  <2>1. ASSUME NEW k \in Keys, Request(k) PROVE Promise!FWNext
    BY <2>1, RequestKeepsPromise DEF Promise!FWNext
  <2>2. CASE Cleanup
    <3>1. \A k \in Keys : counters[k] # Absent =>
            /\ counters[k].lastTime \in Nat
            /\ now - counters[k].lastTime > 2 * Window
                 => now - counters[k].lastTime > Window
      BY LimitPositive DEF CountersInLimit, Counter
    <3>2. \A k \in Keys : OpenWindow'[k] = OpenWindow[k]
      BY <2>2, <3>1 DEF Cleanup, OpenWindow
    <3>3. OpenWindow' = OpenWindow
      BY <3>2 DEF OpenWindow
    <3> QED
      BY <2>2, <3>3 DEF Cleanup, Promise!FWVars
  <2>3. CASE Tick
    <3>1. \A k \in Keys : OpenWindow'[k] =
            IF OpenWindow[k] # Absent /\ now' - OpenWindow[k].start <= Window
            THEN OpenWindow[k] ELSE Absent
      <4> SUFFICES ASSUME NEW k \in Keys
                   PROVE  OpenWindow'[k] =
                            IF OpenWindow[k] # Absent
                                 /\ now' - OpenWindow[k].start <= Window
                            THEN OpenWindow[k] ELSE Absent
        OBVIOUS
      <4>1. now' = now + 1 /\ counters' = counters /\ now \in Nat
        BY <2>3 DEF Tick, CountersInLimit
      <4>2. CASE counters[k] = Absent
        BY <4>1, <4>2 DEF OpenWindow
      <4>3. CASE counters[k] # Absent
        <5> DEFINE age == now - counters[k].lastTime
                   win == [start |-> counters[k].lastTime,
                           used |-> counters[k].count]
        <5>1. /\ counters[k].lastTime \in Nat /\ age \in Int
              /\ now' - counters[k].lastTime = age + 1
              /\ win # Absent /\ win.start = counters[k].lastTime
              /\ Window \in Nat
          BY <4>1, <4>3, LimitPositive, AbsentAssumption
          DEF CountersInLimit, Counter
        <5>2. OpenWindow[k] = IF age > Window THEN Absent ELSE win
          BY <4>3 DEF OpenWindow
        <5>3. OpenWindow'[k] = IF age + 1 > Window THEN Absent ELSE win
          BY <4>1, <4>3, <5>1 DEF OpenWindow
        <5> HIDE DEF age, win
        <5> QED
          BY <5>1, <5>2, <5>3
      <4> QED
        BY <4>2, <4>3
    <3>2. OpenWindow' = [k \in Keys |->
            IF OpenWindow[k] # Absent /\ now' - OpenWindow[k].start <= Window
            THEN OpenWindow[k] ELSE Absent]
      BY <3>1 DEF OpenWindow
    <3> QED
      BY <2>3, <3>2 DEF Tick, Promise!Pass, Promise!FWNext
  <2>4. CASE UNCHANGED vars
    BY <2>4 DEF vars, OpenWindow, Promise!FWVars
  <2> QED
    BY <2>1, <2>2, <2>3, <2>4 DEF Next
<1> QED
  BY <1>1, <1>2, CountersInvariant, PTL
  DEF Spec, IsFixedWindow, Promise!FWSpec

-----------------------------------------------------------------------------
(* When requests were admitted. *)

\* The window that began at s has admitted the last c requests of h.  The ones
\* before were admitted before s, and no more than Limit of them within the
\* length of a window before s.
InWindow(h, s, c) ==
  \A i \in 1..Len(h) :
    /\ i <= Len(h) - c - Limit => h[i] < s - Window
    /\ i <= Len(h) - c => h[i] < s
    /\ h[i] <= s + Window

Spaced(h) ==
  \A i \in 1..Len(h) : i > 2 * Limit => h[i] - h[i - 2 * Limit] > Window

Histories ==
  /\ admitted \in [Keys -> Seq(0..MaxTime)]
  /\ \A k \in Keys :
       /\ Spaced(admitted[k])
       /\ counters[k] # Absent
            => InWindow(admitted[k], counters[k].lastTime, counters[k].count)
       /\ counters[k] = Absent
            => \A i \in 1..Len(admitted[k]) : admitted[k][i] < now - Window

LEMMA TimesAreInts ==
  ASSUME NEW h \in Seq(0..MaxTime)
  PROVE  \A i \in 1..Len(h) : h[i] \in Int
  BY ArgsAssumption

\* The window a request finds has this history, be it open, over or forgotten.
LEMMA FreshWindow ==
  ASSUME CountersInLimit, Histories, NEW k \in Keys
  PROVE  InWindow(admitted[k], Fresh(k).lastTime, Fresh(k).count)
<1> DEFINE h == admitted[k]
<1>1. /\ h \in Seq(0..MaxTime) /\ Len(h) \in Nat /\ now \in Nat
      /\ \A i \in 1..Len(h) : h[i] \in Nat
      /\ Limit \in Nat \ {0} /\ Window \in Nat \ {0}
  BY LimitPositive, ArgsAssumption DEF Histories, CountersInLimit
<1>2. CASE counters[k] = Absent
  <2>1. Fresh(k).count = 0 /\ Fresh(k).lastTime = now
    BY <1>2 DEF Fresh
  <2>2. \A i \in 1..Len(h) : h[i] < now - Window
    BY <1>2 DEF Histories
  <2> HIDE DEF h
  <2>3. InWindow(h, now, 0)
    BY <1>1, <2>2 DEF InWindow
  <2> QED
    BY <2>1, <2>3 DEF h
<1>3. CASE counters[k] # Absent
  <2> DEFINE s == counters[k].lastTime
             c == counters[k].count
  <2>1. InWindow(h, s, c) /\ s \in Nat /\ c \in 1..Limit /\ s <= now
    BY <1>3 DEF Histories, CountersInLimit, Counter
  <2>2. IF now - s > Window THEN Fresh(k).count = 0 /\ Fresh(k).lastTime = now
                            ELSE Fresh(k).count = c /\ Fresh(k).lastTime = s
    BY <1>3 DEF Fresh
  <2> HIDE DEF h, s, c
  <2>3. ASSUME now - s > Window PROVE InWindow(h, now, 0)
    <3> SUFFICES ASSUME NEW i \in 1..Len(h)
                 PROVE  /\ i <= Len(h) - 0 - Limit => h[i] < now - Window
                        /\ i <= Len(h) - 0 => h[i] < now
                        /\ h[i] <= now + Window
      BY DEF InWindow
    <3>1. h[i] \in Nat /\ (i <= Len(h) - c => h[i] < s) /\ h[i] <= s + Window
      BY <1>1, <2>1 DEF InWindow
    <3>2. i <= Len(h) - Limit => i <= Len(h) - c
      BY <1>1, <2>1
    <3> QED
      BY <1>1, <2>1, <2>3, <3>1, <3>2
  <2> QED
    BY <2>1, <2>2, <2>3 DEF h
<1> QED
  BY <1>2, <1>3

\* One more request in an open window.
LEMMA AdmitKeeps ==
  ASSUME NEW h \in Seq(Nat), NEW s \in Nat, NEW c \in Nat, NEW t \in Nat,
         s <= t, t - s <= Window, c < Limit, InWindow(h, s, c), Spaced(h)
  PROVE  InWindow(Append(h, t), s, c + 1) /\ Spaced(Append(h, t))
<1> DEFINE g == Append(h, t)
<1>1. /\ Len(h) \in Nat /\ Len(g) = Len(h) + 1 /\ g[Len(h) + 1] = t
      /\ \A i \in 1..Len(h) : g[i] = h[i] /\ h[i] \in Nat
      /\ Limit \in Nat \ {0} /\ Window \in Nat \ {0}
  BY LimitPositive
<1> HIDE DEF g
<1>2. ASSUME NEW i \in 1..Len(g)
      PROVE  /\ i <= Len(g) - (c + 1) - Limit => g[i] < s - Window
             /\ i <= Len(g) - (c + 1) => g[i] < s
             /\ g[i] <= s + Window
  <2>1. CASE i = Len(h) + 1
    BY <1>1, <2>1
  <2>2. CASE i # Len(h) + 1
    <3>1. i \in 1..Len(h)
      BY <1>1, <2>2
    <3>2. /\ i <= Len(h) - c - Limit => h[i] < s - Window
          /\ i <= Len(h) - c => h[i] < s
          /\ h[i] <= s + Window
      BY <3>1 DEF InWindow
    <3> QED
      BY <1>1, <3>1, <3>2
  <2> QED
    BY <2>1, <2>2
<1>3. ASSUME NEW i \in 1..Len(g), i > 2 * Limit
      PROVE  g[i] - g[i - 2 * Limit] > Window
  <2>1. i - 2 * Limit \in 1..Len(h)
    BY <1>1, <1>3
  <2>2. CASE i = Len(h) + 1
    <3>1. i - 2 * Limit <= Len(h) - c - Limit
      BY <1>1, <2>2
    <3>2. h[i - 2 * Limit] < s - Window
      BY <2>1, <3>1 DEF InWindow
    <3>3. g[i] = t /\ g[i - 2 * Limit] = h[i - 2 * Limit] /\ h[i - 2 * Limit] \in Nat
      BY <1>1, <2>1, <2>2
    <3> QED
      BY <1>1, <3>2, <3>3
  <2>3. CASE i # Len(h) + 1
    <3>1. i \in 1..Len(h)
      BY <1>1, <2>3
    <3>2. h[i] - h[i - 2 * Limit] > Window
      BY <1>3, <3>1 DEF Spaced
    <3>3. g[i] = h[i] /\ g[i - 2 * Limit] = h[i - 2 * Limit]
      BY <1>1, <2>1, <3>1
    <3> QED
      BY <3>2, <3>3
  <2> QED
    BY <2>2, <2>3
<1> QED
  BY <1>2, <1>3 DEF InWindow, Spaced, g

LEMMA RequestKeepsHistories ==
  ASSUME TypeOK, CountersInLimit, Histories, NEW k \in Keys, Request(k)
  PROVE  Histories'
<1> DEFINE f == Fresh(k)
           h == admitted[k]
           d == [count |-> f.count + 1, lastTime |-> f.lastTime]
<1>1. /\ f \in Counter /\ f.count \in Nat /\ f.lastTime \in Nat
      /\ f.lastTime <= now /\ now - f.lastTime <= Window
      /\ InWindow(h, f.lastTime, f.count) /\ Spaced(h)
      /\ h \in Seq(0..MaxTime) /\ now \in 0..MaxTime
      /\ d \in Counter /\ d.count = f.count + 1 /\ d.lastTime = f.lastTime
  <2>1. f \in Counter /\ f.lastTime <= now /\ now - f.lastTime <= Window
    BY FreshType
  <2>2. InWindow(h, f.lastTime, f.count)
    BY FreshWindow
  <2>3. Spaced(h) /\ h \in Seq(0..MaxTime) /\ now \in 0..MaxTime
    BY DEF Histories, TypeOK
  <2> HIDE DEF f, h
  <2>4. f.count \in Nat /\ f.lastTime \in Nat
    BY <2>1 DEF Counter
  <2>5. d \in Counter /\ d.count = f.count + 1 /\ d.lastTime = f.lastTime
    BY <2>4 DEF Counter
  <2> QED
    BY <2>1, <2>2, <2>3, <2>4, <2>5
<1>2. f # Absent /\ d # Absent
  BY <1>1, AbsentAssumption
<1>3. \/ /\ counters' = [counters EXCEPT ![k] = f]
         /\ now' = now /\ admitted' = admitted
      \/ /\ f.count < Limit
         /\ counters' = [counters EXCEPT ![k] = d]
         /\ now' = now /\ admitted' = [admitted EXCEPT ![k] = Append(h, now)]
  BY RequestCases
<1> HIDE DEF f, h, d
<1>4. CASE counters' = [counters EXCEPT ![k] = f] /\ now' = now /\ admitted' = admitted
  <2>1. counters'[k] = f /\ \A j \in Keys \ {k} : counters'[j] = counters[j]
    BY <1>4 DEF CountersInLimit
  <2> QED
    BY <1>1, <1>2, <1>4, <2>1 DEF Histories, h
<1>5. CASE /\ f.count < Limit
           /\ counters' = [counters EXCEPT ![k] = d]
           /\ now' = now /\ admitted' = [admitted EXCEPT ![k] = Append(h, now)]
  <2>1. counters'[k] = d /\ \A j \in Keys \ {k} : counters'[j] = counters[j]
    BY <1>5 DEF CountersInLimit
  <2>2. /\ admitted'[k] = Append(h, now)
        /\ \A j \in Keys \ {k} : admitted'[j] = admitted[j]
    BY <1>5 DEF Histories
  <2>3. h \in Seq(Nat) /\ now \in Nat /\ Append(h, now) \in Seq(0..MaxTime)
    BY <1>1, ArgsAssumption
  <2>4. InWindow(Append(h, now), f.lastTime, f.count + 1) /\ Spaced(Append(h, now))
    BY <1>1, <1>5, <2>3, AdmitKeeps
  <2>5. admitted' \in [Keys -> Seq(0..MaxTime)]
    BY <1>5, <2>3 DEF Histories
  <2> QED
    BY <1>1, <1>2, <1>5, <2>1, <2>2, <2>4, <2>5 DEF Histories
<1> QED
  BY <1>3, <1>4, <1>5

\* Cleanup drops a counter when its window and the length of another are over.
LEMMA CleanupKeepsHistories ==
  ASSUME CountersInLimit, Histories, Cleanup
  PROVE  Histories'
<1>1. now' = now /\ admitted' = admitted
  BY DEF Cleanup
<1>2. ASSUME NEW k \in Keys
      PROVE  /\ counters'[k] # Absent => counters'[k] = counters[k]
             /\ counters'[k] = Absent
                  => \A i \in 1..Len(admitted[k]) : admitted[k][i] < now - Window
  <2>1. CASE counters[k] # Absent /\ now - counters[k].lastTime > 2 * Window
    <3>1. /\ counters[k].lastTime \in Nat /\ now \in Nat /\ Window \in Nat
          /\ \A i \in 1..Len(admitted[k]) :
               /\ admitted[k][i] \in Nat
               /\ admitted[k][i] <= counters[k].lastTime + Window
      <4>1. admitted[k] \in Seq(0..MaxTime)
        BY DEF Histories
      <4>2. \A i \in 1..Len(admitted[k]) : admitted[k][i] \in Nat
        BY <4>1, ArgsAssumption
      <4> QED
        BY <2>1, <4>2, LimitPositive DEF Histories, InWindow, CountersInLimit, Counter
    <3>2. counters'[k] = Absent
      BY <2>1 DEF Cleanup
    <3>3. \A i \in 1..Len(admitted[k]) : admitted[k][i] < now - Window
      BY <2>1, <3>1
    <3> QED
      BY <3>2, <3>3
  <2>2. CASE ~(counters[k] # Absent /\ now - counters[k].lastTime > 2 * Window)
    <3>1. counters'[k] = counters[k]
      BY <2>2 DEF Cleanup
    <3> QED
      BY <3>1 DEF Histories
  <2> QED
    BY <2>1, <2>2
<1> QED
  BY <1>1, <1>2 DEF Histories

LEMMA TypeInvariant == Spec => []TypeOK
<1>1. Init => TypeOK
  BY ArgsAssumption DEF Init, TypeOK
<1>2. TypeOK /\ CountersInLimit /\ CountersInLimit' /\ [Next]_vars => TypeOK'
  <2> SUFFICES ASSUME TypeOK, CountersInLimit, CountersInLimit', [Next]_vars PROVE TypeOK'
    OBVIOUS
  <2>1. ASSUME NEW k \in Keys, Request(k) PROVE TypeOK'
    <3>1. /\ now' = now
          /\ reply' = <<k, FALSE>> \/ reply' = <<k, TRUE>>
          /\ \/ admitted' = admitted
             \/ admitted' = [admitted EXCEPT ![k] = Append(admitted[k], now)]
      BY <2>1, RequestCases
    <3>2. Append(admitted[k], now) \in Seq(0..MaxTime)
      BY DEF TypeOK
    <3>3. admitted' \in [Keys -> Seq(0..MaxTime)]
      BY <3>1, <3>2 DEF TypeOK
    <3>4. reply' \in Keys \X BOOLEAN
      <4>1. <<k, FALSE>> \in Keys \X BOOLEAN /\ <<k, TRUE>> \in Keys \X BOOLEAN
        OBVIOUS
      <4> QED
        BY <3>1, <4>1, Zenon
    <3> QED
      BY <3>1, <3>3, <3>4 DEF TypeOK, CountersInLimit
  <2>2. CASE Cleanup
    BY <2>2 DEF Cleanup, TypeOK, CountersInLimit
  <2>3. CASE Tick
    BY <2>3, ArgsAssumption DEF Tick, TypeOK
  <2>4. CASE UNCHANGED vars
    BY <2>4 DEF vars, TypeOK
  <2> QED
    BY <2>1, <2>2, <2>3, <2>4 DEF Next
<1> QED
  BY <1>1, <1>2, CountersInvariant, PTL DEF Spec

LEMMA HistoriesInvariant == Spec => []Histories
<1>1. Init => Histories
  <2> SUFFICES ASSUME Init PROVE Histories
    OBVIOUS
  <2>1. \A k \in Keys : admitted[k] = <<>> /\ Len(admitted[k]) = 0 /\ counters[k] = Absent
    BY DEF Init
  <2>2. admitted \in [Keys -> Seq(0..MaxTime)]
    BY DEF Init
  <2> QED
    BY <2>1, <2>2 DEF Histories, Spaced
<1>2. TypeOK /\ CountersInLimit /\ Histories /\ [Next]_vars => Histories'
  <2> SUFFICES ASSUME TypeOK, CountersInLimit, Histories, [Next]_vars PROVE Histories'
    OBVIOUS
  <2>1. ASSUME NEW k \in Keys, Request(k) PROVE Histories'
    BY <2>1, RequestKeepsHistories
  <2>2. CASE Cleanup
    BY <2>2, CleanupKeepsHistories
  <2>3. CASE Tick
    <3>1. now' = now + 1 /\ UNCHANGED <<counters, admitted>> /\ now \in Nat /\ Window \in Nat
      BY <2>3, LimitPositive DEF Tick, CountersInLimit
    <3>2. ASSUME NEW k \in Keys, counters[k] = Absent, NEW i \in 1..Len(admitted[k])
          PROVE  admitted[k][i] < now' - Window
      <4>1. admitted[k][i] < now - Window /\ admitted[k][i] \in Int
        <5>1. admitted[k] \in Seq(0..MaxTime)
          BY DEF Histories
        <5>2. \A j \in 1..Len(admitted[k]) : admitted[k][j] < now - Window
          BY <3>2, Zenon DEF Histories
        <5>3. admitted[k][i] \in Int
          BY <5>1, TimesAreInts
        <5> QED
          BY <5>2, <5>3
      <4> QED
        BY <3>1, <4>1
    <3> QED
      BY <3>1, <3>2 DEF Histories
  <2>4. CASE UNCHANGED vars
    BY <2>4 DEF vars, Histories
  <2> QED
    BY <2>1, <2>2, <2>3, <2>4 DEF Next
<1> QED
  BY <1>1, <1>2, CountersInvariant, TypeInvariant, PTL DEF Spec

\* The clock, the counters, the answers and the history keep their types.
THEOREM TypeCorrect == Spec => []TypeOK
  BY TypeInvariant

\* However the windows of a client follow each other, with cleanup between
\* them, no interval of a window's length admits more than twice the limit.
THEOREM TwiceAtMost == Spec => []AtMostTwice
<1>1. Histories => AtMostTwice
  <2> SUFFICES ASSUME Histories, NEW k \in Keys, NEW i \in DOMAIN admitted[k],
                      i > 2 * Limit
               PROVE  admitted[k][i] - admitted[k][i - 2 * Limit] > Window
    BY DEF AtMostTwice
  <2>1. admitted[k] \in Seq(0..MaxTime) /\ Spaced(admitted[k])
    BY DEF Histories
  <2>2. i \in 1..Len(admitted[k])
    BY <2>1
  <2> QED
    BY <2>1, <2>2 DEF Spaced
<1> QED
  BY <1>1, HistoriesInvariant, PTL
=============================================================================
