-------------------------- MODULE KeyService_proofs --------------------------
(***************************************************************************)
(* The safety of KeyService for any PKGs, any list of servers, any         *)
(* threshold and any number of requests and years.                         *)
(***************************************************************************)
EXTENDS KeyService, FiniteSetTheorems, TLAPS

(***************************************************************************)
(* A larger set of PKGs has at least as many elements.                     *)
(***************************************************************************)
LEMMA MorePkgs ==
  ASSUME NEW A \in SUBSET Pkg, NEW B \in SUBSET A
  PROVE  Cardinality(A) \in Nat /\ Cardinality(B) \in Nat /\ Cardinality(B) <= Cardinality(A)
<1>1. IsFiniteSet(A)
  BY FS_Subset, PkgAssumption
<1>2. IsFiniteSet(B)
  BY <1>1, FS_Subset
<1> QED BY <1>1, <1>2, FS_Subset, FS_CardinalityType

(***************************************************************************)
(* One server further, the steady ones are as many as before or one more.  *)
(***************************************************************************)
LEMMA OneFurther ==
  ASSUME NEW n \in Nat \ {0}
  PROVE  /\ Cardinality(SteadyBefore(n)) \in Nat /\ Cardinality(SteadyBefore(n + 1)) \in Nat
         /\ Servers[n] \notin steady => SteadyBefore(n + 1) = SteadyBefore(n)
         /\ Cardinality(SteadyBefore(n + 1)) <= Cardinality(SteadyBefore(n)) + 1
<1>1. IsFiniteSet(SteadyBefore(n))
  <2>1. IsFiniteSet(1 .. n - 1) /\ SteadyBefore(n) \in SUBSET (1 .. n - 1)
    BY FS_Interval DEF SteadyBefore
  <2> QED BY <2>1, FS_Subset
<1>2. SteadyBefore(n + 1) = IF Servers[n] \in steady THEN SteadyBefore(n) \cup {n}
                            ELSE SteadyBefore(n)
  BY DEF SteadyBefore
<1>3. /\ Cardinality(SteadyBefore(n)) \in Nat
      /\ IsFiniteSet(SteadyBefore(n) \cup {n})
      /\ Cardinality(SteadyBefore(n) \cup {n})
           \in {Cardinality(SteadyBefore(n)), Cardinality(SteadyBefore(n)) + 1}
  BY <1>1, FS_CardinalityType, FS_AddElement
<1> QED BY <1>2, <1>3

\* Nothing has been requested, given out or combined.
LEMMA InitInv == Init => IInv
<1> SUFFICES ASSUME Init PROVE IInv
  OBVIOUS
<1>1. TypeOK
  BY ServersAssumption, TAssumption, BoundAssumption DEF Init, TypeOK, Posts, Shares
<1>2. Counted /\ NotEnoughIsTrue
  BY DEF Init, Counted, Requesting, NotEnoughIsTrue
<1>3. AskedOnce /\ OneYear
  BY DEF Init, AskedOnce, OneYear, Shared, Requesting
<1>4. KeyBacked /\ ReadingNeedsQuorum
  BY DEF Init, KeyBacked, ReadingNeedsQuorum
<1> QED BY <1>1, <1>2, <1>3, <1>4 DEF IInv

\* The constants in arithmetic.
LEMMA Constants ==
  /\ T \in Nat /\ 0 < T /\ MaxRequests \in Nat
  /\ Len(Servers) \in Nat /\ DOMAIN Servers = 1 .. Len(Servers)
BY TAssumption, BoundAssumption, ServersAssumption

(***************************************************************************)
(* The loop goes on to the next server: either it counts the one it leaves *)
(* or that one is not steady.                                              *)
(***************************************************************************)
LEMMA CountedOn ==
  ASSUME IInv, Requesting, i <= Len(Servers), success < T,
         NEW n \in {0, 1}, NextServer(n), Servers[i] \notin steady \/ n = 1,
         UNCHANGED <<request, steady>>
  PROVE  i' \in 1 .. Len(Servers) + 1 /\ success' \in 0 .. T /\ Counted'
<1>1. /\ i \in Nat \ {0} /\ success \in Nat /\ 0 < request
      /\ Cardinality(SteadyBefore(i)) <= success
  BY Constants DEF IInv, TypeOK, Counted
<1>2. i' = i + 1 /\ success' = success + n /\ stage' = "try"
  BY DEF NextServer
<1>3. /\ Cardinality(SteadyBefore(i)) \in Nat /\ Cardinality(SteadyBefore(i + 1)) \in Nat
      /\ Servers[i] \notin steady => SteadyBefore(i + 1) = SteadyBefore(i)
      /\ Cardinality(SteadyBefore(i + 1)) <= Cardinality(SteadyBefore(i)) + 1
  BY <1>1, OneFurther
<1>4. Cardinality(SteadyBefore(i + 1)) <= success + n
  BY <1>1, <1>3
<1>5. Counted'
  BY <1>1, <1>2, <1>4 DEF Counted, SteadyBefore
<1> QED BY <1>1, <1>2, <1>5, Constants

(***************************************************************************)
(* Files are only ever added to.                                           *)
(***************************************************************************)
LEMMA SourcesGrow ==
  ASSUME TypeOK, TypeOK', files \subseteq files', NEW y
  PROVE  /\ Cardinality(Sources(y)) \in Nat /\ Cardinality(Sources(y)') \in Nat
         /\ Cardinality(Sources(y)) <= Cardinality(Sources(y)')
<1>1. Sources(y)' \in SUBSET Pkg /\ Sources(y) \in SUBSET Sources(y)'
  BY DEF TypeOK, Shares, Sources
<1> QED BY <1>1, MorePkgs

\* The year changes for everybody at once.
LEMMA NewYearInv == ASSUME IInv, NewYear, UNCHANGED steady PROVE IInv'
<1> USE DEF NewYear, loop, post, messages, rest
<1>1. TypeOK'
  <2>1. {r.by : r \in posts} \subseteq Requests
    BY DEF IInv, TypeOK, Posts
  <2>2. Requesting => request \in Requests
    BY Constants DEF IInv, TypeOK, Counted, Requests
  <2>3. tainted' \subseteq Requests
    BY <2>1, <2>2 DEF IInv, TypeOK
  <2> QED BY <2>3 DEF IInv, TypeOK, Posts, Shares
<1>2. Counted' /\ NotEnoughIsTrue'
  BY DEF IInv, TypeOK, Counted, Requesting, SteadyBefore, NotEnoughIsTrue
<1>3. AskedOnce'
  BY DEF IInv, TypeOK, AskedOnce, Shared, Requesting, Asked
<1>4. OneYear'
  BY DEF IInv, TypeOK, OneYear, Shared, Active, Requesting
<1>5. KeyBacked' /\ ReadingNeedsQuorum'
  BY DEF IInv, KeyBacked, Sources, ReadingNeedsQuorum
<1> QED BY <1>1, <1>2, <1>3, <1>4, <1>5 DEF IInv

\* Encryption adds an id and touches nothing else.
LEMMA EncryptInv == ASSUME IInv, Encrypt, UNCHANGED steady PROVE IInv'
<1> USE DEF Encrypt, loop, post, messages, rest
<1>1. TypeOK'
  BY DEF IInv, TypeOK, Posts, Shares, Requests
<1>2. Counted' /\ NotEnoughIsTrue'
  BY DEF IInv, TypeOK, Counted, Requesting, SteadyBefore, NotEnoughIsTrue
<1>3. AskedOnce'
  BY DEF IInv, TypeOK, AskedOnce, Shared, Requesting, Asked
<1>4. OneYear'
  BY DEF IInv, TypeOK, OneYear, Shared, Active, Requesting
<1>5. KeyBacked' /\ ReadingNeedsQuorum'
  BY DEF IInv, KeyBacked, Sources, ReadingNeedsQuorum
<1> QED BY <1>1, <1>2, <1>3, <1>4, <1>5 DEF IInv

\* A new request has asked nobody.
LEMMA RequestInv == ASSUME IInv, Request, UNCHANGED steady PROVE IInv'
<1> USE DEF Request, loop, post, messages, rest
<1>1. TypeOK'
  BY Constants DEF IInv, TypeOK, Posts, Shares, Requests
<1>2. Counted'
  <2>1. SteadyBefore(1) = {} /\ 0 < request'
    BY Constants DEF IInv, TypeOK, SteadyBefore
  <2>2. Cardinality(SteadyBefore(1)) = 0
    BY <2>1, FS_EmptySet
  <2> QED BY <2>1, <2>2 DEF Counted, SteadyBefore
<1>3. NotEnoughIsTrue'
  BY DEF IInv, NotEnoughIsTrue
<1>4. AskedOnce'
  <2>1. /\ request \in Nat /\ \A p \in posts : p.by \in Nat /\ p.by <= request
        /\ \A s \in Shared : s.by \in Nat /\ s.by <= request
    BY Constants DEF IInv, TypeOK, AskedOnce, Shared, Posts, Shares, Requests
  <2>2. /\ \A p \in posts : p.by <= request' /\ p.by # request'
        /\ \A s \in Shared : s.by <= request' /\ s.by # request'
    BY <2>1
  <2> QED BY <2>2 DEF IInv, AskedOnce, Shared
<1>5. OneYear'
  <2>1. \A s \in Shared : s.by # request'
    BY Constants DEF IInv, TypeOK, AskedOnce, Shared, Shares, Requests
  <2> QED BY <2>1 DEF IInv, OneYear, Shared, Active
<1>6. KeyBacked' /\ ReadingNeedsQuorum'
  BY DEF IInv, KeyBacked, Sources, ReadingNeedsQuorum
<1> QED BY <1>1, <1>2, <1>3, <1>4, <1>5, <1>6 DEF IInv

\* The loop has counted T servers.
LEMMA EnoughInv == ASSUME IInv, Enough, UNCHANGED steady PROVE IInv'
<1> USE DEF Enough, loop, post, messages, rest, Ends
<1>1. TypeOK'
  BY Constants DEF IInv, TypeOK, Posts, Shares, Requests
<1>2. Counted' /\ NotEnoughIsTrue'
  BY DEF IInv, TypeOK, Counted, Requesting, SteadyBefore, NotEnoughIsTrue
<1>3. AskedOnce'
  BY DEF IInv, TypeOK, AskedOnce, Shared, Requesting, Asked
<1>4. OneYear'
  BY DEF IInv, TypeOK, OneYear, Shared, Active, Requesting
<1>5. KeyBacked' /\ ReadingNeedsQuorum'
  BY DEF IInv, KeyBacked, Sources, ReadingNeedsQuorum
<1> QED BY <1>1, <1>2, <1>3, <1>4, <1>5 DEF IInv

\* All the servers were tried, and the steady ones counted.
LEMMA NotEnoughInv == ASSUME IInv, NotEnough, UNCHANGED steady PROVE IInv'
<1> USE DEF NotEnough, loop, post, messages, rest, Ends
<1>1. TypeOK'
  BY Constants DEF IInv, TypeOK, Posts, Shares, Requests
<1>2. Counted'
  BY DEF IInv, TypeOK, Counted, Requesting, SteadyBefore
<1>3. NotEnoughIsTrue'
  <2>1. i = Len(Servers) + 1
    BY Constants DEF IInv, TypeOK
  <2>2. SteadyBefore(i) = {k \in DOMAIN Servers : Servers[k] \in steady}
    BY <2>1, Constants DEF SteadyBefore
  <2>3. Cardinality(SteadyBefore(i)) <= success /\ Cardinality(SteadyBefore(i)) \in Nat
    BY <2>1, OneFurther, Constants DEF IInv, Counted, Requesting
  <2>4. success \in Nat /\ success < T
    BY Constants DEF IInv, TypeOK
  <2>5. Cardinality({k \in DOMAIN Servers : Servers[k] \in steady}) < T
    BY <2>2, <2>3, <2>4, Constants
  <2> QED BY <2>5 DEF NotEnoughIsTrue
<1>4. AskedOnce'
  BY DEF IInv, TypeOK, AskedOnce, Shared, Requesting, Asked
<1>5. OneYear'
  BY DEF IInv, TypeOK, OneYear, Shared, Active, Requesting
<1>6. KeyBacked' /\ ReadingNeedsQuorum'
  BY DEF IInv, KeyBacked, Sources, ReadingNeedsQuorum
<1> QED BY <1>1, <1>2, <1>3, <1>4, <1>5, <1>6 DEF IInv

\* A server that cannot be reached is not steady and need not be counted.
LEMMA ConnectInv == ASSUME IInv, Connect, UNCHANGED steady PROVE IInv'
<1> USE DEF Connect, loop, post, messages, rest, Ends, Goes
<1>1. TypeOK' /\ Counted'
  <2>1. Requesting /\ i <= Len(Servers) /\ success < T
    BY Constants DEF IInv, Counted, Requesting
  <2>2. CASE NextServer(0) /\ Servers[i] \notin steady
    <3>1. i' \in 1 .. Len(Servers) + 1 /\ success' \in 0 .. T /\ Counted'
      BY <2>1, <2>2, CountedOn
    <3> QED BY <3>1, <2>2 DEF IInv, TypeOK, NextServer, Posts, Shares
  <2>3. CASE Goes("page")
    BY <2>1, <2>3 DEF IInv, TypeOK, Counted, Requesting, SteadyBefore, Posts, Shares
  <2>4. CASE Ends("died")
    BY <2>4, Constants DEF IInv, TypeOK, Counted, Requesting, Posts, Shares
  <2> QED BY <2>2, <2>3, <2>4
<1>2. NotEnoughIsTrue'
  BY DEF IInv, NotEnoughIsTrue, NextServer
<1>3. AskedOnce'
  BY DEF IInv, TypeOK, AskedOnce, Shared, Requesting, Asked, NextServer
<1>4. OneYear'
  BY DEF IInv, TypeOK, OneYear, Shared, Active, Requesting, NextServer
<1>5. KeyBacked' /\ ReadingNeedsQuorum'
  BY DEF IInv, KeyBacked, Sources, ReadingNeedsQuorum
<1> QED BY <1>1, <1>2, <1>3, <1>4, <1>5 DEF IInv

\* The same for the second connection.
LEMMA GetPageInv == ASSUME IInv, GetPage, UNCHANGED steady PROVE IInv'
<1> USE DEF GetPage, loop, post, messages, rest, Ends, Goes
<1>1. TypeOK' /\ Counted'
  <2>1. Requesting /\ i <= Len(Servers) /\ success < T
    BY Constants DEF IInv, Counted, Requesting
  <2>2. CASE NextServer(0) /\ Servers[i] \notin steady
    <3>1. i' \in 1 .. Len(Servers) + 1 /\ success' \in 0 .. T /\ Counted'
      BY <2>1, <2>2, CountedOn
    <3> QED BY <2>2, <3>1 DEF IInv, TypeOK, NextServer, Posts, Shares
  <2>3. CASE Goes("password")
    BY <2>1, <2>3 DEF IInv, TypeOK, Counted, Requesting, SteadyBefore, Posts, Shares
  <2> QED BY <2>2, <2>3
<1>2. NotEnoughIsTrue'
  BY DEF IInv, NotEnoughIsTrue, NextServer
<1>3. AskedOnce'
  BY DEF IInv, TypeOK, AskedOnce, Shared, Requesting, Asked, NextServer
<1>4. OneYear'
  BY DEF IInv, TypeOK, OneYear, Shared, Active, Requesting, NextServer
<1>5. KeyBacked' /\ ReadingNeedsQuorum'
  BY DEF IInv, KeyBacked, Sources, ReadingNeedsQuorum
<1> QED BY <1>1, <1>2, <1>3, <1>4, <1>5 DEF IInv

\* A password that cannot be read counts as a success, and taints the request.
LEMMA ReadPasswordInv == ASSUME IInv, ReadPassword, UNCHANGED steady PROVE IInv'
<1> USE DEF ReadPassword, loop, post, messages, rest, Ends, Goes
<1>1. TypeOK' /\ Counted'
  <2>1. Requesting /\ i <= Len(Servers) /\ success < T
    BY Constants DEF IInv, Counted, Requesting
  <2>2. tainted' \subseteq Requests
    <3>1. request \in Requests
      BY <2>1, Constants DEF IInv, TypeOK, Counted, Requests
    <3> QED BY <3>1 DEF IInv, TypeOK
  <2>3. CASE NextServer(1)
    <3>1. i' \in 1 .. Len(Servers) + 1 /\ success' \in 0 .. T /\ Counted'
      BY <2>1, <2>3, CountedOn
    <3> QED BY <2>2, <2>3, <3>1 DEF IInv, TypeOK, NextServer, Posts, Shares
  <2>4. CASE Goes("post")
    BY <2>1, <2>2, <2>4 DEF IInv, TypeOK, Counted, Requesting, SteadyBefore, Posts, Shares
  <2> QED BY <2>3, <2>4
<1>2. NotEnoughIsTrue'
  BY DEF IInv, NotEnoughIsTrue, NextServer
<1>3. AskedOnce'
  BY DEF IInv, TypeOK, AskedOnce, Shared, Requesting, Asked, NextServer
<1>4. OneYear'
  BY DEF IInv, TypeOK, OneYear, Shared, Active, Requesting, NextServer
<1>5. KeyBacked' /\ ReadingNeedsQuorum'
  BY DEF IInv, KeyBacked, Sources, ReadingNeedsQuorum
<1> QED BY <1>1, <1>2, <1>3, <1>4, <1>5 DEF IInv

\* The PKG has not been asked by this request before.
LEMMA PostInv == ASSUME IInv, Post, UNCHANGED steady PROVE IInv'
<1> USE DEF Post, loop, post, messages, rest, Ends, Goes
<1>1. TypeOK'
  <2>1. Servers[i] \in Pkg /\ request \in Requests /\ success \in 0 .. T
    BY Constants, ServersAssumption DEF IInv, TypeOK, Counted, Requesting, Requests
  <2>2. Current \in Posts
    BY <2>1 DEF Current, Posts
  <2>3. posts' \subseteq Posts
    BY <2>2 DEF IInv, TypeOK
  <2> QED BY <2>3, Constants DEF IInv, TypeOK, Shares
<1>2. Counted' /\ NotEnoughIsTrue'
  BY DEF IInv, TypeOK, Counted, Requesting, SteadyBefore, NotEnoughIsTrue
<1>3. AskedOnce'
  <2>1. i \in 1 .. Len(Servers) /\ Current.by = request /\ Current.to = Servers[i]
    BY Constants DEF IInv, TypeOK, Counted, Requesting, Current
  <2>2. request \in Nat /\ 0 < request
    BY Constants DEF IInv, TypeOK, Counted, Requesting
  <2>3. /\ \A p \in posts' : p \in posts \/ p = Current
        /\ Shared' = Shared /\ request' = request
        /\ Requesting' => i' = i /\ stage' = "wait"
    BY DEF Shared, Requesting
  <2>4. (\A p \in posts' : p.by <= request) /\ (\A s \in Shared : s.by <= request)
    BY <2>1, <2>2, <2>3 DEF IInv, AskedOnce
  <2>5. ASSUME NoneListedTwice PROVE Servers[i] \notin Asked
    BY <2>1, <2>5, Constants DEF NoneListedTwice, Asked
  <2>6. ASSUME NoneListedTwice
        PROVE  /\ \A p, q \in posts' : p.by = q.by /\ p.to = q.to => p = q
               /\ \A p \in posts', s \in Shared : p.by = s.by => p.to # s.from
    BY <2>1, <2>3, <2>5, <2>6 DEF IInv, AskedOnce, Requesting
  <2>7. Requesting' => Asked \subseteq Asked' /\ Servers[i] \in Asked'
    BY <2>1, <2>3 DEF Asked
  <2>8. ASSUME NoneListedTwice, Requesting'
        PROVE  /\ \A p \in posts' : p.by = request => p.to \in Asked'
               /\ \A s \in Shared : s.by = request => s.from \in Asked'
    BY <2>1, <2>3, <2>7, <2>8 DEF IInv, AskedOnce, Requesting
  <2> QED BY <2>3, <2>4, <2>6, <2>8 DEF IInv, AskedOnce
<1>4. OneYear'
  <2>1. Active(request) /\ \A p \in posts' : p \in posts \/ p.by = request
    BY DEF Active, Requesting, Current
  <2>2. \A r : Active(r)' => Active(r)
    BY <2>1 DEF Active, Requesting
  <2> QED BY <2>2 DEF IInv, OneYear, Shared
<1>5. KeyBacked' /\ ReadingNeedsQuorum'
  BY DEF IInv, KeyBacked, Sources, ReadingNeedsQuorum
<1> QED BY <1>1, <1>2, <1>3, <1>4, <1>5 DEF IInv

\* The server that has been asked is counted.
LEMMA AnswerInv == ASSUME IInv, Answer, UNCHANGED steady PROVE IInv'
<1> USE DEF Answer, loop, post, messages, rest, Ends, Goes
<1>1. TypeOK' /\ Counted'
  <2>1. Requesting /\ i <= Len(Servers) /\ success < T
    BY Constants DEF IInv, Counted, Requesting
  <2>2. i' \in 1 .. Len(Servers) + 1 /\ success' \in 0 .. T /\ Counted'
    BY <2>1, CountedOn
  <2> QED BY <2>2 DEF IInv, TypeOK, NextServer, Posts, Shares
<1>2. NotEnoughIsTrue'
  BY DEF IInv, NotEnoughIsTrue, NextServer
<1>3. AskedOnce'
  BY DEF IInv, TypeOK, AskedOnce, Shared, Requesting, Asked, NextServer
<1>4. OneYear'
  BY DEF IInv, TypeOK, OneYear, Shared, Active, Requesting, NextServer
<1>5. KeyBacked' /\ ReadingNeedsQuorum'
  BY DEF IInv, KeyBacked, Sources, ReadingNeedsQuorum
<1> QED BY <1>1, <1>2, <1>3, <1>4, <1>5 DEF IInv

\* A stopped command counts no more.
LEMMA InterruptInv == ASSUME IInv, Interrupt, UNCHANGED steady PROVE IInv'
<1> USE DEF Interrupt, loop, post, messages, rest, Ends
<1>1. TypeOK'
  BY Constants DEF IInv, TypeOK, Posts, Shares, Requests
<1>2. Counted' /\ NotEnoughIsTrue'
  BY DEF IInv, TypeOK, Counted, Requesting, SteadyBefore, NotEnoughIsTrue
<1>3. AskedOnce'
  BY DEF IInv, TypeOK, AskedOnce, Shared, Requesting, Asked
<1>4. OneYear'
  BY DEF IInv, TypeOK, OneYear, Shared, Active, Requesting
<1>5. KeyBacked' /\ ReadingNeedsQuorum'
  BY DEF IInv, KeyBacked, Sources, ReadingNeedsQuorum
<1> QED BY <1>1, <1>2, <1>3, <1>4, <1>5 DEF IInv

\* What was a post becomes a share of the year it is now, or nothing.
LEMMA ServeInv == ASSUME IInv, NEW p \in Pkg, Serve(p), UNCHANGED steady PROVE IInv'
<1> USE DEF Serve, loop, post, messages, rest
<1>1. TypeOK'
  BY DEF IInv, TypeOK, Posts, Shares, Requests
<1>2. Counted' /\ NotEnoughIsTrue'
  BY DEF IInv, TypeOK, Counted, Requesting, SteadyBefore, NotEnoughIsTrue
<1>3. AskedOnce'
  BY DEF IInv, TypeOK, AskedOnce, Shared, Requesting, Asked
<1>4. OneYear'
  BY DEF IInv, TypeOK, OneYear, Shared, Active, Requesting
<1>5. KeyBacked' /\ ReadingNeedsQuorum'
  BY DEF IInv, KeyBacked, Sources, ReadingNeedsQuorum
<1> QED BY <1>1, <1>2, <1>3, <1>4, <1>5 DEF IInv

\* A mail arrives or is lost.
LEMMA DeliverInv == ASSUME IInv, NEW m \in mails, Deliver(m), UNCHANGED steady PROVE IInv'
<1> USE DEF Deliver, loop, post, messages, rest
<1>1. TypeOK'
  BY DEF IInv, TypeOK, Posts, Shares, Requests
<1>2. Counted' /\ NotEnoughIsTrue'
  BY DEF IInv, TypeOK, Counted, Requesting, SteadyBefore, NotEnoughIsTrue
<1>3. AskedOnce'
  BY DEF IInv, TypeOK, AskedOnce, Shared, Requesting, Asked
<1>4. OneYear'
  BY DEF IInv, TypeOK, OneYear, Shared, Active, Requesting
<1>5. KeyBacked' /\ ReadingNeedsQuorum'
  <2>1. \A y : /\ Cardinality(Sources(y)) \in Nat /\ Cardinality(Sources(y)') \in Nat
                /\ Cardinality(Sources(y)) <= Cardinality(Sources(y)')
    BY <1>1, SourcesGrow DEF IInv
  <2>2. T \in Nat
    BY Constants
  <2>3. KeyBacked'
    BY <2>1, <2>2 DEF IInv, KeyBacked
  <2>4. ReadingNeedsQuorum'
    BY <2>1, <2>2 DEF IInv, ReadingNeedsQuorum
  <2> QED BY <2>3, <2>4
<1> QED BY <1>1, <1>2, <1>3, <1>4, <1>5 DEF IInv

\* The shares that combine loads are among the files.
LEMMA CombineInv == ASSUME IInv, Combine, UNCHANGED steady PROVE IInv'
<1> USE DEF Combine, loop, post, messages, rest
<1>1. TypeOK'
  BY DEF IInv, TypeOK, Posts, Shares, Requests
<1>2. Counted' /\ NotEnoughIsTrue'
  BY DEF IInv, TypeOK, Counted, Requesting, SteadyBefore, NotEnoughIsTrue
<1>3. AskedOnce'
  BY DEF IInv, TypeOK, AskedOnce, Shared, Requesting, Asked
<1>4. OneYear'
  BY DEF IInv, TypeOK, OneYear, Shared, Active, Requesting
<1>5. KeyBacked' /\ ReadingNeedsQuorum'
  BY DEF IInv, KeyBacked, Sources, ReadingNeedsQuorum
<1> QED BY <1>1, <1>2, <1>3, <1>4, <1>5 DEF IInv

\* Nothing is written.
LEMMA CombineKeepsInv == ASSUME IInv, CombineKeeps, UNCHANGED steady PROVE IInv'
<1> USE DEF CombineKeeps, loop, post, messages, rest
<1>1. TypeOK'
  BY DEF IInv, TypeOK, Posts, Shares, Requests
<1>2. Counted' /\ NotEnoughIsTrue'
  BY DEF IInv, TypeOK, Counted, Requesting, SteadyBefore, NotEnoughIsTrue
<1>3. AskedOnce'
  BY DEF IInv, TypeOK, AskedOnce, Shared, Requesting, Asked
<1>4. OneYear'
  BY DEF IInv, TypeOK, OneYear, Shared, Active, Requesting
<1>5. KeyBacked' /\ ReadingNeedsQuorum'
  BY DEF IInv, KeyBacked, Sources, ReadingNeedsQuorum
<1> QED BY <1>1, <1>2, <1>3, <1>4, <1>5 DEF IInv

\* An empty key file opens nothing.
LEMMA OpenKeyFileInv == ASSUME IInv, OpenKeyFile, UNCHANGED steady PROVE IInv'
<1> USE DEF OpenKeyFile, loop, post, messages, rest
<1>1. TypeOK'
  BY DEF IInv, TypeOK, Posts, Shares, Requests
<1>2. Counted' /\ NotEnoughIsTrue'
  BY DEF IInv, TypeOK, Counted, Requesting, SteadyBefore, NotEnoughIsTrue
<1>3. AskedOnce'
  BY DEF IInv, TypeOK, AskedOnce, Shared, Requesting, Asked
<1>4. OneYear'
  BY DEF IInv, TypeOK, OneYear, Shared, Active, Requesting
<1>5. KeyBacked' /\ ReadingNeedsQuorum'
  BY DEF IInv, KeyBacked, Sources, ReadingNeedsQuorum
<1> QED BY <1>1, <1>2, <1>3, <1>4, <1>5 DEF IInv

\* A key is made of shares that the user has, from T PKGs.
LEMMA SaveKeyInv == ASSUME IInv, SaveKey, UNCHANGED steady PROVE IInv'
<1> USE DEF SaveKey, loop, post, messages, rest
<1>1. TypeOK'
  BY DEF IInv, TypeOK, Posts, Shares, KeyOf
<1>2. Counted' /\ NotEnoughIsTrue'
  BY DEF IInv, TypeOK, Counted, Requesting, SteadyBefore, NotEnoughIsTrue
<1>3. AskedOnce'
  BY DEF IInv, TypeOK, AskedOnce, Shared, Requesting, Asked
<1>4. OneYear'
  BY DEF IInv, TypeOK, OneYear, Shared, Active, Requesting
<1>5. KeyBacked'
  <2> SUFFICES ASSUME NEW y \in KeyOf(kshare) PROVE T <= Cardinality(Sources(y))
    BY DEF KeyBacked, Sources
  <2>1. /\ Sources(y) \in SUBSET Pkg
        /\ {s.from : s \in kshare} \in SUBSET Sources(y)
        /\ Cardinality({s.from : s \in kshare}) = T
    BY DEF IInv, TypeOK, Shares, KeyOf, Sources
  <2> QED BY <2>1, MorePkgs
<1>6. ReadingNeedsQuorum'
  BY DEF IInv, ReadingNeedsQuorum, Sources
<1> QED BY <1>1, <1>2, <1>3, <1>4, <1>5, <1>6 DEF IInv

\* The key file stays empty.
LEMMA SaveKilledInv == ASSUME IInv, SaveKilled, UNCHANGED steady PROVE IInv'
<1> USE DEF SaveKilled, loop, post, messages, rest
<1>1. TypeOK'
  BY DEF IInv, TypeOK, Posts, Shares, Requests
<1>2. Counted' /\ NotEnoughIsTrue'
  BY DEF IInv, TypeOK, Counted, Requesting, SteadyBefore, NotEnoughIsTrue
<1>3. AskedOnce'
  BY DEF IInv, TypeOK, AskedOnce, Shared, Requesting, Asked
<1>4. OneYear'
  BY DEF IInv, TypeOK, OneYear, Shared, Active, Requesting
<1>5. KeyBacked' /\ ReadingNeedsQuorum'
  BY DEF IInv, KeyBacked, Sources, ReadingNeedsQuorum
<1> QED BY <1>1, <1>2, <1>3, <1>4, <1>5 DEF IInv

\* Only the key that is in the file opens anything.
LEMMA DecryptInv == ASSUME IInv, NEW m \in sealed, Decrypt(m), UNCHANGED steady PROVE IInv'
<1> USE DEF Decrypt, loop, post, messages, rest
<1>1. TypeOK'
  BY DEF IInv, TypeOK, Posts, Shares, Requests
<1>2. Counted' /\ NotEnoughIsTrue'
  BY DEF IInv, TypeOK, Counted, Requesting, SteadyBefore, NotEnoughIsTrue
<1>3. AskedOnce'
  BY DEF IInv, TypeOK, AskedOnce, Shared, Requesting, Asked
<1>4. OneYear'
  BY DEF IInv, TypeOK, OneYear, Shared, Active, Requesting
<1>5. KeyBacked'
  BY DEF IInv, KeyBacked, Sources
<1>6. ReadingNeedsQuorum'
  BY DEF IInv, KeyBacked, ReadingNeedsQuorum, Sources
<1> QED BY <1>1, <1>2, <1>3, <1>4, <1>5, <1>6 DEF IInv

(***************************************************************************)
(* The invariant holds in every reachable state.                           *)
(***************************************************************************)
LEMMA NextInv == IInv /\ [Next]_vars => IInv'
<1> SUFFICES ASSUME IInv, [Next]_vars PROVE IInv'
  OBVIOUS
<1>1. CASE (NewYear \/ Encrypt \/ Request) /\ UNCHANGED steady
  BY <1>1, NewYearInv, EncryptInv, RequestInv
<1>2. CASE (Client \/ Interrupt) /\ UNCHANGED steady
  BY <1>2, EnoughInv, NotEnoughInv, ConnectInv, GetPageInv, ReadPasswordInv, PostInv, AnswerInv,
     InterruptInv DEF Client
<1>3. CASE (\E p \in Pkg : Serve(p)) /\ UNCHANGED steady
  BY <1>3, ServeInv
<1>4. CASE (\E m \in mails : Deliver(m)) /\ UNCHANGED steady
  BY <1>4, DeliverInv
<1>5. CASE (Combine \/ CombineKeeps \/ OpenKeyFile \/ SaveKey \/ SaveKilled) /\ UNCHANGED steady
  BY <1>5, CombineInv, CombineKeepsInv, OpenKeyFileInv, SaveKeyInv, SaveKilledInv
<1>6. CASE (\E m \in sealed : Decrypt(m)) /\ UNCHANGED steady
  BY <1>6, DecryptInv
<1>7. CASE UNCHANGED vars
  <2> USE <1>7 DEF vars
  <2>1. TypeOK'
    BY DEF IInv, TypeOK, Posts, Shares
  <2>2. Counted' /\ NotEnoughIsTrue'
    BY DEF IInv, Counted, Requesting, SteadyBefore, NotEnoughIsTrue
  <2>3. AskedOnce'
    BY DEF IInv, AskedOnce, Shared, Requesting, Asked
  <2>4. OneYear'
    BY DEF IInv, OneYear, Shared, Active, Requesting
  <2>5. KeyBacked' /\ ReadingNeedsQuorum'
    BY DEF IInv, KeyBacked, ReadingNeedsQuorum, Sources
  <2> QED BY <2>1, <2>2, <2>3, <2>4, <2>5 DEF IInv
<1> QED BY <1>1, <1>2, <1>3, <1>4, <1>5, <1>6, <1>7 DEF Next

\* The invariant of KeyService, from the first state on.
THEOREM Invariance == Spec => []IInv
<1>1. Init => IInv
  BY InitInv
<1>2. IInv /\ [Next]_vars => IInv'
  BY NextInv
<1> QED BY <1>1, <1>2, PTL DEF Spec

\* The variables of the commands, the PKGs and the files keep their types.
THEOREM TypeCorrect == Spec => []TypeOK
<1>1. IInv => TypeOK
  BY DEF IInv
<1> QED BY <1>1, Invariance, PTL

\* "not enough working servers" (request.c:259) is never said of a list with T
\* steady servers.
THEOREM NotEnoughAlwaysTrue == Spec => []NotEnoughIsTrue
<1>1. IInv => NotEnoughIsTrue
  BY DEF IInv
<1> QED BY <1>1, Invariance, PTL

\* No message is read before T PKGs have given out shares for its id.
THEOREM ReadingAlwaysNeedsQuorum == Spec => []ReadingNeedsQuorum
<1>1. IInv => ReadingNeedsQuorum
  BY DEF IInv
<1> QED BY <1>1, Invariance, PTL

(***************************************************************************)
(* The shares of one request come from as many PKGs as there are shares,   *)
(* and are of one year: T of them make a key.                              *)
(***************************************************************************)
LEMMA SharesMakeKey == IInv => OneRequestSuffices
<1> SUFFICES ASSUME IInv, NoneListedTwice, NEW r \in 1 .. request, r \notin tainted,
                    Cardinality(SharesOf(r)) = T
             PROVE  KeyOf(SharesOf(r)) # {}
  BY DEF OneRequestSuffices
<1> DEFINE F    == SharesOf(r)
           From == {s.from : s \in F}
           f    == [p \in From |-> CHOOSE s \in F : s.from = p]
<1>1. /\ F \subseteq files
      /\ From \in SUBSET Pkg
      /\ \A s, t \in F : s.from = t.from => s = t
      /\ \A s, t \in F : s.year = t.year /\ s.year \in Years
  BY DEF IInv, TypeOK, Shares, SharesOf, AskedOnce, OneYear, Shared
<1>2. IsFiniteSet(From)
  BY <1>1, PkgAssumption, FS_Subset
<1>3. f \in Bijection(From, F)
  <2>1. \A p \in From : f[p] \in F /\ f[p].from = p
    OBVIOUS
  <2>2. \A s \in F : s.from \in From /\ f[s.from] = s
    BY <2>1, <1>1
  <2> HIDE DEF f, From, F
  <2>3. f \in [From -> F]
    BY <2>1 DEF f
  <2>4. f \in Injection(From, F)
    BY <2>1, <2>3 DEF Injection, IsInjective
  <2>5. f \in Surjection(From, F)
    BY <2>2, <2>3 DEF Surjection
  <2> QED BY <2>4, <2>5 DEF Bijection
<1>4. Cardinality(From) = T
  <2>1. Cardinality(F) = Cardinality(From)
    BY <1>2, <1>3, FS_Bijection DEF ExistsBijection
  <2> QED BY <2>1
<1>5. F # {}
  BY FS_EmptySet, Constants
<1>6. PICK s \in F : TRUE
  BY <1>5
<1>7. s.year \in KeyOf(F)
  BY <1>1, <1>4, <1>6 DEF KeyOf
<1> QED BY <1>7

\* What one request brings in makes a key, if none of it is lost.
THEOREM OneRequestAlwaysSuffices == Spec => []OneRequestSuffices
<1>1. IInv => OneRequestSuffices
  BY SharesMakeKey
<1> QED BY <1>1, Invariance, PTL
==============================================================================
