----------------------------- MODULE KeyService -----------------------------
(***************************************************************************)
(* How a user comes by a private key and uses it: ibe encrypt, ibe request *)
(* (request.c), ibe combine (combine.c) and ibe decrypt (decrypt.c), with  *)
(* the key file that FMT_crypt_save writes, the PKGs as they look from     *)
(* outside (PkgServer has their inside), the mail and the calendar.        *)
(*                                                                         *)
(* FMT_make_id puts the current year into every id: an id is a year here,  *)
(* the user being always the same.  The user runs one command at a time,   *)
(* and may stop it at any time.  Shares of one id from T PKGs make the key *)
(* of that id, anything else makes none (ThresholdKeys).                   *)
(***************************************************************************)
EXTENDS Naturals, Sequences, FiniteSets

CONSTANTS
  Pkg,          \* the PKGs, whose share indices differ
  Servers,      \* the parameter "servers" of ibe.cnf
  T,            \* IBE_threshold(params)
  Reach,        \* sets of PKGs that can always be reached, one per behaviour
  Answering,    \* PKGs that end every session sooner or later
  Years,        \* the calendar of the model
  MaxRequests   \* bound on how often the user runs ibe request

ASSUME ServersAssumption == Servers \in Seq(Pkg)
ASSUME TAssumption       == T \in Nat \ {0}
ASSUME PkgAssumption     ==
  IsFiniteSet(Pkg) /\ Reach \subseteq SUBSET Pkg /\ Answering \subseteq Pkg
ASSUME YearsAssumption   == Years \subseteq Nat /\ Years # {}
ASSUME BoundAssumption   == MaxRequests \in Nat

VARIABLES
  steady,    \* the PKGs that can always be reached
  year,      \* what FMT_get_year returns
  stage,     \* where the user's command is, "idle" between commands
  i,         \* request: index of the server that is tried, from 1
  success,   \* request: servers that count as having answered
  request,   \* how many requests have been begun
  tainted,   \* requests during which the year changed or a password failed
  posts,     \* requests that PKGs have got and not finished
  mails,     \* key shares on their way
  files,     \* key shares the user has saved
  kshare,    \* combine: the shares that were loaded
  keyfile,   \* the ids that the key in the key file is for: none or one
  sealed,    \* the ids that messages have been encrypted for
  opened,    \* the ids whose messages the user has read
  outcome    \* how the last request or combine ended

vars == <<steady, year, stage, i, success, request, tainted, posts, mails,
          files, kshare, keyfile, sealed, opened, outcome>>

loop     == <<i, success>>
post     == <<posts, mails>>
messages == <<sealed, opened>>

Init ==
  /\ steady \in Reach
  /\ year \in Years
  /\ stage = "idle"
  /\ i = 1 /\ success = 0
  /\ request = 0
  /\ tainted = {}
  /\ posts = {} /\ mails = {} /\ files = {} /\ kshare = {}
  /\ keyfile = {}
  /\ sealed = {} /\ opened = {}
  /\ outcome = "none"

Requesting == stage \in {"try", "page", "password", "post", "wait"}

NewYear ==
  /\ year + 1 \in Years
  /\ year' = year + 1
  /\ tainted' = tainted \cup {r.by : r \in posts} \cup {r \in {request} : Requesting}
  /\ UNCHANGED <<stage, loop, request, post, files, kshare, keyfile, messages, outcome>>

\* ibe encrypt, by anybody.
Encrypt ==
  /\ sealed' = sealed \cup {year}
  /\ UNCHANGED <<year, stage, loop, request, tainted, post, files, kshare, keyfile,
                 opened, outcome>>
-----------------------------------------------------------------------------
(***************************************************************************)
(* request.c.  single_request returns -1 if the server cannot be reached,  *)
(* but a failing SSL_write ends the whole command (exit), and a password   *)
(* that cannot be read counts as success.                                  *)
(***************************************************************************)
rest == <<year, request, files, kshare, keyfile, messages>>

Request ==
  /\ stage = "idle" /\ request < MaxRequests
  /\ request' = request + 1
  /\ stage' = "try"
  /\ i' = 1 /\ success' = 0
  /\ UNCHANGED <<year, tainted, post, files, kshare, keyfile, messages, outcome>>

Ends(how) == stage' = "idle" /\ outcome' = how /\ i' = 1 /\ success' = 0

NextServer(counts) ==
  /\ stage' = "try"
  /\ i' = i + 1
  /\ success' = success + counts
  /\ UNCHANGED outcome

Goes(to) == stage' = to /\ UNCHANGED <<loop, outcome>>

\* The arrays hostname and port have T elements: beyond them the loop writes
\* over what follows them on the stack.
Overrun == T < i

Enough ==
  /\ stage = "try" /\ success = T
  /\ Ends("asked")
  /\ UNCHANGED <<rest, tainted, post>>

\* A wrong variant of the next action: the loop is over after T servers.
NotEnoughAfterT ==
  /\ stage = "try" /\ success < T /\ (Overrun \/ Len(Servers) < i)
  /\ Ends("notenough")
  /\ UNCHANGED <<rest, tainted, post>>

\* "not enough working servers"
NotEnough ==
  /\ stage = "try" /\ success < T /\ Len(Servers) < i
  /\ Ends("notenough")
  /\ UNCHANGED <<rest, tainted, post>>

\* Name, connection, handshake and GET.
Connect ==
  /\ stage = "try" /\ success < T /\ i <= Len(Servers)
  /\ \/ Goes("page")
     \/ Servers[i] \notin steady /\ (NextServer(0) \/ Ends("died"))
     \/ Overrun /\ Ends("died")
  /\ UNCHANGED <<rest, tainted, post>>

\* The page with the marker, then the second connection.
GetPage ==
  /\ stage = "page"
  /\ \/ Goes("password")
     \/ Servers[i] \notin steady /\ NextServer(0)
  /\ UNCHANGED <<rest, tainted, post>>

ReadPassword ==
  /\ stage = "password"
  /\ \/ Goes("post") /\ UNCHANGED tainted
     \/ NextServer(1) /\ tainted' = tainted \cup {request}
  /\ UNCHANGED <<rest, post>>

\* What a PKG gets: the request it is part of, and which post of it.
Current == [to |-> Servers[i], by |-> request, nr |-> success]

Post ==
  /\ stage = "post"
  /\ \/ Goes("wait") /\ posts' = posts \cup {Current}
     \/ Servers[i] \notin steady /\ Ends("died") /\ UNCHANGED posts
  /\ UNCHANGED <<rest, tainted, mails>>

\* Wrong variants of the next action: the same server is tried again; the
\* server's answer is waited for, not the end of the session.
AnswerAgain ==
  /\ stage = "wait" /\ Current \notin posts
  /\ stage' = "try"
  /\ success' = success + 1
  /\ UNCHANGED <<i, outcome, rest, tainted, post>>

AnswerMailed ==
  /\ stage = "wait" /\ Current \notin posts
  /\ \E m \in mails \cup files : m.by = request /\ m.nr = success
  /\ NextServer(1)
  /\ UNCHANGED <<rest, tainted, post>>

\* The PKG closes the connection; what it said before makes no difference.
Answer ==
  /\ stage = "wait" /\ Current \notin posts
  /\ NextServer(1)
  /\ UNCHANGED <<rest, tainted, post>>

Client == Enough \/ NotEnough \/ Connect \/ GetPage \/ ReadPassword \/ Post \/ Answer

\* The user, or a signal, stops the command.
Interrupt ==
  /\ Requesting
  /\ Ends("died")
  /\ UNCHANGED <<rest, tainted, post>>
-----------------------------------------------------------------------------
(***************************************************************************)
(* pkghtml.c from outside: the id is made with the PKG's clock; the mailer *)
(* may fail.                                                               *)
(***************************************************************************)
Serve(p) ==
  \E r \in posts :
    /\ r.to = p
    /\ posts' = posts \ {r}
    /\ mails' \in {mails, mails \cup {[from |-> p, year |-> year, by |-> r.by, nr |-> r.nr]}}
    /\ UNCHANGED <<year, stage, loop, request, tainted, files, kshare, keyfile,
                   messages, outcome>>

Deliver(m) ==
  /\ mails' = mails \ {m}
  /\ files' \in {files, files \cup {m}}
  /\ UNCHANGED <<year, stage, loop, request, tainted, posts, kshare, keyfile,
                 messages, outcome>>
-----------------------------------------------------------------------------
(***************************************************************************)
(* combine.c: the result of IBE_combine is not looked at.  If it refused,  *)
(* key is not initialized, and FMT_crypt_save writes something or crashes. *)
(***************************************************************************)
\* A wrong variant of the next operator: neither the indices nor the ids of the
\* shares matter.
KeyOfAny(S) == {s.year : s \in S}

\* The years whose keys the shares in S combine to, none or one.
KeyOf(S) ==
  {y \in Years : /\ \A s \in S : s.year = y
                 /\ Cardinality({s.from : s \in S}) = T}

\* FMT_crypt_load of T files, whose passwords the user knows.
Combine ==
  /\ stage = "idle"
  /\ \E S \in SUBSET files : Cardinality(S) = T /\ kshare' = S
  /\ stage' = "combine"
  /\ UNCHANGED <<year, loop, request, tainted, post, files, keyfile, messages, outcome>>

\* The user gives no password for the key, or the file cannot be opened, which
\* is not looked at either.
CombineKeeps ==
  /\ stage = "combine"
  /\ stage' = "idle" /\ kshare' = {}
  /\ UNCHANGED <<year, loop, request, tainted, post, files, keyfile, messages, outcome>>

\* FMT_crypt_save opens the key file, which empties it.
OpenKeyFile ==
  /\ stage = "combine"
  /\ stage' = "save"
  /\ keyfile' = {}
  /\ UNCHANGED <<year, loop, request, tainted, post, files, kshare, messages, outcome>>

\* FMT_crypt_save_fp.
SaveKey ==
  /\ stage = "save"
  /\ keyfile' = KeyOf(kshare)
  /\ stage' = "idle" /\ kshare' = {}
  /\ outcome' = "combined"
  /\ UNCHANGED <<year, loop, request, tainted, post, files, messages>>

SaveKilled ==
  /\ stage = "save"
  /\ stage' = "idle" /\ kshare' = {}
  /\ outcome' = "died"
  /\ UNCHANGED <<year, loop, request, tainted, post, files, keyfile, messages>>

\* ibe decrypt: looks for the id of the current year in the message, then
\* reveals its K with whatever the key file holds.
Decrypt(m) ==
  /\ stage = "idle"
  /\ m \in sealed /\ m = year /\ m \in keyfile
  /\ opened' = opened \cup {m}
  /\ UNCHANGED <<year, stage, loop, request, tainted, post, files, kshare, keyfile,
                 sealed, outcome>>

Next ==
  /\ \/ NewYear \/ Encrypt
     \/ Request \/ Client \/ Interrupt
     \/ \E p \in Pkg : Serve(p)
     \/ \E m \in mails : Deliver(m)
     \/ Combine \/ CombineKeeps \/ OpenKeyFile \/ SaveKey \/ SaveKilled
     \/ \E m \in sealed : Decrypt(m)
  /\ UNCHANGED steady

(***************************************************************************)
(* The user answers when asked for a password, and the command runs; but   *)
(* it has no timeout, so that it goes on only with a PKG that does.        *)
(***************************************************************************)
AnsweredClient ==
  \/ Enough \/ NotEnough \/ ReadPassword \/ Post \/ Answer
  \/ (Connect \/ GetPage) /\ Servers[i] \in Answering

Fairness ==
  /\ WF_vars(AnsweredClient /\ UNCHANGED steady)
  /\ \A p \in Answering : WF_vars(Serve(p) /\ UNCHANGED steady)

Spec == Init /\ [][Next]_vars /\ Fairness
-----------------------------------------------------------------------------
Requests == 1 .. MaxRequests
Posts    == [to : Pkg, by : Requests, nr : 0 .. T]
Shares   == [from : Pkg, year : Years, by : Requests, nr : 0 .. T]

\* The variables hold what the commands, the PKGs and the files can.
TypeOK ==
  /\ steady \in Reach
  /\ year \in Years
  /\ stage \in {"idle", "try", "page", "password", "post", "wait", "combine", "save"}
  /\ i \in 1 .. Len(Servers) + 1 /\ success \in 0 .. T
  /\ request \in 0 .. MaxRequests /\ tainted \subseteq Requests
  /\ posts \subseteq Posts
  /\ mails \subseteq Shares /\ files \subseteq Shares /\ kshare \subseteq files
  /\ keyfile \subseteq Years
  /\ sealed \subseteq Years /\ opened \subseteq sealed
  /\ outcome \in {"none", "asked", "notenough", "died", "combined"}

(***************************************************************************)
(* A request gives up only when it is true that there are "not enough      *)
(* working servers" (request.c:259), wherever in the list the working ones *)
(* are and whatever fails before them.                                     *)
(***************************************************************************)
NotEnoughIsTrue ==
  outcome = "notenough" => Cardinality({k \in DOMAIN Servers : Servers[k] \in steady}) < T

(***************************************************************************)
(* The shares that one request brings in, if T of them arrive, make a key, *)
(* unless a password failed or the year changed meanwhile.  (Shares of two *)
(* requests need not: see CombineMakesKey.)                                *)
(***************************************************************************)
SharesOf(r) == {m \in files : m.by = r}

NoneListedTwice == \A j, k \in DOMAIN Servers : Servers[j] = Servers[k] => j = k

OneRequestSuffices ==
  NoneListedTwice =>
    \A r \in 1 .. request :
      r \notin tainted /\ Cardinality(SharesOf(r)) = T => KeyOf(SharesOf(r)) # {}

(***************************************************************************)
(* Nobody reads a message before T different PKGs have given out shares    *)
(* for its id, whatever was requested twice, lost or combined wrongly.     *)
(***************************************************************************)
Sources(y) == {m.from : m \in {f \in files : f.year = y}}

ReadingNeedsQuorum == \A m \in opened : T <= Cardinality(Sources(m))

(***************************************************************************)
(* Behind the invariants above: success counts at least the steady servers *)
(* that were tried; a request has at most one share of each PKG, asked for *)
(* in the order of the list; its shares are all of one year; a key comes   *)
(* from a quorum.                                                          *)
(***************************************************************************)
SteadyBefore(n) == {k \in 1 .. n - 1 : Servers[k] \in steady}

Counted ==
  Requesting =>
    /\ 0 < request /\ Cardinality(SteadyBefore(i)) <= success
    /\ stage # "try" => i <= Len(Servers) /\ success < T

Shared == mails \cup files

\* The servers the current request has asked by now.
Asked == {Servers[k] : k \in 1 .. (IF stage = "wait" THEN i ELSE i - 1)}

AskedOnce ==
  /\ \A p \in posts : p.by <= request
  /\ \A s \in Shared : s.by <= request
  /\ NoneListedTwice =>
       /\ \A p, q \in posts : p.by = q.by /\ p.to = q.to => p = q
       /\ \A p \in posts, s \in Shared : p.by = s.by => p.to # s.from
       /\ \A s, t \in Shared : s.by = t.by /\ s.from = t.from => s = t
       /\ Requesting => /\ \A p \in posts : p.by = request => p.to \in Asked
                        /\ \A s \in Shared : s.by = request => s.from \in Asked

Active(r) == (Requesting /\ r = request) \/ \E p \in posts : p.by = r

OneYear ==
  \A s \in Shared :
    s.by \notin tainted =>
      /\ \A t \in Shared : s.by = t.by => s.year = t.year
      /\ Active(s.by) => s.year = year

KeyBacked == \A y \in keyfile : T <= Cardinality(Sources(y))

IInv ==
  /\ TypeOK /\ Counted /\ NotEnoughIsTrue /\ AskedOnce /\ OneYear /\ KeyBacked
  /\ ReadingNeedsQuorum

\* A request ends, unless it is waiting for a PKG that never answers.
Stuck == i <= Len(Servers) /\ Servers[i] \notin Answering

RequestEnds == Requesting ~> (~ Requesting \/ Stuck)

(***************************************************************************)
(* "The combine command combines files given out by private key generators *)
(* into a private key" (ibe_help.txt:84-85).                               *)
(***************************************************************************)
CombineMakesKey == outcome = "combined" => keyfile # {}
=============================================================================
