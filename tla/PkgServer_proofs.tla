-------------------------- MODULE PkgServer_proofs --------------------------
(***************************************************************************)
(* The safety of PkgServer for any number of clients and any ids.          *)
(***************************************************************************)
EXTENDS PkgServer, SequenceTheorems, TLAPS

(***************************************************************************)
(* Nothing is queued, read, listed or mailed when main has called listen.  *)
(***************************************************************************)
LEMMA InitInv == Init => IInv
<1> SUFFICES ASSUME Init PROVE IInv
  OBVIOUS
<1>1. /\ backlog \in Seq(Client) /\ Len(backlog) = 0
      /\ banned \in Seq(Ids \cup {Garbled}) /\ Len(banned) = 0
      /\ torn = FALSE /\ failed = FALSE
  BY DEF Init
<1>2. TypeOK
  <2>1. sigchld \in BOOLEAN /\ handler \in BOOLEAN
    BY DEF Init
  <2>2. child \in [Client -> Stages] /\ id \in [Client -> Ids \cup {None}]
    BY DEF Init, Stages
  <2>3. pos \in [Client -> 0 .. Len(banned)] /\ start \in [Client -> 0 .. Len(banned)]
    BY <1>1 DEF Init
  <2>4. said \in [Client -> Answers \cup {"nothing"}]
    BY DEF Init
  <2>5. fds \subseteq Client /\ warned \subseteq Client /\ mailed \subseteq Client
    BY DEF Init
  <2> QED BY <1>1, <2>1, <2>2, <2>3, <2>4, <2>5 DEF Init, TypeOK
<1>3. QueuedOnce /\ StartsAfresh /\ Identified /\ ScannedSoFar
  BY <1>1 DEF Init, QueuedOnce, StartsAfresh, Identified, ScannedSoFar
<1>4. RecordedFirst
  BY DEF Init, RecordedFirst, Recorded
<1>5. MailedLast /\ MailedIsRecorded
  BY DEF Init, MailedLast, MailedIsRecorded, Recorded
<1>6. EarlierIsNoticed
  BY DEF Init, EarlierIsNoticed
<1>7. TornByFailure
  BY <1>1 DEF TornByFailure
<1> QED BY <1>2, <1>3, <1>4, <1>5, <1>6, <1>7 DEF IInv

(***************************************************************************)
(* A connection is queued behind others that it is not one of.             *)
(***************************************************************************)
LEMMA ConnectInv == ASSUME IInv, NEW c \in Client, Connect(c) PROVE IInv'
<1> USE DEF Connect, server, signals, session, files, list
<1>1. TypeOK'
  BY DEF IInv, TypeOK, Stages
<1>2. QueuedOnce'
  <2>1. /\ backlog \in Seq(Client) /\ Len(backlog) \in Nat /\ Len(backlog') = Len(backlog) + 1
        /\ \A k \in 1 .. Len(backlog) : backlog'[k] = backlog[k] /\ backlog[k] # c
        /\ backlog'[Len(backlog) + 1] = c
    BY DEF IInv, TypeOK, QueuedOnce
  <2>2. \A k \in 1 .. Len(backlog') : k \in 1 .. Len(backlog) \/ k = Len(backlog) + 1
    BY <2>1
  <2>3. child'[c] = "queued" /\ \A d \in Client \ {c} : child'[d] = child[d]
    BY DEF IInv, TypeOK
  <2> QED BY <2>1, <2>2, <2>3 DEF IInv, TypeOK, QueuedOnce
<1>3. StartsAfresh'
  BY DEF IInv, TypeOK, StartsAfresh
<1>4. Identified'
  BY DEF IInv, TypeOK, Identified
<1>5. ScannedSoFar'
  BY DEF IInv, TypeOK, ScannedSoFar
<1>6. RecordedFirst'
  BY DEF IInv, TypeOK, RecordedFirst, Recorded
<1>7. MailedLast'
  BY DEF IInv, TypeOK, MailedLast
<1>8. MailedIsRecorded'
  BY DEF IInv, TypeOK, MailedIsRecorded, Recorded
<1>9. EarlierIsNoticed'
  BY DEF IInv, TypeOK, EarlierIsNoticed
<1>10. TornByFailure'
  BY Zenon DEF IInv, TornByFailure
<1> QED
  BY <1>1, <1>2, <1>3, <1>4, <1>5, <1>6, <1>7, <1>8, <1>9, <1>10 DEF IInv

(***************************************************************************)
(* main takes the first connection: no other place in the queue holds it.  *)
(***************************************************************************)
LEMMA AcceptInv == ASSUME IInv, Accept PROVE IInv'
<1> USE DEF Accept, server, signals, session, files, list
<1>1. TypeOK'
  BY DEF IInv, TypeOK, Stages
<1>2. QueuedOnce'
  BY DEF IInv, TypeOK, QueuedOnce
<1>3. StartsAfresh'
  BY DEF IInv, TypeOK, StartsAfresh
<1>4. Identified'
  BY DEF IInv, TypeOK, Identified
<1>5. ScannedSoFar'
  BY DEF IInv, TypeOK, ScannedSoFar
<1>6. RecordedFirst'
  BY DEF IInv, TypeOK, RecordedFirst, Recorded
<1>7. MailedLast'
  BY DEF IInv, TypeOK, MailedLast
<1>8. MailedIsRecorded'
  BY DEF IInv, TypeOK, MailedIsRecorded, Recorded
<1>9. EarlierIsNoticed'
  BY DEF IInv, TypeOK, EarlierIsNoticed
<1>10. TornByFailure'
  BY Zenon DEF IInv, TornByFailure
<1> QED
  BY <1>1, <1>2, <1>3, <1>4, <1>5, <1>6, <1>7, <1>8, <1>9, <1>10 DEF IInv

(***************************************************************************)
(* The connection that is forked for has had no session yet.               *)
(***************************************************************************)
LEMMA ForkInv == ASSUME IInv, Fork PROVE IInv'
<1> USE DEF Fork, server, signals, session, files, list
<1>1. TypeOK'
  BY DEF IInv, TypeOK, Stages, Reading, Gone
<1>2. QueuedOnce'
  BY DEF IInv, TypeOK, QueuedOnce
<1>3. StartsAfresh'
  BY DEF IInv, TypeOK, StartsAfresh, Reading, QueuedOnce
<1>4. Identified'
  BY DEF IInv, TypeOK, Identified, Reading, QueuedOnce
<1>5. ScannedSoFar'
  BY DEF IInv, TypeOK, ScannedSoFar, Reading, QueuedOnce
<1>6. RecordedFirst'
  BY DEF IInv, TypeOK, RecordedFirst, QueuedOnce, Recorded
<1>7. MailedLast'
  BY DEF IInv, TypeOK, MailedLast, QueuedOnce
<1>8. MailedIsRecorded'
  BY DEF IInv, TypeOK, MailedIsRecorded, QueuedOnce, Recorded
<1>9. EarlierIsNoticed'
  BY DEF IInv, TypeOK, EarlierIsNoticed, QueuedOnce
<1>10. TornByFailure'
  BY Zenon DEF IInv, TornByFailure
<1> QED
  BY <1>1, <1>2, <1>3, <1>4, <1>5, <1>6, <1>7, <1>8, <1>9, <1>10 DEF IInv

(***************************************************************************)
(* main lets a connection go: sessions are not affected.                   *)
(***************************************************************************)
LEMMA CloseInv == ASSUME IInv, Close PROVE IInv'
<1> USE DEF Close, server, signals, session, files, list
<1>1. TypeOK'
  BY DEF IInv, TypeOK, Stages
<1>2. QueuedOnce'
  BY DEF IInv, TypeOK, QueuedOnce
<1>3. StartsAfresh'
  BY DEF IInv, TypeOK, StartsAfresh
<1>4. Identified'
  BY DEF IInv, TypeOK, Identified
<1>5. ScannedSoFar'
  BY DEF IInv, TypeOK, ScannedSoFar
<1>6. RecordedFirst'
  BY DEF IInv, TypeOK, RecordedFirst, Recorded
<1>7. MailedLast'
  BY DEF IInv, TypeOK, MailedLast
<1>8. MailedIsRecorded'
  BY DEF IInv, TypeOK, MailedIsRecorded, Recorded
<1>9. EarlierIsNoticed'
  BY DEF IInv, TypeOK, EarlierIsNoticed
<1>10. TornByFailure'
  BY Zenon DEF IInv, TornByFailure
<1> QED
  BY <1>1, <1>2, <1>3, <1>4, <1>5, <1>6, <1>7, <1>8, <1>9, <1>10 DEF IInv

(***************************************************************************)
(* The end of the server takes with it what has ended already, and the     *)
(* connection that it was about to fork for.                               *)
(***************************************************************************)
LEMMA DiesInv == ASSUME IInv, Dies PROVE IInv'
<1>moved. /\ UNCHANGED <<backlog, session, files>> /\ parent' = "dead"
          /\ child' \in [Client -> Stages]
          /\ \A d \in Client : \/ child'[d] = child[d]
                               \/ child[d] = "zombie" /\ child'[d] = "reaped"
                               \/ /\ child[d] = "queued" /\ child'[d] = "refused"
                                  /\ parent = "fork" /\ d = newfd
  <2>1. \A d \in Client :
          child'[d] = IF child[d] = "zombie" THEN "reaped"
                      ELSE IF parent = "fork" /\ d = newfd THEN "refused" ELSE child[d]
    BY DEF Dies
  <2>2. child' \in [Client -> Stages]
    BY DEF Dies, IInv, TypeOK, Stages, Gone
  <2>3. parent = "fork" => child[newfd] = "queued"
    BY DEF IInv, QueuedOnce
  <2> QED BY <2>1, <2>2, <2>3 DEF Dies
<1> USE DEF session, files, list
<1>1. TypeOK'
  BY <1>moved DEF Dies, IInv, TypeOK
<1>2. QueuedOnce'
  <2>1. \A k \in 1 .. Len(backlog) :
          backlog[k] \in Client /\ (parent = "fork" => backlog[k] # newfd)
    BY DEF IInv, TypeOK, QueuedOnce
  <2>2. \A k \in 1 .. Len(backlog) : child'[backlog[k]] = "queued"
    BY <1>moved, <2>1 DEF IInv, QueuedOnce
  <2> QED BY <1>moved, <2>2 DEF IInv, QueuedOnce
<1>3. StartsAfresh'
  BY <1>moved DEF IInv, TypeOK, StartsAfresh, Reading
<1>4. Identified'
  BY <1>moved DEF IInv, TypeOK, Identified
<1>5. ScannedSoFar'
  BY <1>moved DEF IInv, TypeOK, ScannedSoFar
<1>6. RecordedFirst'
  BY <1>moved DEF IInv, TypeOK, RecordedFirst, Recorded
<1>7. MailedLast'
  BY <1>moved DEF IInv, TypeOK, MailedLast
<1>8. MailedIsRecorded'
  BY <1>moved DEF IInv, TypeOK, MailedIsRecorded, Recorded
<1>9. EarlierIsNoticed'
  BY <1>moved DEF IInv, TypeOK, EarlierIsNoticed
<1>10. TornByFailure'
  BY <1>moved, Zenon DEF IInv, TornByFailure
<1> QED
  BY <1>1, <1>2, <1>3, <1>4, <1>5, <1>6, <1>7, <1>8, <1>9, <1>10 DEF IInv

(***************************************************************************)
(* A new server has nothing queued.                                        *)
(***************************************************************************)
LEMMA RestartInv == ASSUME IInv, Restart PROVE IInv'
<1>moved. /\ UNCHANGED <<newfd, fds, signals, session, files>>
          /\ parent' = "accept" /\ backlog' = <<>>
          /\ child' \in [Client -> Stages]
          /\ \A d \in Client : \/ child'[d] = child[d]
                               \/ child[d] = "queued" /\ child'[d] = "refused"
  <2>1. \A d \in Client : child'[d] = IF child[d] = "queued" THEN "refused" ELSE child[d]
    BY DEF Restart
  <2>2. child' \in [Client -> Stages]
    BY DEF Restart, IInv, TypeOK, Stages, Gone
  <2> QED BY <2>1, <2>2 DEF Restart
<1> USE DEF signals, session, files, list
<1>1. TypeOK'
  BY <1>moved DEF IInv, TypeOK
<1>2. QueuedOnce'
  BY <1>moved DEF QueuedOnce
<1>3. StartsAfresh'
  BY <1>moved DEF IInv, TypeOK, StartsAfresh, Reading
<1>4. Identified'
  BY <1>moved DEF IInv, TypeOK, Identified
<1>5. ScannedSoFar'
  BY <1>moved DEF IInv, TypeOK, ScannedSoFar
<1>6. RecordedFirst'
  BY <1>moved DEF IInv, TypeOK, RecordedFirst, Recorded
<1>7. MailedLast'
  BY <1>moved DEF IInv, TypeOK, MailedLast
<1>8. MailedIsRecorded'
  BY <1>moved DEF IInv, TypeOK, MailedIsRecorded, Recorded
<1>9. EarlierIsNoticed'
  BY <1>moved DEF IInv, TypeOK, EarlierIsNoticed
<1>10. TornByFailure'
  BY <1>moved, Zenon DEF IInv, TornByFailure
<1> QED
  BY <1>1, <1>2, <1>3, <1>4, <1>5, <1>6, <1>7, <1>8, <1>9, <1>10 DEF IInv

(***************************************************************************)
(* The handler touches ended sessions only.                                *)
(***************************************************************************)
LEMMA HandlerInv == ASSUME IInv, Handler \/ SigChildHangs PROVE IInv'
<1> USE DEF Handler, SigChildHangs, SigChildEnter, SigChildReap, SigChildLeave, server, signals, session, files, list
<1>1. TypeOK'
  BY DEF IInv, TypeOK, Stages, Gone
<1>2. QueuedOnce'
  <2>1. \A d \in Client : child[d] = "queued" => child'[d] = "queued"
    BY DEF IInv, TypeOK
  <2>2. /\ UNCHANGED <<backlog, newfd>> /\ (parent' = "fork" => parent = "fork")
        /\ \A k \in 1 .. Len(backlog) : backlog[k] \in Client
    BY DEF IInv, TypeOK
  <2> HIDE DEF Handler, SigChildHangs
  <2> QED BY <2>1, <2>2 DEF IInv, QueuedOnce
<1>3. StartsAfresh'
  BY DEF IInv, TypeOK, StartsAfresh, Reading
<1>4. Identified'
  BY DEF IInv, TypeOK, Identified, Reading
<1>5. ScannedSoFar'
  BY DEF IInv, TypeOK, ScannedSoFar, Reading
<1>6. RecordedFirst'
  <2>1. \A d \in Client : child'[d] \in {"popen", "mail", "mailed"} => child'[d] = child[d]
    BY DEF IInv, TypeOK
  <2>2. UNCHANGED <<banned, failed, id, warned>>
    OBVIOUS
  <2> HIDE DEF Handler, SigChildHangs
  <2> QED BY <2>1, <2>2 DEF IInv, RecordedFirst, Recorded
<1>7. MailedLast'
  BY DEF IInv, TypeOK, MailedLast
<1>8. MailedIsRecorded'
  BY DEF IInv, TypeOK, MailedIsRecorded, Recorded
<1>9. EarlierIsNoticed'
  BY DEF IInv, TypeOK, EarlierIsNoticed
<1>10. TornByFailure'
  BY Zenon DEF IInv, TornByFailure
<1> QED
  BY <1>1, <1>2, <1>3, <1>4, <1>5, <1>6, <1>7, <1>8, <1>9, <1>10 DEF IInv

(***************************************************************************)
(* A session has nothing read of the banned file while it reads its        *)
(* request.                                                                *)
(***************************************************************************)
LEMMA ReadLineInv == ASSUME IInv, NEW c \in Client, ReadLine(c) \/ ReadHeaders(c) PROVE IInv'
<1> USE DEF ReadLine, ReadHeaders, Ahead, Goto, Ends, server, signals, session, files, list
<1>1. TypeOK'
  BY DEF IInv, TypeOK, Stages, Reading, Working, Answers, Gone
<1>2. QueuedOnce'
  BY DEF IInv, TypeOK, QueuedOnce
<1>3. StartsAfresh'
  BY DEF IInv, TypeOK, StartsAfresh, Reading
<1>4. Identified'
  BY DEF IInv, TypeOK, Identified, Reading
<1>5. ScannedSoFar'
  BY DEF IInv, TypeOK, ScannedSoFar, Reading
<1>6. RecordedFirst'
  BY DEF IInv, TypeOK, RecordedFirst, Recorded
<1>7. MailedLast'
  BY DEF IInv, TypeOK, MailedLast
<1>8. MailedIsRecorded'
  BY DEF IInv, TypeOK, MailedIsRecorded, Recorded
<1>9. EarlierIsNoticed'
  BY DEF IInv, TypeOK, EarlierIsNoticed
<1>10. TornByFailure'
  BY Zenon DEF IInv, TornByFailure
<1> QED
  BY <1>1, <1>2, <1>3, <1>4, <1>5, <1>6, <1>7, <1>8, <1>9, <1>10 DEF IInv

(***************************************************************************)
(* The id is computed before anything is looked up or mailed for it.       *)
(***************************************************************************)
LEMMA ReadBodyInv == ASSUME IInv, NEW c \in Client, ReadBody(c) PROVE IInv'
<1> USE DEF ReadBody, Ahead, Goto, Ends, server, signals, session, files, list
<1>1. TypeOK'
  BY DEF IInv, TypeOK, Stages, Reading, Working, Answers, Gone
<1>2. QueuedOnce'
  BY DEF IInv, TypeOK, QueuedOnce
<1>3. StartsAfresh'
  BY DEF IInv, TypeOK, StartsAfresh, Reading
<1>4. Identified'
  BY DEF IInv, TypeOK, Identified, Reading
<1>5. ScannedSoFar'
  BY DEF IInv, TypeOK, ScannedSoFar, Reading
<1>6. RecordedFirst'
  BY DEF IInv, TypeOK, RecordedFirst, Recorded
<1>7. MailedLast'
  BY DEF IInv, TypeOK, MailedLast
<1>8. MailedIsRecorded'
  <2>1. c \notin mailed
    BY DEF IInv, MailedLast
  <2> QED BY <2>1 DEF IInv, TypeOK, MailedIsRecorded, Recorded
<1>9. EarlierIsNoticed'
  BY DEF IInv, TypeOK, EarlierIsNoticed
<1>10. TornByFailure'
  BY Zenon DEF IInv, TornByFailure
<1> QED
  BY <1>1, <1>2, <1>3, <1>4, <1>5, <1>6, <1>7, <1>8, <1>9, <1>10 DEF IInv

(***************************************************************************)
(* The file opened is the one that is there, or there is a warning.        *)
(***************************************************************************)
LEMMA OpenBannedInv == ASSUME IInv, NEW c \in Client, OpenBanned(c) PROVE IInv'
<1> USE DEF OpenBanned, Ahead, Goto, Ends, server, signals, session, files, list
<1>1. TypeOK'
  <2>1. child' \in [Client -> Stages]
    BY DEF IInv, TypeOK, Stages, Working
  <2>2. start' \in [Client -> 0 .. Len(banned)]
    <3>1. start \in [Client -> 0 .. Len(banned)] /\ Len(banned) \in 0 .. Len(banned)
      BY DEF IInv, TypeOK
    <3>2. start' = start \/ start' = [start EXCEPT ![c] = Len(banned)]
      OBVIOUS
    <3> QED BY <3>1, <3>2
  <2>3. warned' \subseteq Client
    <3>1. warned \subseteq Client
      BY DEF IInv, TypeOK
    <3>2. warned' = warned \/ warned' = warned \cup {c}
      OBVIOUS
    <3> QED BY <3>1, <3>2
  <2> QED BY <2>1, <2>2, <2>3 DEF IInv, TypeOK
<1>2. QueuedOnce'
  BY DEF IInv, TypeOK, QueuedOnce
<1>3. StartsAfresh'
  BY DEF IInv, TypeOK, StartsAfresh, Reading
<1>4. Identified'
  BY DEF IInv, TypeOK, Identified, Reading
<1>5. ScannedSoFar'
  <2>1. pos[c] = 0 /\ c \notin warned
    BY DEF IInv, StartsAfresh
  <2> QED BY <2>1 DEF IInv, TypeOK, ScannedSoFar
<1>6. RecordedFirst'
  BY DEF IInv, TypeOK, RecordedFirst, StartsAfresh, Recorded
<1>7. MailedLast'
  BY DEF IInv, TypeOK, MailedLast, StartsAfresh
<1>8. MailedIsRecorded'
  BY DEF IInv, TypeOK, MailedIsRecorded, StartsAfresh, Recorded
<1>9. EarlierIsNoticed'
  BY DEF IInv, TypeOK, EarlierIsNoticed, StartsAfresh
<1>10. TornByFailure'
  BY Zenon DEF IInv, TornByFailure
<1> QED
  BY <1>1, <1>2, <1>3, <1>4, <1>5, <1>6, <1>7, <1>8, <1>9, <1>10 DEF IInv

(***************************************************************************)
(* A line is compared: there is a warning, or it differs.                  *)
(***************************************************************************)
LEMMA ScanBannedInv == ASSUME IInv, NEW c \in Client, ScanBanned(c) PROVE IInv'
<1> USE DEF ScanBanned, Ahead, Goto, Ends, server, signals, session, files, list
<1>1. TypeOK'
  <2>1. child' \in [Client -> Stages]
    BY DEF IInv, TypeOK, Stages, Working
  <2>2. pos' \in [Client -> 0 .. Len(banned)] /\ warned' \subseteq Client
    BY DEF IInv, TypeOK
  <2> QED BY <2>1, <2>2 DEF IInv, TypeOK
<1>2. QueuedOnce'
  BY DEF IInv, TypeOK, QueuedOnce
<1>3. StartsAfresh'
  BY DEF IInv, TypeOK, StartsAfresh, Reading
<1>4. Identified'
  BY DEF IInv, TypeOK, Identified, Reading
<1>5. ScannedSoFar'
  BY DEF IInv, TypeOK, ScannedSoFar, Reading
<1>6. RecordedFirst'
  BY DEF IInv, TypeOK, RecordedFirst, ScannedSoFar, Recorded
<1>7. MailedLast'
  BY DEF IInv, TypeOK, MailedLast, ScannedSoFar
<1>8. MailedIsRecorded'
  BY DEF IInv, TypeOK, MailedIsRecorded, ScannedSoFar, Recorded
<1>9. EarlierIsNoticed'
  BY DEF IInv, TypeOK, EarlierIsNoticed, ScannedSoFar
<1>10. TornByFailure'
  BY Zenon DEF IInv, TornByFailure
<1> QED
  BY <1>1, <1>2, <1>3, <1>4, <1>5, <1>6, <1>7, <1>8, <1>9, <1>10 DEF IInv

(***************************************************************************)
(* At the end of the file all that was there at the start has been         *)
(* compared.                                                               *)
(***************************************************************************)
LEMMA ScanEndsInv == ASSUME IInv, NEW c \in Client, ScanEnds(c) PROVE IInv'
<1> USE DEF ScanEnds, Ahead, Goto, Ends, server, signals, session, files, list
<1>1. TypeOK'
  BY DEF IInv, TypeOK, Stages, Working
<1>2. QueuedOnce'
  BY DEF IInv, TypeOK, QueuedOnce
<1>3. StartsAfresh'
  BY DEF IInv, TypeOK, StartsAfresh, Reading
<1>4. Identified'
  BY DEF IInv, TypeOK, Identified, Reading
<1>5. ScannedSoFar'
  BY DEF IInv, TypeOK, ScannedSoFar, Reading
<1>6. RecordedFirst'
  BY DEF IInv, TypeOK, RecordedFirst, ScannedSoFar, Recorded
<1>7. MailedLast'
  BY DEF IInv, TypeOK, MailedLast, ScannedSoFar
<1>8. MailedIsRecorded'
  BY DEF IInv, TypeOK, MailedIsRecorded, ScannedSoFar, Recorded
<1>9. EarlierIsNoticed'
  BY DEF IInv, TypeOK, EarlierIsNoticed, ScannedSoFar
<1>10. TornByFailure'
  BY Zenon DEF IInv, TornByFailure
<1> QED
  BY <1>1, <1>2, <1>3, <1>4, <1>5, <1>6, <1>7, <1>8, <1>9, <1>10 DEF IInv

(***************************************************************************)
(* The file grows at its end, by the id that is about to be mailed for; if *)
(* it does not, there is a warning, or a write has failed.                 *)
(***************************************************************************)
LEMMA AppendBannedInv == ASSUME IInv, NEW c \in Client, AppendBanned(c) PROVE IInv'
<1>moved. /\ child' = [child EXCEPT ![c] = "popen"] /\ child[c] = "append"
          /\ UNCHANGED <<server, signals, id, pos, start, said, mailed>>
  BY DEF AppendBanned, Ahead, Goto
<1>typed. banned \in Seq(Ids \cup {Garbled}) /\ Len(banned) \in Nat /\ id[c] \in Ids
  BY <1>moved DEF IInv, TypeOK, Identified
<1>torn. torn => failed
  BY Zenon DEF IInv, TornByFailure
<1>flags. /\ torn' \in BOOLEAN /\ failed' \in BOOLEAN
          /\ torn' => failed'
          /\ failed => failed'
  <2>1. torn \in BOOLEAN /\ failed \in BOOLEAN
    BY DEF IInv, TypeOK
  <2>2. CASE Written(c)
    BY <2>1, <2>2, Zenon DEF Written
  <2>3. CASE WriteFails
    BY <2>1, <2>3 DEF WriteFails
  <2>4. CASE UNCHANGED list
    BY <1>torn, <2>1, <2>4, Zenon DEF list
  <2> QED BY <2>2, <2>3, <2>4 DEF AppendBanned
<1>grown. /\ banned' \in Seq(Ids \cup {Garbled}) /\ Len(banned') \in Nat /\ Len(banned) <= Len(banned')
          /\ \A k \in 1 .. Len(banned) : banned'[k] = banned[k]
          /\ warned' \in {warned, warned \cup {c}}
          /\ ~ failed' => c \in warned' \/ \E k \in 1 .. Len(banned') : banned'[k] = id[c]
  <2>1. CASE Written(c) /\ UNCHANGED warned
    <3>1. PICK e \in IF torn THEN Ids \cup {Garbled} ELSE {id[c]} : banned' = Append(banned, e)
      BY <2>1, Zenon DEF Written
    <3>2. ~ failed' => e = id[c]
      BY <1>torn, <2>1, <3>1 DEF Written
    <3>e. e \in Ids \cup {Garbled}
      BY <1>typed, <3>1
    <3>3. /\ banned' \in Seq(Ids \cup {Garbled}) /\ Len(banned') = Len(banned) + 1
          /\ \A k \in 1 .. Len(banned) : banned'[k] = banned[k]
          /\ banned'[Len(banned) + 1] = e
      BY <1>typed, <3>1, <3>e
    <3>4. Len(banned) + 1 \in 1 .. Len(banned')
      BY <1>typed, <3>3
    <3>5. ~ failed' => \E k \in 1 .. Len(banned') : banned'[k] = id[c]
      BY <3>2, <3>3, <3>4, Zenon
    <3> QED BY <1>typed, <2>1, <3>3, <3>5
  <2>2. CASE WriteFails /\ UNCHANGED warned
    BY <1>typed, <2>2 DEF WriteFails
  <2>3. CASE warned' = warned \cup {c} /\ UNCHANGED list
    BY <1>typed, <2>3 DEF list
  <2> QED BY <2>1, <2>2, <2>3 DEF AppendBanned
<1>warned. warned \subseteq warned' /\ warned' \subseteq warned \cup {c} /\ warned' \subseteq Client
  BY <1>grown DEF IInv, TypeOK
<1> USE DEF server, signals
<1>1. TypeOK'
  BY <1>flags, <1>grown, <1>warned, <1>moved DEF IInv, TypeOK, Stages, Working
<1>2. QueuedOnce'
  BY <1>moved DEF IInv, TypeOK, QueuedOnce
<1>3. StartsAfresh'
  BY <1>grown, <1>warned, <1>moved DEF IInv, TypeOK, StartsAfresh, Reading
<1>4. Identified'
  BY <1>moved DEF IInv, TypeOK, Identified, Reading
<1>5. ScannedSoFar'
  <2> SUFFICES ASSUME NEW d \in Client
               PROVE  /\ child'[d] \in {"scan", "append"} =>
                           d \notin warned' /\ \A k \in 1 .. pos[d] : banned'[k] # id[d]
                      /\ child'[d] = "append" => start[d] <= pos[d]
    BY <1>moved DEF ScannedSoFar
  <2>1. CASE d = c
    BY <1>moved, <2>1 DEF IInv, TypeOK
  <2>2. CASE d # c
    <3>1. child'[d] = child[d] /\ (d \in warned' => d \in warned)
      BY <1>warned, <1>moved, <2>2 DEF IInv, TypeOK
    <3>2. \A k \in 1 .. pos[d] : k \in 1 .. Len(banned)
      BY DEF IInv, TypeOK
    <3> QED BY <1>grown, <3>1, <3>2 DEF IInv, ScannedSoFar
  <2> QED BY <2>1, <2>2
<1>live. ~ failed' => ~ failed
  BY <1>flags, Zenon
<1>kept. ASSUME NEW d \in Client, Recorded(d), ~ failed' PROVE Recorded(d)'
  <2>1. \A k \in 1 .. Len(banned) : k \in 1 .. Len(banned')
    BY <1>typed, <1>grown
  <2> QED BY <1>grown, <1>warned, <1>moved, <1>kept, <2>1 DEF Recorded
<1>6. RecordedFirst'
  <2> SUFFICES ASSUME ~ failed', NEW d \in Client, child'[d] \in {"popen", "mail", "mailed"}
               PROVE  Recorded(d)'
    BY <1>grown DEF RecordedFirst
  <2>1. CASE d = c
    BY <1>grown, <1>moved, <2>1 DEF Recorded
  <2>2. CASE d # c
    <3>1. child'[d] = child[d]
      BY <1>moved, <2>2 DEF IInv, TypeOK
    <3>2. Recorded(d)
      BY <1>live, <3>1 DEF IInv, RecordedFirst
    <3> QED BY <1>kept, <3>2
  <2> QED BY <2>1, <2>2
<1>7. MailedLast'
  BY <1>moved DEF IInv, TypeOK, MailedLast
<1>8. MailedIsRecorded'
  <2> SUFFICES ASSUME ~ failed', NEW d \in mailed PROVE Recorded(d)'
    BY <1>moved DEF MailedIsRecorded
  <2>1. d \in Client /\ Recorded(d)
    BY <1>live DEF IInv, TypeOK, MailedIsRecorded
  <2> QED BY <1>kept, <2>1
<1>9. EarlierIsNoticed'
  <2> SUFFICES ASSUME NEW d \in Client, child'[d] \in {"append", "popen", "mail", "mailed"},
                      d \notin warned', NEW k \in 1 .. start[d]
               PROVE  banned'[k] # id[d]
    BY <1>moved DEF EarlierIsNoticed
  <2>1. k \in 1 .. Len(banned) /\ d \notin warned
    BY <1>warned DEF IInv, TypeOK
  <2>2. CASE d = c
    <3>1. child[d] = "append" /\ start[d] <= pos[d] /\ k \in 1 .. pos[d]
      BY <1>moved, <2>2 DEF IInv, TypeOK, ScannedSoFar
    <3> QED BY <1>grown, <2>1, <3>1 DEF IInv, ScannedSoFar
  <2>3. CASE d # c
    <3>1. child'[d] = child[d]
      BY <1>moved, <2>3 DEF IInv, TypeOK
    <3> QED BY <1>grown, <2>1, <3>1 DEF IInv, EarlierIsNoticed
  <2> QED BY <2>2, <2>3
<1>10. TornByFailure'
  BY <1>flags, Zenon DEF TornByFailure
<1> QED
  BY <1>1, <1>2, <1>3, <1>4, <1>5, <1>6, <1>7, <1>8, <1>9, <1>10 DEF IInv

(***************************************************************************)
(* What is mailed has been recorded.                                       *)
(***************************************************************************)
LEMMA MailInv == ASSUME IInv, NEW c \in Client, OpenMailer(c) \/ Mail(c) PROVE IInv'
<1> USE DEF OpenMailer, Mail, Ahead, Goto, Ends, server, signals, session, files, list
<1>1. TypeOK'
  BY DEF IInv, TypeOK, Stages, Working, Answers
<1>2. QueuedOnce'
  BY DEF IInv, TypeOK, QueuedOnce
<1>3. StartsAfresh'
  BY DEF IInv, TypeOK, StartsAfresh, Reading
<1>4. Identified'
  BY DEF IInv, TypeOK, Identified, Reading
<1>5. ScannedSoFar'
  BY DEF IInv, TypeOK, ScannedSoFar, Reading
<1>6. RecordedFirst'
  BY DEF IInv, TypeOK, RecordedFirst, Recorded
<1>7. MailedLast'
  BY DEF IInv, TypeOK, MailedLast, RecordedFirst, Recorded
<1>8. MailedIsRecorded'
  BY DEF IInv, TypeOK, MailedIsRecorded, RecordedFirst, Recorded
<1>9. EarlierIsNoticed'
  BY DEF IInv, TypeOK, EarlierIsNoticed, RecordedFirst, Recorded
<1>10. TornByFailure'
  BY Zenon DEF IInv, TornByFailure
<1> QED
  BY <1>1, <1>2, <1>3, <1>4, <1>5, <1>6, <1>7, <1>8, <1>9, <1>10 DEF IInv

(***************************************************************************)
(* A session that is over, or was killed, leaves its record.               *)
(***************************************************************************)
LEMMA FinishInv == ASSUME IInv, NEW c \in Client, Finish(c) \/ Killed(c) PROVE IInv'
<1> USE DEF Finish, Killed, Ahead, Goto, Ends, server, signals, session, files, list
<1>1. TypeOK'
  BY DEF IInv, TypeOK, Stages, Gone, Answers
<1>2. QueuedOnce'
  BY DEF IInv, TypeOK, QueuedOnce, Answers
<1>3. StartsAfresh'
  BY DEF IInv, TypeOK, StartsAfresh, Reading, Answers
<1>4. Identified'
  BY DEF IInv, TypeOK, Identified, Reading, Answers
<1>5. ScannedSoFar'
  BY DEF IInv, TypeOK, ScannedSoFar, Reading, Answers
<1>6. RecordedFirst'
  BY DEF IInv, TypeOK, RecordedFirst, Answers, Recorded
<1>7. MailedLast'
  BY DEF IInv, TypeOK, MailedLast, Answers
<1>8. MailedIsRecorded'
  BY DEF IInv, TypeOK, MailedIsRecorded, Answers, Recorded
<1>9. EarlierIsNoticed'
  BY DEF IInv, TypeOK, EarlierIsNoticed, Answers
<1>10. TornByFailure'
  BY Zenon DEF IInv, TornByFailure
<1> QED
  BY <1>1, <1>2, <1>3, <1>4, <1>5, <1>6, <1>7, <1>8, <1>9, <1>10 DEF IInv

(***************************************************************************)
(* IInv is inductive.                                                      *)
(***************************************************************************)
LEMMA NextInv == IInv /\ [Next]_vars => IInv'
<1> SUFFICES ASSUME IInv, [Next]_vars PROVE IInv'
  OBVIOUS
<1>1. CASE Main
  BY <1>1, AcceptInv, ForkInv, CloseInv DEF Main
<1>2. CASE AcceptFails \/ Terminated \/ Restart
  BY <1>2, DiesInv, RestartInv DEF AcceptFails, Terminated
<1>3. CASE Handler \/ SigChildHangs
  BY <1>3, HandlerInv
<1>4. ASSUME NEW c \in Client, Connect(c) \/ Read(c) \/ Work(c) \/ Killed(c)
      PROVE  IInv'
  <2>1. CASE Connect(c)
    BY <2>1, ConnectInv
  <2>2. CASE Read(c)
    BY <2>2, ReadLineInv, ReadBodyInv DEF Read
  <2>3. CASE Work(c)
    BY <2>3, OpenBannedInv, ScanBannedInv, ScanEndsInv, AppendBannedInv, MailInv, FinishInv DEF Work
  <2>4. CASE Killed(c)
    BY <2>4, FinishInv
  <2> QED BY <1>4, <2>1, <2>2, <2>3, <2>4
<1>5. CASE UNCHANGED vars
  <2> USE <1>5 DEF vars, IInv
  <2>1. TypeOK'
    BY DEF TypeOK
  <2>2. QueuedOnce' /\ StartsAfresh' /\ Identified' /\ MailedLast'
    BY DEF QueuedOnce, StartsAfresh, Identified, MailedLast
  <2>3. TornByFailure'
    BY Zenon DEF TornByFailure
  <2>4. ScannedSoFar' /\ RecordedFirst' /\ MailedIsRecorded' /\ EarlierIsNoticed'
    BY DEF ScannedSoFar, RecordedFirst, MailedIsRecorded, EarlierIsNoticed, Recorded
  <2> QED BY <2>1, <2>2, <2>3, <2>4
<1> QED BY <1>1, <1>2, <1>3, <1>4, <1>5 DEF Next

(***************************************************************************)
(* IInv holds in every reachable state, however many clients there are.    *)
(***************************************************************************)
THEOREM Invariance == Spec => []IInv
<1> QED BY InitInv, NextInv, PTL DEF Spec

(***************************************************************************)
(* The server's variables keep their types.                                *)
(***************************************************************************)
THEOREM TypeCorrect == Spec => []TypeOK
<1>1. IInv => TypeOK
  BY DEF IInv
<1> QED BY Invariance, <1>1, PTL

(***************************************************************************)
(* As long as no write to the banned file fails, no child mails a share    *)
(* before its id is in that file or a warning is in the log.               *)
(***************************************************************************)
THEOREM AlwaysRecorded == Spec => []MailedIsRecorded
<1>1. IInv => MailedIsRecorded
  BY DEF IInv
<1> QED BY Invariance, <1>1, PTL

(***************************************************************************)
(* No child overlooks a line that the banned file had when it opened it,   *)
(* whatever others append while it reads.                                  *)
(***************************************************************************)
THEOREM AlwaysNoticed == Spec => []EarlierIsNoticed
<1>1. IInv => EarlierIsNoticed
  BY DEF IInv
<1> QED BY Invariance, <1>1, PTL
=============================================================================
