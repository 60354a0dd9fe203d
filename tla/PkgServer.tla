----------------------------- MODULE PkgServer -----------------------------
(***************************************************************************)
(* The private key generator, pkghtml.c: the accept loop of main, the      *)
(* children it forks, the SIGCHLD handler, handle_session, process,        *)
(* banned_check and email_share.                                           *)
(*                                                                         *)
(* Each client opens one connection.  What it sends is decided when the    *)
(* child reads it; a client that sends nothing leaves its child waiting,   *)
(* there is no timeout.  The kernel, the mailer and TLS are external: a    *)
(* fork, a popen, an fopen or an accept may fail, a write to a client or a *)
(* mailer that is gone kills the child (SIGPIPE), and a SIGCHLD that is    *)
(* already pending swallows the next one.  The sh that popen starts is     *)
(* left out: it is the child's own affair.  The server may die at any      *)
(* moment, and is started again: its children live on meanwhile, with the  *)
(* socket that it listened on, and init reaps them.                        *)
(***************************************************************************)
EXTENDS Naturals, Sequences

CONSTANTS
  Client,   \* connections
  Prompt,   \* the clients that keep sending until they are answered
  Ids       \* what FMT_make_id makes of the addresses asked for

ASSUME PromptAssumption == Prompt \subseteq Client

VARIABLES
  backlog,  \* connections the kernel has queued on sockfd
  parent,   \* where main is: "accept", "fork", "close", "hung" or "dead"
  newfd,    \* the connection main is busy with
  fds,      \* connections of which main holds a descriptor
  sigchld,  \* a SIGCHLD is pending
  handler,  \* main is inside sig_child
  child,    \* where the child of each connection is
  id,       \* the id its child computed
  pos,      \* how many lines of the banned file that child has read
  start,    \* lines the banned file had when that child opened it
  warned,   \* the connections for which banned_check returned nonzero
  said,     \* the answer the client was given
  banned,   \* the lines of the banned file
  torn,     \* behind them there is one without its '\n'
  failed,   \* (history) a write to the banned file has failed
  mailed    \* for each mail handed to the mailer, the connection it was for

vars == <<backlog, parent, newfd, fds, sigchld, handler, child, id, pos, start,
          warned, said, banned, torn, failed, mailed>>

server  == <<backlog, parent, newfd, fds>>
signals == <<sigchld, handler>>
session == <<id, pos, start, warned, said>>
list    == <<banned, torn, failed>>
files   == <<list, mailed>>

None    == "none"
Garbled == "garbled"  \* a line that is no id

Reading  == {"line", "length", "blank", "body"}
Working  == {"open", "scan", "append", "popen", "mail", "finish"}
Answers  == {"page", "usage", "mailed"}
Gone     == {"refused", "zombie", "reaped"}
Stages   == {"away", "queued"} \cup Reading \cup Working \cup Answers \cup Gone

Init ==
  /\ backlog = <<>>
  /\ parent = "accept"
  /\ newfd = None
  /\ fds = {}
  /\ sigchld = FALSE
  /\ handler = FALSE
  /\ child = [c \in Client |-> "away"]
  /\ id = [c \in Client |-> None]
  /\ pos = [c \in Client |-> 0]
  /\ start = [c \in Client |-> 0]
  /\ warned = {}
  /\ said = [c \in Client |-> "nothing"]
  /\ banned = <<>>
  /\ torn = FALSE /\ failed = FALSE
  /\ mailed = {}

Connect(c) ==
  /\ child[c] = "away"
  /\ backlog' = Append(backlog, c)
  /\ child' = [child EXCEPT ![c] = "queued"]
  /\ UNCHANGED <<parent, newfd, fds, signals, session, files>>
-----------------------------------------------------------------------------
(***************************************************************************)
(* main.  The handler runs on main's stack, so that main waits for it; an  *)
(* accept that it interrupts (EINTR) is begun again.                       *)
(***************************************************************************)
Accept ==
  /\ parent = "accept" /\ ~ handler
  /\ backlog # <<>>
  /\ newfd' = Head(backlog)
  /\ backlog' = Tail(backlog)
  /\ fds' = fds \cup {newfd'}
  /\ parent' = "fork"
  /\ UNCHANGED <<signals, child, session, files>>

\* A wrong variant of the next action: -1 is taken for a descriptor.
AcceptFailsUnnoticed ==
  /\ parent = "accept" /\ ~ handler
  /\ newfd' = None
  /\ fds' = fds \cup {newfd'}
  /\ parent' = "fork"
  /\ UNCHANGED <<backlog, signals, child, session, files>>

\* The server ends.  Children that have ended are reaped by init; a connection
\* that nobody was forked for is closed.
Dies ==
  /\ parent' = "dead"
  /\ newfd' = None /\ fds' = {}
  /\ sigchld' = FALSE /\ handler' = FALSE
  /\ child' = [c \in Client |->
                 IF child[c] = "zombie" THEN "reaped"
                 ELSE IF parent = "fork" /\ c = newfd THEN "refused" ELSE child[c]]
  /\ UNCHANGED <<backlog, session, files>>

\* Any other error of accept ends the server.
AcceptFails == parent = "accept" /\ ~ handler /\ Dies

\* A signal ends it, also where it hangs.
Terminated == parent # "dead" /\ Dies

\* A wrong variant of the next action: bind without SO_REUSEADDR fails while
\* there are remains of a connection.
RestartAlone ==
  /\ parent = "dead"
  /\ \A c \in Client : child[c] \in {"away", "queued"}
  /\ parent' = "accept"
  /\ UNCHANGED <<backlog, newfd, fds, signals, child, session, files>>

\* pkg is started: bind fails as long as a child holds the old socket.  With
\* that, the connections queued on it go.
Alive == Reading \cup Working \cup Answers
Restart ==
  /\ parent = "dead"
  /\ \A c \in Client : child[c] \notin Alive
  /\ parent' = "accept"
  /\ backlog' = <<>>
  /\ child' = [c \in Client |-> IF child[c] = "queued" THEN "refused" ELSE child[c]]
  /\ UNCHANGED <<newfd, fds, signals, session, files>>

\* fork, or its failure: -1 is taken for the pid of a child.
Fork ==
  /\ parent = "fork" /\ ~ handler
  /\ \E stage \in {"line", "refused"} : child' = [child EXCEPT ![newfd] = stage]
  /\ parent' = "close"
  /\ UNCHANGED <<backlog, newfd, fds, signals, session, files>>

\* Wrong variants of the next action: main keeps the descriptor; main waits for
\* the child, as old_email_share does for the mailer.
CloseNothing ==
  /\ parent = "close" /\ ~ handler
  /\ newfd' = None
  /\ parent' = "accept"
  /\ UNCHANGED <<backlog, fds, signals, child, session, files>>

CloseAfterChild ==
  /\ parent = "close" /\ ~ handler
  /\ child[newfd] \in {"refused", "zombie", "reaped"}
  /\ fds' = fds \ {newfd}
  /\ newfd' = None
  /\ parent' = "accept"
  /\ UNCHANGED <<backlog, signals, child, session, files>>

Close ==
  /\ parent = "close" /\ ~ handler
  /\ fds' = fds \ {newfd}
  /\ newfd' = None
  /\ parent' = "accept"
  /\ UNCHANGED <<backlog, signals, child, session, files>>

Main == Accept \/ Fork \/ Close

(***************************************************************************)
(* sig_child: reaps until waitpid finds no more.  SIGCHLD is blocked while *)
(* the handler runs; one that comes meanwhile stays pending.               *)
(***************************************************************************)
SigChildEnter ==
  /\ sigchld /\ ~ handler /\ parent \notin {"dead", "hung"}
  /\ sigchld' = FALSE
  /\ handler' = TRUE
  /\ UNCHANGED <<server, child, session, files>>

\* A wrong variant of the next action: one waitpid for each signal.
SigChildReapOne ==
  /\ handler
  /\ \E c \in Client : child[c] = "zombie" /\ child' = [child EXCEPT ![c] = "reaped"]
  /\ handler' = FALSE
  /\ UNCHANGED <<server, sigchld, session, files>>

SigChildReap ==
  /\ handler
  /\ \E c \in Client : child[c] = "zombie" /\ child' = [child EXCEPT ![c] = "reaped"]
  /\ UNCHANGED <<server, signals, session, files>>

\* debug_message calls syslog: where the handler interrupted main's own call of
\* syslog, neither may ever come back.
SigChildHangs ==
  /\ handler
  /\ \E c \in Client : child[c] = "zombie" /\ child' = [child EXCEPT ![c] = "reaped"]
  /\ handler' = FALSE
  /\ parent' = "hung"
  /\ UNCHANGED <<backlog, newfd, fds, sigchld, session, files>>

SigChildLeave ==
  /\ handler
  /\ \A c \in Client : child[c] # "zombie"
  /\ handler' = FALSE
  /\ UNCHANGED <<server, sigchld, child, session, files>>

Handler == SigChildEnter \/ SigChildReap \/ SigChildLeave
-----------------------------------------------------------------------------
Goto(c, stage) == child' = [child EXCEPT ![c] = stage]

\* The child ends, which also closes its descriptor.
Ends(c) ==
  /\ Goto(c, IF parent = "dead" THEN "reaped" ELSE "zombie")
  /\ sigchld' = (parent # "dead")
  /\ UNCHANGED handler

Ahead(c, stage) == Goto(c, stage) /\ UNCHANGED signals

(***************************************************************************)
(* handle_session reads.  A TLS handshake that failed shows as a request   *)
(* line that is too short.  Header lines that do not matter are read over. *)
(***************************************************************************)
ReadLine(c) ==
  /\ child[c] = "line"
  /\ \/ Ends(c)                            \* len < 4
     \/ Ahead(c, "page")                   \* GET
     \/ Ahead(c, "length")                 \* POST
     \/ Ahead(c, "finish")                 \* anything else
  /\ UNCHANGED <<server, session, files>>

ReadHeaders(c) ==
  /\ \/ child[c] = "length" /\ (Ends(c) \/ Ahead(c, "blank"))
     \/ child[c] = "blank" /\ (Ends(c) \/ Ahead(c, "body"))
  /\ UNCHANGED <<server, session, files>>

\* The body, and what process makes of it: a malformed query, a missing field,
\* or an address.
ReadBody(c) ==
  /\ child[c] = "body"
  /\ \/ /\ Ends(c) \/ Ahead(c, "finish") \/ Ahead(c, "usage")
        /\ UNCHANGED id
     \/ /\ Ahead(c, "open")
        /\ \E i \in Ids : id' = [id EXCEPT ![c] = i]
  /\ UNCHANGED <<server, pos, start, warned, said, files>>

Read(c) == ReadLine(c) \/ ReadHeaders(c) \/ ReadBody(c)

\* banned_check opens the file for reading, or returns 2.
OpenBanned(c) ==
  /\ child[c] = "open"
  /\ \/ /\ Ahead(c, "scan")
        /\ start' = [start EXCEPT ![c] = Len(banned)]
        /\ UNCHANGED warned
     \/ /\ Ahead(c, "popen")
        /\ warned' = warned \cup {c}
        /\ UNCHANGED start
  /\ UNCHANGED <<server, id, pos, said, files>>

\* banned_check compares a line.
ScanBanned(c) ==
  /\ child[c] = "scan" /\ pos[c] < Len(banned)
  /\ pos' = [pos EXCEPT ![c] = @ + 1]
  /\ \/ /\ banned[pos'[c]] = id[c]
        /\ warned' = warned \cup {c}
        /\ Ahead(c, "popen")
     \/ /\ banned[pos'[c]] # id[c]
        /\ Ahead(c, "scan")
        /\ UNCHANGED warned
  /\ UNCHANGED <<server, id, start, said, files>>

\* A wrong variant of the next action: feof is looked at before the last line.
ScanEndsEarly(c) ==
  /\ child[c] = "scan" /\ Len(banned) <= pos[c] + 1
  /\ Ahead(c, "append")
  /\ UNCHANGED <<server, session, files>>

ScanEnds(c) ==
  /\ child[c] = "scan" /\ pos[c] = Len(banned)
  /\ Ahead(c, "append")
  /\ UNCHANGED <<server, session, files>>

(***************************************************************************)
(* banned_check appends, or returns 4.  What fprintf and fclose return is  *)
(* not looked at: on a full disk a part of the line is written, or nothing *)
(* of it, and banned_check returns 0 all the same.  The next line that is  *)
(* written then joins the part, and makes up a line that is no id, or some *)
(* other id.                                                               *)
(***************************************************************************)
Written(c) ==
  /\ \E line \in IF torn THEN Ids \cup {Garbled} ELSE {id[c]} : banned' = Append(banned, line)
  /\ torn' = FALSE
  /\ UNCHANGED failed

WriteFails ==
  /\ torn' \in {torn, TRUE}
  /\ failed' = TRUE
  /\ UNCHANGED banned

\* A wrong variant of the next action: a file that cannot be opened counts as
\* success.
AppendBannedQuietly(c) ==
  /\ child[c] = "append"
  /\ Written(c) \/ WriteFails \/ UNCHANGED list
  /\ Ahead(c, "popen")
  /\ UNCHANGED <<server, session, mailed>>

AppendBanned(c) ==
  /\ child[c] = "append"
  /\ \/ (Written(c) \/ WriteFails) /\ UNCHANGED warned
     \/ warned' = warned \cup {c} /\ UNCHANGED list
  /\ Ahead(c, "popen")
  /\ UNCHANGED <<server, id, pos, start, said, mailed>>

\* process goes on in either case, and email_share returns 0 whether popen
\* fails or not.
OpenMailer(c) ==
  /\ child[c] = "popen"
  /\ Ahead(c, "mail") \/ Ahead(c, "mailed")
  /\ UNCHANGED <<server, session, files>>

Mail(c) ==
  /\ child[c] = "mail"
  /\ Ahead(c, "mailed")
  /\ mailed' = mailed \cup {c}
  /\ UNCHANGED <<server, session, list>>

\* The answer, if any, then SSL_shutdown, close and exit.
Finish(c) ==
  /\ child[c] \in Answers \cup {"finish"}
  /\ said' = IF child[c] \in Answers THEN [said EXCEPT ![c] = child[c]] ELSE said
  /\ Ends(c)
  /\ UNCHANGED <<server, id, pos, start, warned, files>>

\* SIGPIPE: the client or the mailer has gone.
Killed(c) ==
  /\ child[c] \in Answers \cup {"mail"}
  /\ Ends(c)
  /\ UNCHANGED <<server, session, files>>

Work(c) ==
  \/ OpenBanned(c) \/ ScanBanned(c) \/ ScanEnds(c) \/ AppendBanned(c)
  \/ OpenMailer(c) \/ Mail(c) \/ Finish(c)

Next ==
  \/ Main \/ AcceptFails \/ Handler \/ SigChildHangs \/ Terminated \/ Restart
  \/ \E c \in Client : Connect(c) \/ Read(c) \/ Work(c) \/ Killed(c)

(***************************************************************************)
(* The operating system runs every process that can run and delivers       *)
(* pending signals.  Only prompt clients are sure to send something, and   *)
(* neither need accept ever fail nor the server be terminated; but whoever *)
(* looks after it starts it again.                                         *)
(***************************************************************************)
Fairness ==
  /\ WF_vars(Main) /\ WF_vars(Handler) /\ WF_vars(Restart)
  /\ \A c \in Client : WF_vars(Work(c))
  /\ \A c \in Prompt : WF_vars(Read(c))

Spec == Init /\ [][Next]_vars /\ Fairness
-----------------------------------------------------------------------------
\* The variables hold what main, its children and the files can.
TypeOK ==
  /\ backlog \in Seq(Client)
  /\ parent \in {"accept", "fork", "close", "hung", "dead"}
  /\ newfd \in Client \cup {None}
  /\ fds \subseteq Client
  /\ sigchld \in BOOLEAN /\ handler \in BOOLEAN
  /\ child \in [Client -> Stages]
  /\ id \in [Client -> Ids \cup {None}]
  /\ banned \in Seq(Ids \cup {Garbled})
  /\ torn \in BOOLEAN /\ failed \in BOOLEAN
  /\ pos \in [Client -> 0 .. Len(banned)] /\ start \in [Client -> 0 .. Len(banned)]
  /\ warned \subseteq Client
  /\ said \in [Client -> Answers \cup {"nothing"}]
  /\ mailed \subseteq Client

(***************************************************************************)
(* As long as every write to the banned file that was begun succeeds, no   *)
(* share leaves the PKG without a trace: its id is in the banned file, or  *)
(* the log has a warning, because the file could not be opened or had the  *)
(* id already.  After a write that fails there need be no trace, neither   *)
(* of that share nor of the next one, whose line joins what was written.   *)
(***************************************************************************)
Recorded(c) == c \in warned \/ \E k \in 1 .. Len(banned) : banned[k] = id[c]

MailedIsRecorded == ~ failed => \A c \in mailed : Recorded(c)

(***************************************************************************)
(* What the banned file listed when a child opened it does not escape the  *)
(* child, however many others append meanwhile.  (What they append after   *)
(* it has found the end does escape it: the file is not locked.)           *)
(***************************************************************************)
EarlierIsNoticed ==
  \A c \in Client :
    (child[c] \in {"append", "popen", "mail", "mailed"} /\ c \notin warned) =>
      \A k \in 1 .. start[c] : banned[k] # id[c]

(***************************************************************************)
(* The three invariants above follow from one that steps preserve: who is  *)
(* queued and who is forked for cannot be in a session already, a session  *)
(* starts with nothing read, and what a child knows when it is at a stage. *)
(***************************************************************************)
QueuedOnce ==
  /\ \A j, k \in 1 .. Len(backlog) : j # k => backlog[j] # backlog[k]
  /\ \A k \in 1 .. Len(backlog) : child[backlog[k]] = "queued"
  /\ parent = "fork" => /\ newfd \in Client /\ child[newfd] = "queued"
                        /\ \A k \in 1 .. Len(backlog) : backlog[k] # newfd

StartsAfresh ==
  \A c \in Client :
    child[c] \in {"away", "queued", "open"} \cup Reading => pos[c] = 0 /\ c \notin warned

Identified ==
  \A c \in Client :
    child[c] \in {"open", "scan", "append", "popen", "mail"} => id[c] \in Ids

ScannedSoFar ==
  \A c \in Client :
    /\ child[c] \in {"scan", "append"} =>
         c \notin warned /\ \A k \in 1 .. pos[c] : banned[k] # id[c]
    /\ child[c] = "append" => start[c] <= pos[c]

TornByFailure == torn => failed

RecordedFirst ==
  ~ failed => \A c \in Client : child[c] \in {"popen", "mail", "mailed"} => Recorded(c)

MailedLast == \A c \in mailed : child[c] \in {"mailed", "zombie", "reaped"}

IInv ==
  /\ TypeOK /\ QueuedOnce /\ StartsAfresh /\ Identified /\ ScannedSoFar
  /\ TornByFailure /\ RecordedFirst /\ MailedLast /\ MailedIsRecorded /\ EarlierIsNoticed

\* Every child that ended is reaped, although signals coalesce.
ZombiesReaped ==
  \A c \in Client : child[c] = "zombie" ~> (child[c] = "reaped" \/ parent = "hung")

(***************************************************************************)
(* A client that keeps sending is rid of its connection sooner or later,   *)
(* whatever the other clients do, unless main dies or hangs in its         *)
(* handler; and if there is a child for it, whatever becomes of main.      *)
(***************************************************************************)
PromptServed ==
  \A c \in Prompt :
    /\ child[c] = "queued" ~> (parent \in {"dead", "hung"} \/ (child[c] \in Gone /\ c \notin fds))
    /\ child[c] \in Alive ~> child[c] \in Gone

(***************************************************************************)
(* A server that has died comes back, unless a client that stalls keeps    *)
(* for ever the child that holds the old socket.                           *)
(***************************************************************************)
ComesBack ==
  (<>[](parent = "dead")) => \E c \in Client \ Prompt : <>[](child[c] \in Reading)

\* "Key share mailed to " (pkghtml.c:318).
AnswerIsTrue == \A c \in Client : said[c] = "mailed" => c \in mailed
=============================================================================
