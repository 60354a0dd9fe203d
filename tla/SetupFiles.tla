---------------------------- MODULE SetupFiles ----------------------------
(***************************************************************************)
(* The files of a system and the programs that share them: gen.c writes    *)
(* the shares of the master secret and then the parameters, again and      *)
(* again and over what was there; pkghtml.c loads both when it starts; the *)
(* user tools load the parameters for each command.  The files go through  *)
(* FMT_save_byte_string, FMT_load_byte_string, FMT_split_master,           *)
(* FMT_construct_master, FMT_save_params and FMT_load_params.              *)
(*                                                                         *)
(* Each run of gen draws a system of its own; r stands for all that        *)
(* IBE_setup and IBE_split_master drew in run r, except the sizes.  A file *)
(* is what mime_get makes of it, the bytes of its whole lines, LineLen in  *)
(* each.  A file may fail to open, a write may find the disk full (nobody  *)
(* looks), and gen may be killed at any moment; the machine does not       *)
(* crash.  A file is read in one step: it is shorter than stdio's buffer.  *)
(* PKGs and users read the directory gen writes to; gen runs alone in it.  *)
(***************************************************************************)
EXTENDS ByteStrings

CONSTANTS
  Configs,   \* "threshold" and "shares": a gen.cnf, or the defaults
  NumFiles,  \* share files that gen has names for
  MaxRuns,   \* bound on the runs of gen
  LineLen,   \* bytes in a line of base64, 48
  PKG        \* the PKGs: PKG i is to have the share file i

ASSUME NumFilesAssumption == NumFiles \in Nat \ {0}
ASSUME ConfigsAssumption ==
  Configs \subseteq [t : 1 .. Base - 1, n : 1 .. Base - 1]
ASSUME RunsAssumption == MaxRuns \in 0 .. Base - 1
ASSUME LineAssumption == LineLen \in Nat \ {0}
ASSUME PKGAssumption  == PKG \subseteq 1 .. NumFiles /\ NumFiles < Base

ParamsFile == 0
File == 0 .. NumFiles

(***************************************************************************)
(* What is in a file: IBE_serialize_params for run r with configuration c, *)
(* and the share that IBE_split_master made for PKG i.  <<r>> stands for   *)
(* version, id, p, q, P and Ppub, <<r, i>> for robustx[i] and robustP[i],  *)
(* and for the value of the polynomial there.                              *)
(***************************************************************************)
IBE_serialize_params(r, c) ==
  byte_string_encode_array(
    << <<r>>, byte_string_set_int(c.t), byte_string_set_int(c.n)>>
      \o [j \in 1 .. c.n |-> <<r, j>>])

ShareBytes(r, i) == byte_string_join(byte_string_set_int(i - 1), <<r, i>>)

Bytes(f, r, c) == IF f = ParamsFile THEN IBE_serialize_params(r, c) ELSE ShareBytes(r, f)

\* The fields are there: the callers dereference a NULL pointer if there are none.
IBE_deserialize_params(bs) ==
  LET field == byte_string_decode_array(bs)
  IN [run |-> field[1][1], t |-> int_from_byte_string(field[2]),
      n |-> int_from_byte_string(field[3])]

System(r, c) == [run |-> r, t |-> c.t, n |-> c.n]
-----------------------------------------------------------------------------
VARIABLES
  made,     \* the configuration of each run of gen
  stage,    \* gen: "idle", or about to "open" or busy to "write" a file
  pos,      \* which file, in the order of Order
  disk,     \* the bytes of the files that exist
  pkg,      \* the PKGs that run: params, mshare, and where it came from
  shares,   \* the key shares that a user was sent for one identity
  lost,     \* history: <<r, f>> where gen went on although f was not written
  killed,   \* history: the runs in which gen was killed
  current,  \* history: PKGs that have started since gen ended well
  recent    \* history: the key shares these PKGs have made

gen     == <<made, stage, pos>>
history == <<lost, killed, current, recent>>
vars    == <<made, stage, pos, disk, pkg, shares, lost, killed, current, recent>>

Run == Len(made)

\* A wrong variant of the next operator: the parameters first.
OrderParamsFirst(n) == [k \in 1 .. n + 1 |-> k - 1]

\* The order in which gen saves.
Order(n) == [k \in 1 .. n + 1 |-> IF k <= n THEN k ELSE ParamsFile]

Config  == made[Run]
file    == Order(Config.n)[pos]
Content == Bytes(file, Run, Config)

EndedWell == stage = "idle" /\ Run \notin killed /\ \A f \in File : <<Run, f>> \notin lost

Init ==
  /\ made = <<>>
  /\ stage = "idle"
  /\ pos = 1
  /\ disk = <<>>
  /\ pkg = <<>>
  /\ shares = {}
  /\ lost = {} /\ killed = {} /\ current = {} /\ recent = {}
-----------------------------------------------------------------------------
\* gen up to IBE_split_master; it ends before that if there are not enough
\* file names.
Start(c) ==
  /\ stage = "idle" /\ Run < MaxRuns
  /\ c.n <= NumFiles
  /\ made' = Append(made, c)
  /\ stage' = "open"
  /\ pos' = 1
  /\ current' = {} /\ recent' = {}
  /\ UNCHANGED <<disk, pkg, shares, lost, killed>>

\* f, with v at k.
With(f, k, v) == [x \in DOMAIN f \cup {k} |-> IF x = k THEN v ELSE f[x]]

Advance ==
  IF pos = Config.n + 1
  THEN stage' = "idle" /\ UNCHANGED pos
  ELSE stage' = "open" /\ pos' = pos + 1

\* A wrong variant of the next action: "a", not "w".
OpenAppending ==
  /\ stage = "open"
  /\ disk' = With(disk, file, IF file \in DOMAIN disk THEN disk[file] ELSE <<>>)
  /\ stage' = "write"
  /\ UNCHANGED <<made, pos, pkg, shares, history>>

\* fopen(filename, "w") empties the file.
Open ==
  /\ stage = "open"
  /\ disk' = With(disk, file, <<>>)
  /\ stage' = "write"
  /\ UNCHANGED <<made, pos, pkg, shares, history>>

\* fopen fails: FMT_split_master gives up the other shares too, but gen goes on
\* to the parameters; nor does it look at the result of FMT_save_params.
OpenFails ==
  /\ stage = "open"
  /\ lost' = lost \cup {<<Run, Order(Config.n)[k]>> :
                        k \in IF pos <= Config.n THEN pos .. Config.n ELSE {pos}}
  /\ IF pos <= Config.n THEN stage' = "open" /\ pos' = Config.n + 1
                        ELSE stage' = "idle" /\ UNCHANGED pos
  /\ UNCHANGED <<made, disk, pkg, shares, killed, current, recent>>

\* mime_put, a line.
Write ==
  /\ stage = "write" /\ Len(disk[file]) < Len(Content)
  /\ \E more \in 1 .. LineLen :
       /\ more = LineLen \/ Len(disk[file]) + more = Len(Content)
       /\ Len(disk[file]) + more <= Len(Content)
       /\ disk' = [disk EXCEPT ![file] = @ \o SubSeq(Content, Len(@) + 1, Len(@) + more)]
  /\ UNCHANGED <<gen, pkg, shares, history>>

\* fclose, with all of it written or not: FMT_save_byte_string returns 1.
Close ==
  /\ stage = "write"
  /\ lost' = IF Len(disk[file]) = Len(Content) THEN lost ELSE lost \cup {<<Run, file>>}
  /\ Advance
  /\ UNCHANGED <<made, disk, pkg, shares, killed, current, recent>>

Killed ==
  /\ stage # "idle"
  /\ stage' = "idle"
  /\ killed' = killed \cup {Run}
  /\ UNCHANGED <<made, pos, disk, pkg, shares, lost, current, recent>>

Gen == Open \/ OpenFails \/ Write \/ Close \/ Killed \/ \E c \in Configs : Start(c)
-----------------------------------------------------------------------------
\* FMT_load_params, as far as it comes back: the file is there, and no NULL
\* pointer is taken for an array.
ParamsLoad == ParamsFile \in DOMAIN disk /\ byte_string_decode_array(disk[ParamsFile]) # <<>>
Params     == IBE_deserialize_params(disk[ParamsFile])

\* pkg starts, or starts again, with its own share file, or with that of PKG 1
\* ("share") if its configuration file could not be read.
StartPkg(i, f) ==
  /\ f \in {i, 1} /\ f \in DOMAIN disk
  /\ ParamsLoad
  /\ pkg' = With(pkg, i, [params |-> Params, mshare |-> disk[f], from |-> f])
  /\ current' = IF EndedWell THEN current \cup {i} ELSE current \ {i}
  /\ UNCHANGED <<gen, disk, shares, lost, killed, recent>>

\* What IBE_extract_share makes of a share; y is a point to the user.
Extracted(i) ==
  LET bs == byte_string_split(pkg[i].mshare)
  IN [index |-> int_from_byte_string(bs[1]), y |-> bs[2], from |-> pkg[i].from]

\* The child that is asked ends in an assertion of point_mul if y is 0, as it
\* is where byte_string_split found nothing.
Serve(i) ==
  /\ i \in DOMAIN pkg
  /\ Extracted(i).y # <<>>
  /\ shares' = shares \cup {Extracted(i)}
  /\ recent' = IF i \in current THEN recent \cup {Extracted(i)} ELSE recent
  /\ UNCHANGED <<gen, disk, pkg, lost, killed, current>>

\* The share is of the system that p describes, and of the point it is used for.
Fits(p, share) == share.y = <<p.run, share.index + 1>>

\* What the loop of IBE_combine and IBE_construct_master ends with.  robustx is
\* read for t # 1 only.
Interpolated(p, s) ==
  IF 1 < p.t /\ \E k \in DOMAIN s : p.n <= s[k].index THEN "undefined"
  ELSE IF IsInjective([k \in DOMAIN s |-> s[k].index]) /\ \A k \in DOMAIN s : Fits(p, s[k])
       THEN "right" ELSE "wrong"

\* ibe combine, with the parameters p and the key shares that the user names.
IBE_combine(p, s) ==
  IF IsInjective([k \in DOMAIN s |-> s[k].index]) THEN Interpolated(p, s) ELSE "refused"

\* The share in a file, for IBE_construct_master: 0 and 0 if it is torn.
ShareIn(f) ==
  LET bs == byte_string_split(disk[f])
  IN [index |-> int_from_byte_string(bs[1]), y |-> bs[2], from |-> f]

\* ibe extract and ibe certify: FMT_construct_master on files that exist, with
\* no look at what is in them.
FMT_construct_master(p, fs) == Interpolated(p, [k \in DOMAIN fs |-> ShareIn(fs[k])])

Next ==
  \/ Gen
  \/ \E i \in PKG : Serve(i) \/ \E f \in File : StartPkg(i, f)

Spec == Init /\ [][Next]_vars
-----------------------------------------------------------------------------
\* The variables hold what the programs and the files can.
TypeOK ==
  /\ made \in Seq({c \in Configs : c.n <= NumFiles}) /\ Run <= MaxRuns
  /\ stage \in {"idle", "open", "write"}
  /\ pos \in Nat \ {0} /\ (stage # "idle" => 0 < Run /\ pos <= Config.n + 1)
  /\ DOMAIN disk \subseteq File /\ \A f \in DOMAIN disk : disk[f] \in Seq(Byte)
  /\ DOMAIN pkg \subseteq PKG
  /\ \A i \in DOMAIN pkg : pkg[i].mshare \in Seq(Byte) /\ pkg[i].from \in 1 .. NumFiles
  /\ lost \subseteq Nat \X File /\ killed \subseteq Nat

(***************************************************************************)
(* Nobody works with anything but what some run of gen made, whatever gen  *)
(* is doing meanwhile: what is left of parameters that were torn does not  *)
(* decode, and what is left of a share makes no key share.                 *)
(***************************************************************************)
Systems(runs) == {System(r, runs[r]) : r \in DOMAIN runs}

LoadedIsWhole ==
  /\ \A i \in DOMAIN pkg : pkg[i].params \in Systems(made)
  /\ \A share \in shares :
       \E r \in 1 .. Run : share.index = share.from - 1 /\ share.y = <<r, share.from>>

(***************************************************************************)
(* The parameters are what gen writes last: where those of a run can be    *)
(* loaded, no share is older, even if gen was killed, unless it could not  *)
(* be written and gen went on (gen.c:83).                                  *)
(***************************************************************************)
ParamsAreLast ==
  ParamsLoad =>
    \A i \in 1 .. Params.n :
      \/ <<Params.run, i>> \in lost
      \/ i \in DOMAIN disk /\ \E r \in Params.run .. Run : IsPrefix(disk[i], ShareBytes(r, i))

(***************************************************************************)
(* After a run of gen that ended well, whatever lay there before, the key  *)
(* shares of PKGs that started since then make the right key, whichever t  *)
(* are taken, and none at all if two PKGs were given the same share file;  *)
(* t different share files make the right master secret.  A share file     *)
(* that a larger run left behind is not of the run, and has no place here. *)
(***************************************************************************)
KeyIsRight ==
  (EndedWell /\ ParamsLoad) =>
    /\ \A s \in [1 .. Params.t -> {share \in recent : share.from <= Params.n}] :
         IBE_combine(Params, s) =
           IF IsInjective([k \in DOMAIN s |-> s[k].from]) THEN "right" ELSE "refused"
    /\ \A fs \in [1 .. Params.t -> 1 .. Params.n] :
         IsInjective(fs) => FMT_construct_master(Params, fs) = "right"

(***************************************************************************)
(* What makes the first two inductive: whatever is on disk, or was loaded  *)
(* from there, is the beginning of what a run writes; the file that gen is *)
(* at, and the shares before it, of what this run writes.                  *)
(***************************************************************************)
Begun(runs, bs, f) ==
  \E r \in DOMAIN runs : f <= runs[r].n /\ IsPrefix(bs, Bytes(f, r, runs[r]))

DiskIsMade == \A f \in DOMAIN disk : Begun(made, disk[f], f)
PkgIsMade  == \A i \in DOMAIN pkg : Begun(made, pkg[i].mshare, pkg[i].from)

AtFile == stage = "write" => file \in DOMAIN disk /\ IsPrefix(disk[file], Content)

BeforeIt ==
  stage # "idle" =>
    \A k \in 1 .. pos - 1 :
      <<Run, k>> \in lost \/ (k \in DOMAIN disk /\ IsPrefix(disk[k], ShareBytes(Run, k)))

IInv ==
  /\ TypeOK /\ DiskIsMade /\ PkgIsMade /\ AtFile /\ BeforeIt
  /\ LoadedIsWhole /\ ParamsAreLast

(***************************************************************************)
(* And the third: what gen has written it has written whole, or lost.      *)
(* Until it starts again, PKGs that load what a run that ended well has    *)
(* written hold its shares, and so do their users.                         *)
(***************************************************************************)
WholeBefore ==
  stage # "idle" =>
    \A k \in 1 .. pos - 1 :
      <<Run, k>> \in lost \/ (k \in DOMAIN disk /\ disk[k] = ShareBytes(Run, k))

EndsWhole ==
  (EndedWell /\ 0 < Run) =>
    \A f \in 0 .. Config.n : f \in DOMAIN disk /\ disk[f] = Bytes(f, Run, Config)

CurrentIsOfRun ==
  \A i \in current :
    /\ EndedWell /\ 0 < Run /\ i \in DOMAIN pkg
    /\ pkg[i].from <= Config.n => pkg[i].mshare = ShareBytes(Run, pkg[i].from)

RecentIsOfRun ==
  \A share \in recent :
    /\ EndedWell /\ 0 < Run /\ share.from \in Nat
    /\ share.from <= Config.n =>
         share.index = share.from - 1 /\ share.y = <<Run, share.from>>

KInv == IInv /\ WholeBefore /\ EndsWhole /\ CurrentIsOfRun /\ RecentIsOfRun
=============================================================================
