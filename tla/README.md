# Stanford IBE: a verification project

TLA+ modules, TLC configurations and TLAPS proofs for the Stanford identity-based
encryption library (v0.7.2): the library (`ibe_lib.c`, `crypto.c`, `format.c`,
`byte_string.c`, `config.c`, `curve.c`, `fp2.c`), the user's tools (`ibe`, `gen`) and the
private key generator (`pkghtml`). References of the form `file.c:line` are to the
repository.

## The system

| Component | Source | State it keeps | Operations | Talks to |
|---|---|---|---|---|
| byte strings | `byte_string.c` | `data`, `len` (and `origlen`); `len = 0` means not allocated | init, reinit, assign (aliases), copy, cmp, clear, set/get int, encode/decode array, join, split | everything |
| streaming cipher | `crypto.c` | `crypto_ctx_t`: HMAC and EVP contexts, `ivbuf`, `auxbuf`, `state`, `count` | encrypt init/update/final, decrypt init/update/final, clear, one-shot encrypt/decrypt, hash, random | OpenSSL (external) |
| IBE operations | `ibe_lib.c` | `params_t`: p, q, P, Ppub, threshold, `robustx`, `robustP` | setup, split master, extract (share), combine, construct master, KEM, hide/reveal key, certify, sign, verify, (de)serialise | curve, crypto, byte strings |
| file formats | `format.c` | none beyond the two `FILE *` | encrypt/decrypt stream, crypt save/load, save/load params and shares, split/construct master | IBE, crypto |
| parameter generator | `gen.c` | files on disk | setup, split, save | config, format |
| user tools | `ibe.c`, `encrypt.c`, `decrypt.c`, `request.c`, `combine.c`, `certify.c`, `sign.c`, `verify.c` | `params`, `cnfctx`, key file | one operation per run | PKGs over TLS, files |
| private key generator | `pkghtml.c` | listening socket, children, banned file | accept, fork, handle a session, mail a key share, reap | clients, mailer, file system |
| configuration | `config.c` | an array of at most 500 name/value/path entries, the name of its file | load, get/set string, int, bool, path, list; write | all programs |
| curve and field | `curve.c`, `fp2.c` | `curve_t` with preprocessed multiples, Miller caches | point and F_p^2 arithmetic, Tate pairing | IBE |

How they interact.  `gen` sets a system up, splits the master secret into n shares of
which t make a key, and writes the public parameters and one share file for each PKG.
A PKG forks a child for each connection; the child mails an encrypted key share for the
requested address.  A user's `ibe request` asks PKGs one after the other until t of them
have answered; `ibe combine` decrypts t mailed shares and recombines the private key.
Encryption makes a random key K, hides it from all but the recipients (U, V) and streams
the text through K (W); decryption reveals K and streams W back.  Every long message goes
through the two streaming contexts of `crypto.c` in pieces whose sizes the base64 layer
dictates.

### What is hard here

* **Streaming with an unknown end.** The decryption context gets pieces of any size; the
  IV may be split over several and the MAC is known to be the MAC only when no more comes
  (`crypto.c:291-386`).  One buffer, `auxbuf`, is first the key and then the window of the
  last bytes; two counters (`state`, `count`) say which.
* **Failure in the middle.** Every EVP call may fail and leaves the context half changed;
  callers in `format.c` ignore the results, those in `crypto.c` do not.
* **Threshold algebra at its edges.** Zero or equal evaluation points, repeated and
  truncated share indices.
* **A forking server.** Coalesced SIGCHLD, an unlocked check-then-append on the banned
  file, clients that stop in the middle, mailers that cannot be started.
* **Partial failure of a request.** t out of a list of servers, some of them down; mails
  lost or late; shares combined in the wrong number or twice.
* **A server that comes back.** The PKG may end at any moment; its children live on with
  the listening socket, which keeps a new server from binding; its signal handler calls
  `syslog`, where it may hang (`pkghtml.c:444`).
* **Files in the middle of being written.** `gen` truncates and rewrites the shares and the
  parameters without looking at any result (`gen.c:83-85`) while PKGs and users load them.
* **A configuration that is text.** Indexed names compared up to 20 characters, typed
  values stored as strings, paths that are remembered (`config.c:74, 137`), a file that is
  loaded whole or not at all.
* **Ownership of byte strings.** Assignment aliases, failure leaves strings unallocated
  (NEWS, Jun 29 2002), a second clear frees twice.

### What makes each component correct

| Component | Correct if |
|---|---|
| streaming cipher | no copy leaves its buffer; the HMAC sees every byte before the cipher does; the verdict depends on the bytes and not on how they were cut; what was encrypted is decrypted and nothing else |
| sharing of the master secret | any t of n PKGs make the key that the master secret would have made, and t - 1 of them know nothing; nobody's share is refused |
| encryption and signatures | both sides of the key encapsulation compute the same secret, and nobody else's key does; a signature is accepted for exactly one message, key and id |
| curve and field | the windowed, cached and projective computations agree with the group |
| file formats | every recipient reads a whole message; success means that the whole of it was read; reading ends |
| user tools | a request fails only when it must; what it brings in makes a key; no message is read without a quorum |
| private key generator | no share is mailed without a record; every client that behaves is served; no zombie stays; a server that died comes back; what the client is told is true |
| byte strings | every string is cleared once, and not used after it; integers survive the round trip as far as they are used |
| parameter generator | the shares and the parameters on disk belong together; nobody works with torn ones |
| configuration | what is set is what is read, in the type it was set; no call disturbs another parameter; what is saved is loaded |

## The modules

Lower modules are extended or instantiated by those to their right.

```
ByteSpans --> SealedStream
          \-> DecryptContext ----.
          \-> EncryptContext ---> CryptoRoundTrip
ThresholdKeys
FormatStream
PkgServer        KeyService        ConfigTable
ByteStrings --> SetupFiles
Fp2 --> Curve --> TatePairing --> IbeOperations
```

### `SealedStream`, `DecryptContext`, `EncryptContext`, `CryptoRoundTrip` (crypto.c)

`DecryptContext` has the fields of `crypto_ctx_s` as variables (`state`, `count`, `ivbuf`,
`auxbuf`), what OpenSSL has been given (`cipher`, `cipherin`, `macin`), and the caller's
position.  There is one action for each way through a function: `crypto_decrypt_update`
collects the IV, completes it or absorbs ciphertext (`CollectIv`, `CompleteIv`, `Absorb`),
and each of the EVP calls in it may fail (`CipherInitFails`, `CompleteIvFails`,
`AbsorbFails`); `crypto_decrypt_final` finds too few bytes, a wrong MAC or a right one.
A piece is any number of bytes, 0 included.  `SealedStream` is what the context promises:
at any time all but the last `MdLen` bytes after the IV have gone to the cipher, and the
verdict is a function of the bytes.  `DecryptContext` implements it (`Refines`), with
`plain <- cipherin`.

`EncryptContext` is the same for `crypto_encrypt_*`: the IV goes in front of the first
output, the HMAC covers it, and `crypto_encrypt` allocates `Len(text) + Block + IvLen +
MdLen` bytes.  `CryptoRoundTrip` feeds what the one wrote to the other, in other pieces.
HMAC and cipher are any functions with the right lengths.

### `ThresholdKeys` (ibe_lib.c:480-592, 750-981)

The points of order q are the numbers of Z_q.  The actions are `IBE_split_master`, saving
and loading the parameters, `IBE_extract_share`, `IBE_combine` (which refuses, or makes a
key) and `IBE_construct_master`; the Lagrange coefficients are computed with the products
of the code.  `Int4` is what `byte_string_set_int` does with a number: `IntBase` values
survive it, 256 in the code.

### `FormatStream` (format.c:45-272)

A message is a sequence of lines, whole, cut off after any line or with one line lost.
`FMT_decrypt_stream` is followed through `advance_to`, `mime_get`, `IBE_reveal_key` and the
loop over W, with the line buffer that `fgets` leaves alone at the end of the file.  What is
in that buffer before anything is read into it is fixed once, when the function is entered:
by chance a line too short to be data (`Blank`), or something else (`Junk`).  A recipient who
reads a file without a W: gets out of the loop in the first case and never in the second.
`K` is the byte string that `IBE_reveal_key` fills, with the clears it goes through.

### `PkgServer` (pkghtml.c)

`parent`, `newfd`, `fds` are main's accept loop; `sigchld` and `handler` the pending signal
and `sig_child` running on main's stack; `child[c]` is the program position of the child
that serves connection c, from the request line to the exit; `banned` is the banned file.
The children's steps are interleaved at every call that touches what they share (open,
read, append).  Forks, accepts, `popen`s and `fopen`s may fail, writes to peers that have
gone kill the child, signals coalesce.  Appending has three outcomes: the line is written
(`Written`); the file cannot be opened, of which there is a warning; or `fprintf` or `fclose`
fails (`WriteFails`), at which nobody looks: `banned_check` returns 0 with nothing written, or
a part of the line (`torn`) that the next line joins.  `failed` is a history variable.

The server itself may die in every position (`AcceptFails`, `Terminated`), or hang in its
handler (`SigChildHangs`: `debug_message` calls `syslog`, whose lock main may hold).  Its
children live on, init reaps them, and `Restart` has to wait for them: `bind` fails as long
as one of them holds the old listening socket, which `handle_session` never closes.  What
was queued on that socket is lost with it.

### `KeyService` (encrypt.c, request.c, combine.c, decrypt.c, format.c:30-43, 275-302)

One user runs `ibe encrypt`, `request`, `combine` and `decrypt` against PKGs seen from
outside: reachable or not, answering or not, mailing shares that may be lost.  An id is a
year, because `FMT_make_id` puts the current one into every id.  `request.c`'s loop is
`Request`, `NextServer`, `Connect`, `GetPage`, `ReadPassword`, `Post`, `Answer`, `Enough`,
`NotEnough`, and `Overrun` for the arrays that are too short (`request.c:221-271`).
`OpenKeyFile` and `SaveKey` are two steps: in between the key file is empty.

### `ConfigTable` (config.c)

`table` is `ConfigParam[0 .. NumParam-1]`, `filespec` the directory of `ConfigFilespec`.
Names and values are sequences of character codes, because `GetFullName` appends `#` and
the index in hexadecimal and `GetIndex` compares no more than `MaxNamLen` characters.  The
calls that read are operators, those that change the table are actions; `GetPathParam` is
one of these, for it keeps the path it makes.  A file is a sequence of lines, each a sequence
of characters with its '\n' at the end.  `LoadConfig` is its scan: `fgets` cuts a line into
pieces that fit the buffer (`Piece`), and in each piece two loops find the name (`NameBegins`,
`NameEnds`) and two more the value (`ValueBegins`, `ValueEnds`); it gives up the whole file at
the first piece it cannot use (`Taken`).  `WriteAndLoad` makes it read what `WriteConfig`
wrote.  Where the code
leaves its memory, because the table is full or a list is empty, or reads
`ConfigFilespec` that `constructCTX` does not set, the stage becomes "undefined".

### `ByteStrings`, `SetupFiles` (byte_string.c:93-257, gen.c, format.c:72-118, 331-460, pkghtml.c:476-519)

`ByteStrings` has `byte_string_encode_array` and `byte_string_decode_array` byte for byte,
with a byte a number below `Base`.  `SetupFiles` puts what they make on disk: each run of
`gen` opens (and thereby empties) one file after the other, writes it line by line, and goes
on whatever happened; it may be killed between any two of these steps, `fopen` may fail, and
the disk be full.  Meanwhile PKGs start with what is there, serve key shares, and are
started again.  A PKG whose configuration cannot be loaded takes the default share file.
`lost`, `killed`, `current` and `recent` are history variables.  The secret is abstract: a
share of run r for PKG i is the pair `<<r, i>>`, and `Interpolated` says which shares make the
key of the parameters; that they do is what `ThresholdKeys` shows.

### `Fp2`, `Curve`, `TatePairing`, `IbeOperations` (fp2.c, curve.c, ibe_lib.c)

`Fp2` has the field operations with the C code's ranges (`fp2_neg` of 0 is p) and the
sliding windows of `fp2_pow`; `Curve` has `curve_init`, the non-adjacent form, `point_add`,
the projective formulas and both windowed multiplications; `TatePairing` Miller's loop for
q = 2^a +- 2^b +- 1, with cached lines (`tate_preprocess`, `miller_postprocess`) and
without (`tate_solinas_miller`); `IbeOperations` the library's calls in their legal orders:
setup, extract, encrypt for two recipients, decrypt, the secret of two, sharing the master
secret, extracting key shares and combining them on curve points (`ThresholdKeys` has all
polynomials and points, but numbers in place of curve points), and keygen, certify, sign,
verify and the BLS variants.  Hashes and random numbers are any of a small set.  Where the code needs
the inverse of 0, which GMP leaves undefined, the model's point is `Lost` and the operation
ends in the stage "undefined"; where it multiplies by 0 an assertion ends it ("aborted").
The reference (`Plus`, `Multiple`) is the group of the textbooks.

## What is checked

Each run is a configuration `MC*.cfg` of the MC module of the same system.

| Run | Instance | What it shows |
|---|---|---|
| `decrypt_context` | IV 2, MAC 3, files of 0 to 9 bytes over {0, 1} | `BuffersFit`, `MacBeforeCipher`, `VerdictIsSound`, `Refines` |
| `crypto_round_trip` | block 2, IV 2, MAC 3, texts of 0 to 4 bytes | `OutFits`, `SealsExactly`, `RoundTrip`, `NothingElseDeciphered` |
| `threshold_keys` | Z_5, 3 PKGs, t = 1, 2, 3, all polynomials and points | `QuorumMakesKey`, `QuorumMakesMaster`, `ForeignShareSpoils`, `FewerTellNothing` |
| `format_stream` | 3 ids, 1 or 2 recipients, 2 lines of W | `OneMeansWhole`, `NothingWithoutKey`, `ClearedOnce`, `RecipientsRead`, `EndsIfClosed` |
| `format_truncated` | the same | finding: `Ends` fails |
| `pkg_server` | 2 connections, one prompt, 2 ids | `MailedIsRecorded`, `EarlierIsNoticed`, `ZombiesReaped`, `PromptServed`, `ComesBack` |
| `pkg_answer` | the same | finding: `AnswerIsTrue` fails |
| `key_service` | 3 PKGs, T = 2, 1 or 2 steady, 2 answering, 2 years, 2 requests | `NotEnoughIsTrue`, `OneRequestSuffices`, `ReadingNeedsQuorum`, `RequestEnds` |
| `key_combine` | the same | finding: `CombineMakesKey` fails |
| `config_table` | 2 entries, names of 1 and 3 characters, indices 0, 1, 17, lines of 10 | `WhatIsSetIsRead`, `OthersUntouched`, `PathIsCurrent`, `AllOrNothing` |
| `setup_files` | 2 runs of gen, 2 files, 2 PKGs, bytes below 8, lines of 12 bytes | `LoadedIsWhole`, `ParamsAreLast`, `KeyIsRight` |
| `ibe_operations` | six (p, q) from (59, 5) to (443, 37) | `TypeOK` (orders of all points and secrets), `MultipleIsRight`, `SecretsAgree`, `CombinedIsKey`, `VerdictIsRight` |

`threshold_keys` and `pkg_server` check `TypeOK` too.  The inductive
invariants (`IInv`, `EncIInv`, `KInv`), the other modules' type invariants, and
`AuxIsWindow` and `CipherSetUp` are proved and left out of the runs.

### The bounds, and why they are enough

* `decrypt_context`: the code compares `count + inl` with the IV length and with the MAC
  length, and `count` with the part to be flushed.  Nine bytes are IV + MAC + 4: files end
  inside the IV, inside the MAC, right after it and so far after it that the window moves
  by less, as much and more than its length.  Two byte values tell positions apart and
  make right and wrong MACs.  The theorems cover all other lengths.
* `crypto_round_trip`: two blocks and every remainder, every cut on both sides.
* `threshold_keys`: 5 is the least prime for which three PKGs can have distinct points
  other than 0 and there is still a choice; points that are 0 or equal occur.  `IntBase` is
  8 in place of 256, more than there are PKGs: an instance with PKGs that an index does not
  tell apart, and a threshold of 3 besides, is out of TLC's reach.  `RefusedOnlyAlike` is the
  theorem about these.
* `format_stream`: with two recipients (`MaxTo`) a reader has to skip a V; with two lines W can be
  cut inside.  `MaxFed` bounds what is remembered of a loop that the code does not end; it
  does not end it either.
* `pkg_server`: races on the file and coalescing signals need two children.  Of two
  clients, one may stall in every position while the other must be served.
  The two also suffice for a child that outlives the server, and one that keeps a new
  server from binding for ever.
* `config_table`: a table of two has an entry besides the one that is set, and is full
  after it.  With names of at most three characters, `a#1` and `a#11` differ beyond what
  `GetIndex` compares and `aaa#1` is too long for a file; a buffer of ten characters cuts
  some of the lines into pieces.  Values that are empty or begin with '=' and white space
  are saved and loaded; files by hand have a comment longer than the buffer, whose end is
  taken for a parameter, a blank line, a name behind white space, one that is too long, a
  last line without its '\n', and more parameters than fit.
* `setup_files`: a file is old, new, torn or absent, which needs two runs; 2-out-of-2 and
  1-out-of-1 let a smaller run leave a share file of a larger one behind.  `Base` is 8: all
  lengths and indices are below, as they are below 256 in the code.  A share has one line,
  parameters have two.
* `key_service`: T = 2 of 3 is the least in which a server can fail and a quorum remain,
  and in which one PKG's share can be missing, doubled, or of last year.  With one steady
  PKG a request may rightly give up.
* `ibe_operations`: the primes' Solinas forms have all four combinations of the signs, and
  none of the middle term (4 + 1, 8 - 1).  Numbers below 32 fit one window of the
  multiplication; 37 has longer ones.  For q < 20 all scalars are tried, for the others the
  ends and the middle.  Three shares are the fewest that can add up to O on the way to a
  key.  y = 1 is a point of order 3, which the cofactor maps to O.

### Fairness

`PkgServer`: the kernel runs every process that can run and delivers pending signals, so
main's loop, the handler and each child's own work are weakly fair.  A child that waits for
its client goes on only if the client sends something: that is assumed of the clients in
`Prompt`, not of the others.  Failures (`AcceptFails`, `Terminated`, `Killed`,
`SigChildHangs`) need never happen.  Whoever looks after the server is assumed to start it
again when that has become possible for good (`WF_vars(Restart)`); nothing in the code does.
`FormatStream` is one sequential program: WF of its next-state relation.  `KeyService`: a
command goes on as soon as what it waits for has come (`AnsweredClient`); PKGs in
`Answering` deal with a request sooner or later.  The user need never type a command, the
year never end and mail never arrive.  The other specifications have no liveness
properties: their programs are called, and nothing obliges a caller to go on.

Deadlock is not checked (`CHECK_DEADLOCK FALSE`) because all of these stop: contexts are
cleared, commands end, clients are finite in number.

### Findings

1. `pkg_answer`: `process` tells the client that its share has been mailed though `popen`
   failed (`pkghtml.c:230, 318`).
2. `format_truncated`: `fgets`'s result is not looked at and `strlen(in) < 0` never holds
   (`format.c:246-248`): a message cut off inside W is read for ever.
3. `key_combine`: `combine.c:60-67` saves a "key" although `IBE_combine` refused.

More disagreements were met on the way.  Those about the curve are spelt out by properties
that hold; the others have no run of their own:

* `byte_string_set_int` casts to a byte before it shifts (`byte_string.c:97-99`).  Share
  256 has the index of share 0, and `IBE_combine` refuses the two as a repetition
  (`ibe_lib.c:546-552`).  `Int4` and `byte_string_set_int` have the cast; the runs stay below
  it, and `RefusedOnlyAlike` goes beyond.
* After a V that does not open with the key, `crypto_decrypt` has cleared K (`crypto.c:444`)
  and `FMT_decrypt_stream` clears it again (`format.c:236`), which `byte_string_clear` calls a
  bug (`byte_string.c:89`).  `ClearedOnce` says who is spared.
* What `banned_check` writes may be lost without a trace: a share is then mailed with neither
  a line nor a warning (`pkghtml.c:269-271`).  `MailedIsRecorded` holds until a write fails
  (`failed`) and says nothing after.
* `SetStringParam` writes past a full table (`config.c:121`), and `SetListParam` with an
  empty list stores to `str[-1]` and sets what was never written (`config.c:390`): stage
  "undefined".
* `GetIndex` compares 20 characters and the index begins behind the name: of a name that
  leaves no room for the index several indices are one parameter (`config.c:74`), and 0xFFFF
  stands for 0.  `OthersUntouched` excepts these by `Distinct`.
* A parameter that is set to the empty string, or to a negative number, is not read back:
  the first makes the saved file unreadable (`config.c:473`), the second is not a number to
  `GetIntParam` (`AllOrNothing`, `WhatIsSetIsRead`).
* A name that begins with ';', which `config.h:19` does not allow, is taken from a line that
  is indented; `WriteConfig` writes it without the indent, and it comes back as a comment.
  `AllOrNothing` excepts tables with such a name.
* `gen` exits with 0 and writes parameters although a share could not be written
  (`gen.c:83`); `ParamsAreLast` excepts these by `lost`.
* `point_mul` and `point_mul_postprocess` divide by 0 for nP = O and, when q = 1 (mod 4),
  for n = q - 2, whose last digit -1 meets -P (`MultipleIsRight`).  For a 160-bit q nobody
  draws such an n.
* They therefore never return O, and the tests for it in `map_byte_string_to_point`
  (`ibe_lib.c:264`) and `IBE_setup` never succeed: the "unlikely case" is not handled.
* `fp2_neg(0)` is p, so `point_add` does not see that P and -P are opposite when they lie
  over F_p (`curve.c:306`), and doubles P: a certificate equal to -xM gives a signature
  that is refused (`VerdictIsRight` excepts this by `SumIsO`), and key shares whose first
  few cancel combine to a wrong key (`CombinedIsKey` says: exactly then;
  `PointAddOverFp` is the proof that it does so for every p).
* `verify` never reads the public key that it is given and passes an uninitialized string
  to `IBE_verify` (`verify.c:21, 46`): what it prints is arbitrary.
* A scalar 0, which `mympz_randomm` can draw, fails an assertion (stage "aborted").

## What is proved

TLAPS proves the following for all values of the constants that satisfy the ASSUMEs of the
modules; TLC evaluates these on the instances.

| Module | Theorems | From |
|---|---|---|
| `DecryptContext_proofs` | `TypeCorrect`, `BuffersAlwaysFit`, `AuxAlwaysWindow`, `CipherAlwaysSetUp`, `MacAlwaysFirst`, `VerdictAlwaysSound`, `AlwaysDueDeciphered`, `Implementation` (of `SealedStream`); the lemmas on what `Span` and `Patch` contain | 1 <= IvLen <= MdLen, the key is not empty |
| `CryptoRoundTrip_proofs` | `EncTypeCorrect`, `OutAlwaysFits`, `AlwaysSealsExactly` of the encryption context; `TripInvariance`, `AlwaysRoundTrip`, `NothingElseEver` of the composition | blocks are not empty, IVs and MACs have their lengths, the cipher pads to whole blocks, both sides have the key |
| `ThresholdKeys_proofs` | `TypeCorrect`, `AlwaysQuorumMakesKey`, `AlwaysQuorumMakesMaster`, `AlwaysQuorumServes`, `RefusedOnlyAlike`, `AlwaysFewerTellNothing` | q is prime, no id is hashed to O; the three that begin `AlwaysQuorum` also `Representable`: thresholds and sizes are below `IntBase`, which is what `byte_string_set_int` keeps |
| `ThresholdKeys_proofs`, second half: the operators of `Curve` and `Fp2` | `StaysOnCurve`, `AddCommutes`, `ProjDoubleIsDouble`, `MixInIsAdd`, `NafIsNonAdjacentForm`, `SavedMultiplesAddUp`, `PointAddOverFp`, `OnePointForY`, `Fp2IsRing`, `Fp2Divides`, `PowmReturns` | p is prime; besides, p > 2 where 2 is divided by, p = 2 (mod 3) for `OnePointForY` and p = 3 (mod 4) for `Fp2Divides`, as for every p = 12 q r - 1; the two about digits also `PowersOfTwo` |
| `FormatStream_proofs` | `TypeCorrect`, `AlwaysOneMeansWhole`, `AlwaysNothingWithoutKey` | W has lines: any number of them, of ids and of recipients, any line lost, any end |
| `PkgServer_proofs` | `TypeCorrect`, `AlwaysRecorded`, `AlwaysNoticed` | none but `Prompt` being clients: any number of clients and ids, any deaths and restarts, opens and writes that fail; `AlwaysRecorded` until the first write that fails |
| `KeyService_proofs` | `TypeCorrect`, `NotEnoughAlwaysTrue`, `ReadingAlwaysNeedsQuorum`, `OneRequestAlwaysSuffices` | finitely many PKGs, T > 0 |
| `ConfigTable_proofs` | `TypeCorrect`, `PathAlwaysCurrent`, `WhatIsSetIsAlwaysRead`, `OthersAlwaysUntouched`, `AlwaysAllOrNothing` | names of the characters that `config.h:19` allows, values without a newline, ints of 32 bits: any names, values, lists, files and bounds, but that the longest name fits a line with its index; `AlwaysAllOrNothing` for names that do not begin with ';' |
| `SetupFiles_proofs` | `EncodedDecodes`, `TornNeverDecodes`, `TypeCorrect`, `AlwaysLoadedWhole`, `ParamsAlwaysLast`, `KeyAlwaysRight` | `Base` above 2; t, n, and the numbers of runs and files below `Base`, as one byte holds them |

All but those about `Curve` and `Fp2` follow the same argument: an inductive invariant
`IInv`, a lemma for every action that it preserves it, one conjunct at a time, and the
properties as its consequences.

* `DecryptContext!IInv` says for each phase how far the file has been read and where its
  bytes are.  None of the properties is inductive alone: that the HMAC precedes the cipher
  in the next step depends on `auxbuf` holding the right window now, and that on `count`
  being min(MdLen, fed - IvLen) exactly.  IvLen <= MdLen is needed: `auxbuf` holds the key
  until the IV is complete.  The step simulation for `Implementation` uses it to compute
  `Due` from `count`.
* `EncryptContext!EncIInv` adds that an open context has written, and its HMAC got, the IV
  and the ciphertext of the whole blocks so far.
* `CryptoRoundTrip!TripInv` joins the two.  The theorems of `DecryptContext_proofs` are
  taken over through INSTANCE, with the recipient's variables for those of the module; what
  is left to say is that the file is the sealed stream, which is a legal file for every text.
  `DueDeciphered`, what the cipher may have got after so many bytes, is what links them.
* `FormatStream!FormatInv`: of what was read so far there is a V only behind the reader's own
  `ID:` line (`Named`), the key was only let through where it fits a V of the message
  (`Unlocked`), and without damage that V is the one next to the id (`OwnV`).  `LinesTyped`
  and `Sent` say what a message with a line missing still has in common with the message.
* `ThresholdKeys!KeysInv`: what gen dealt comes from one polynomial and one choice of points
  (`Dealt`), what a user collected from what was dealt (`Collected`), and a result is what
  the loop of `IBE_combine` makes of it (`KeyMade`).  The theorems are then algebra, proved
  from the primality of q: every d # 0 has an inverse; the products and the sum of the loop
  are those of Lagrange's formula; the formula's value at 0 is the constant term, by
  induction on the set of points, from the two sets that lack one of two of them.  For
  `AlwaysFewerTellNothing` a polynomial through t - 1 points and any value at 0 is put
  together point by point.  `Representable` is needed: of 256 PKGs the parameters that are
  saved have 0 points.  `QuorumServes` is only proved: below `IntBase` it follows from
  `IBE_combine`'s test alone.
* The theorems about `Curve` and `Fp2` (with `E == INSTANCE Curve`) are about the operators
  that `IbeOperations` is built from, for any prime.  They share what is known modulo a
  prime (`Same`, `HasInverse`, `ZpInverse`).  An identity of points is one of polynomials
  modulo p: it is written as a sum of multiples of expressions that are known to be 0, the
  provers check the sum (`Combination4`), and `Combined4` concludes.
  * `StaysOnCurve`: the third zero of the cubic on a chord or tangent.  `ThirdUnique` says
    that the slope, and so the point, is determined by its equation, whatever `zp_inv` is.
  * `ProjDoubleIsDouble`, `MixInIsAdd`: projective coordinates stand for the affine point
    (`StandsFor`), and the new ones for the new point, with w = 2 y z^4 and
    w = (x - a) z^3 as the factor that the code never divides by.  They lose the point
    exactly where the affine functions do: for y = 0, and for equal x.
  * `NafIsNonAdjacentForm`: from the carries, with (n div 2^j) + carry as the value of the
    digits from j on.  The provers know nothing of exponentiation: `PowersOfTwo` (2^0 = 1,
    2^(i+1) = 2 * 2^i, and these are positive) is a hypothesis, and all they are told of it.
  * `SavedMultiplesAddUp` puts these together for `point_mul_preprocess` and
    `point_mul_postprocess`, round by round: what is done in projective coordinates is the
    signed sum that the digits call for (`AddedUp`), and no step leaves the curve.  That
    this sum is n A needs the group laws, and is only model-checked (`MultipleIsRight`).
  * `PointAddOverFp`: over F_p^2 and over F_p the same is computed, and points with the same
    x are doubled even if they are opposite, for every p: the case that `CombinedIsKey` and
    `VerdictIsRight` have to except.
  * `PowmReturns` is Fermat's theorem, by the orbits of the powers of x: they have the same
    size and exhaust 1 .. p - 1 (`OrderDivides`).  From it follow the only cube root of
    `OnePointForY`, and that -1 is not a square for p = 3 (mod 4) (`NotMinusOne`), without
    which `fp2_div` would divide by 0 (`Fp2Divides`).
* `PkgServer!IInv` relates the queues (a connection is in one place), what a child has
  scanned so far, and the stages after the append; without `StartsAfresh` a child might
  begin its scan in the middle of the file.  `TornByFailure` says why a line is written as it
  is as long as nothing has failed.
* `KeyService!IInv`: `Counted` (steady servers tried are at most the successes counted),
  `AskedOnce` (a request has at most one share of each PKG, which needs the list to have no
  repetition), `OneYear` (an untainted request's shares are of one year) and `KeyBacked` (a
  key in the file has a quorum behind it).
* `ConfigTable`: `PathIsCurrent` is inductive with the types.  The others hold of every
  table.  `OthersUntouched` rests on lemmas about `GetFullName`: the hexadecimal digits of
  different indices differ, `#` occurs in no name, so that names and indices can be told
  apart in the result.  `WhatIsSetIsRead` is `SetIsRead`, that the text stored is found again
  where it was put, and one lemma for each type of what the text is read as: atoi makes of
  the digits of a number the number, round by round (ten digits are enough for 32 bits), and
  the n-th call of `strtok` ends behind the n-th item (`TokensAreItems`, by induction on n)
  while every call after the last finds nothing.  Items that are empty or hold a separator
  are excluded (`Plain`) because the text does not tell them from other lists.
  `AllOrNothing` is about the scan: for a line that `WriteConfig` writes each of the four
  loops is shown to stop where it has to (the name has no white space and no '=', the value
  no '\n').  A line that does not fit is given up with its first piece, which holds the whole
  name (`BoundsAssumption`) and not the end of the value.  An induction over the lines
  makes the table of them.  It needs `NamesFit` besides the types: no name in the table is
  longer than a name with an index can be.
* `SetupFiles!IInv`: whatever is on disk, or was loaded, is the beginning of what some run
  writes there (`DiskIsMade`, `PkgIsMade`); with `TornNeverDecodes`, which says that a
  proper beginning of what decodes does not decode, what was loaded is whole.
  `EncodedDecodes` adds that the whole decodes to what was encoded: every array of fewer
  than `Base` * `Base` byte strings shorter than that comes back, because the lengths in
  front of it say where each one ends (`FlattenLaid`, `HeaderLaid`); nobody looks whether an
  array is longer, and `gen`'s never are (`FieldsEncodable`).  `AtFile` and `BeforeIt` say
  how far `gen` has come.  `KInv` adds what is whole: the files before the one `gen` is at
  (`WholeBefore`), all of them when it has ended well (`EndsWhole`), and so what PKGs loaded
  and gave out since (`CurrentIsOfRun`, `RecentIsOfRun`).

Only model-checked: liveness and fairness, which need ENABLED; and what `IbeOperations`
says of real curves, whose theorems would need the group laws of the curve (that addition
is associative, and the order of its points) and bilinearity of the pairing.  Of
the operators below it, the windows of `point_mul` and `fp2_pow` and the loops of the
pairing have no theorems either.

## What is not modelled

* `general_point_mul`, `simple_miller`, `general_miller` (no program calls them), random
  points over F_p^2, output and debugging functions.
* What `IBE_hide_key_array` leaves when `crypto_encrypt` fails, which
  `FMT_encrypt_stream_array` does not look at (`format.c:142`).
* Ownership, comparison and printing of byte strings; `FMT_load_raw_byte_string`.
* What `SetupFiles` assumes of its surroundings: a file is read in one step (it is shorter
  than the buffer of `stdio`), the machine does not crash (what was written stays), and no
  two `gen` run at once in one directory.  The uninitialised end of `gen`'s default list of
  files (`gen.c:28`, with `shares` more than 2 and no `sharefiles`) is not modelled.
* certify, sign and verify as programs (their library calls are in `IbeOperations`).
* Layout, wording and base64; OpenSSL, TLS, DNS, the mailer and GMP, whose effects are
  nondeterministic choices or one-line definitions marked external.
* Ids of more than 125 bytes (`format.c:204`).
* `FMT_decrypt_stream` going on after a failure of OpenSSL (`format.c:254, 258`): what
  `DecryptContext` shows of failures is shown for `crypto_decrypt`, which gives up at the first.
* What the code does nothing about: a main that hangs in its handler (`PromptServed` and
  `ZombiesReaped` except it), and a key file that a kill leaves empty.
* Test programs, `nonsin.c`, `old_code.c`, `infect.c` and the Windows variants.

## The plan

The core comes first: the stream that every long message goes through, then the sharing
of the secret, the server, the formats, the way to a key, and the mathematics below.  All
of these are in place.  Next, in this order:

1. `KeyService` composed with `PkgServer`: a PKG's session implements `Serve`
   (`PkgServer` as the detailed, a three-state session as the abstract specification).
2. Ownership of byte strings under assign, clear and failing decoders, as used by
   `ibe_lib.c:893-981` and `format.c`.
3. Longer Solinas primes, so that the multiplication sees several windows in every
   position.
4. Proofs: that a server of `PkgServer` implements the session of step 1; what the windows
   of `point_mul` and `fp2_pow` make of the digits; the order of addition (associativity).

Runs are one for each question; when new ones come, findings of the same module share one.
