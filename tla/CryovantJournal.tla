--------------------------- MODULE CryovantJournal ---------------------------
(***************************************************************************)
(* The Cryovant journal of security/ledger/journal.py: a hash-chained      *)
(* append-only file shared by several operating-system processes.          *)
(*                                                                         *)
(* Every process may run append_tx in one thread and                       *)
(* verify_journal_integrity in another.  append_tx serialises itself with  *)
(* an advisory file lock; verify_journal_integrity takes no lock.  Both    *)
(* may start from a remembered "verified tail" (a hash and a file offset): *)
(* a per-process cache, or a tail-state file.  append_tx and verify        *)
(* resolve different side paths from the same journal path                 *)
(* (_derived_journal_paths against the module constants), so there are two *)
(* tail-state files and two genesis paths, one per role.                   *)
(*                                                                         *)
(* Abstractions.  A line's hash covers its payload and the previous hash,  *)
(* so a hash is represented by the sequence of payloads it covers: SHA-256 *)
(* is taken to be injective.  Offsets count written lines, the newline     *)
(* included if there is one.  A content digest is the content.  mtime is   *)
(* left out: it is only ever compared together with the digest.  The       *)
(* write of a line or of the genesis text is one step, unless a crash cuts *)
(* it short.                                                               *)
(***************************************************************************)
EXTENDS Naturals, Sequences, SequencesExt, FiniteSets

CONSTANTS
  Proc,          \* operating-system processes that use the journal
  Payload,       \* what distinguishes one transaction from another
  Absent,        \* "no such file"
  NoTail,        \* "no verified tail is known"
  Unlocked,      \* the append lock is free
  Foreign,       \* a hash that covers no sequence of our payloads
  Genesis,       \* [Role -> payloads of the genesis file at the role's path, or Absent]
  InitialFiles,  \* what may be on disk at start: payloads of a journal, or Absent
  InitialTails,  \* verified tails the append role's tail-state file may start with
  MaxLen,        \* bound: lines in the journal
  MaxFaults      \* bound: process crashes and edits of a stored line from outside

\* append_tx resolves derived paths, verify_journal_integrity the module-level ones.
Role == {"append", "verify"}

\* A hash is the sequence of payloads it covers; the all-zero hash covers none.
Hash == Seq(Payload)
ZeroHash == <<>>
HashLine(prev, pay) == Append(prev, pay)

Line == [prev : Hash, pay : Payload, hash : Hash]
FileTail == [hash : Hash \cup {Foreign}, off : Nat]
CachedTail == [hash : Hash, off : Nat, digest : Seq(Line) \X (SUBSET Nat) \X BOOLEAN]

AppendThread ==
  [pc : {"idle"}]
    \cup [pc : {"seed", "fill", "lock", "validate"}, pay : Payload]
    \cup [pc : {"write", "record"}, pay : Payload, prev : Hash, off : Nat]
VerifyThread ==
  [pc : {"idle", "seed", "fill", "scan"}]
    \cup [pc : {"record"}, hit : BOOLEAN, hash : Hash, off : Nat]

ASSUME NameAssumption ==
  /\ Foreign \notin Hash
  /\ Unlocked \notin Proc
  /\ Absent \notin Hash
  /\ NoTail \notin FileTail \cup CachedTail

ASSUME ParameterAssumption ==
  /\ Genesis \in [Role -> Hash \cup {Absent}]
  /\ InitialFiles \subseteq Hash \cup {Absent}
  /\ InitialTails \subseteq [hash : {Foreign}, off : Nat] \cup {NoTail}
  /\ MaxLen \in Nat /\ MaxFaults \in Nat

VARIABLES
  exists,   \* the journal file exists
  journal,  \* the lines written to it
  unended,  \* numbers of the lines a crash has left without their newline
  torn,     \* it ends in a fragment of a line a crash left behind
  tail,     \* the two tail-state files, by role
  cache,    \* _VERIFIED_TAIL_CACHE of each process
  lock,     \* holder of the append lock
  app,      \* the thread of each process that runs append_tx
  ver,      \* the thread of each process that runs verify_journal_integrity
  acked,    \* hashes append_tx has returned to a caller
  seedRaced,  \* a genesis seed has met a file that was already in use
  crashes, tampers

fileVars == <<exists, journal, unended, torn>>
vars == <<fileVars, tail, cache, lock, app, ver, acked, seedRaced, crashes, tampers>>

-----------------------------------------------------------------------------
(* The file and what a scan of it finds *)

\* A well-formed chain of lines with these payloads.
ChainOf(pays) ==
  [i \in 1..Len(pays) |-> [prev |-> SubSeq(pays, 1, i - 1),
                           pay  |-> pays[i],
                           hash |-> SubSeq(pays, 1, i)]]

\* The hash of the first n payloads of some lines, and of the stored ones.
HashOf(lines, n) == [i \in 1..n |-> lines[i].pay]
HashAt(n) == HashOf(journal, n)

Content == <<journal, unended, torn>>

\* Lines that another one was written behind, on the same line of the file.
Joined == {i \in unended : i < Len(journal)}

\* Mutant: links are compared, hashes are not recomputed.
LinesLinked_NoRehash(off, hash) ==
  \A i \in (off + 1)..Len(journal) :
    journal[i].prev = IF i = off + 1 THEN hash ELSE journal[i - 1].hash

\* The lines beyond an offset link to the hash expected there and to each other.
LinesLinked(off, hash) ==
  \A i \in (off + 1)..Len(journal) :
    /\ journal[i].prev = IF i = off + 1 THEN hash ELSE journal[i - 1].hash
    /\ journal[i].hash = HashLine(journal[i].prev, journal[i].pay)

\* Mutant: a scan that skips lines it cannot parse.
ScanAccepts_SkipsTorn(off, hash) == LinesLinked(off, hash)

\* _scan_chain from an offset meets neither a broken link nor an unparsable line.  That
\* the last line has no newline is not looked at.
ScanAccepts(off, hash) ==
  /\ ~torn
  /\ \A i \in Joined : i <= off
  /\ LinesLinked(off, hash)

\* The hash such a scan returns; the offset it returns is the end of the file.
ScanHash(off, hash) ==
  IF Len(journal) = off THEN hash ELSE journal[Len(journal)].hash

\* The journal read from its first line is an unbroken chain.
FileIntact == ScanAccepts(0, ZeroHash)

\* _resume_verified_tail: a tail the file has outgrown is resumed by a suffix scan.
Outgrown(t) ==
  /\ t # NoTail
  /\ t.off < Len(journal) \/ (t.off = Len(journal) /\ torn)
Resumes(t) == Outgrown(t) /\ ScanAccepts(t.off, t.hash)
ResumeRaises(t) == Outgrown(t) /\ ~ScanAccepts(t.off, t.hash)

\* Mutant: a cached tail is trusted whatever the file's size.
CacheHit_NoSizeCheck(p) == cache[p] # NoTail

\* ... and a cached tail level with the file is trusted if the content is unchanged.
CacheHit(p) ==
  /\ cache[p] # NoTail
  /\ cache[p].off = Len(journal) /\ ~torn
  /\ cache[p].digest = Content

\* _validated_last_hash: the cache, then the tail-state file, then the whole file.
Validation(role, p) ==
  LET From(t) == [ok |-> TRUE, hit |-> FALSE, off |-> Len(journal),
                  hash |-> ScanHash(t.off, t.hash)]
      start == [hash |-> ZeroHash, off |-> 0]
  IN CASE CacheHit(p) -> [ok |-> TRUE, hit |-> TRUE, off |-> cache[p].off, hash |-> cache[p].hash]
       [] ~CacheHit(p) /\ Resumes(cache[p]) -> From(cache[p])
       [] ~CacheHit(p) /\ ~Resumes(cache[p]) /\ Resumes(tail[role]) -> From(tail[role])
       [] ~CacheHit(p) /\ ~Resumes(cache[p]) /\ ~Resumes(tail[role]) ->
            IF FileIntact THEN From(start) ELSE [ok |-> FALSE]

\* A resume that raised has cleared the cache before validation gives up.
CacheAfterError(role, p) ==
  IF ResumeRaises(cache[p]) \/ ResumeRaises(tail[role]) THEN NoTail ELSE cache[p]

\* _write_verified_tail_cache takes the digest of the file as it is now.
CacheEntry(hash, off) == [hash |-> hash, off |-> off, digest |-> Content]

-----------------------------------------------------------------------------
IdleAppend == [pc |-> "idle"]
IdleVerify == [pc |-> "idle"]

Init ==
  /\ \E file \in InitialFiles :
       /\ exists = (file # Absent)
       /\ journal = IF file = Absent THEN <<>> ELSE ChainOf(file)
  /\ unended = {} /\ torn = FALSE
  /\ \E t \in InitialTails : tail = [r \in Role |-> IF r = "append" THEN t ELSE NoTail]
  /\ cache = [p \in Proc |-> NoTail]
  /\ lock = Unlocked
  /\ app = [p \in Proc |-> IdleAppend]
  /\ ver = [p \in Proc |-> IdleVerify]
  /\ acked = {}
  /\ seedRaced = FALSE
  /\ crashes = 0 /\ tampers = 0

Empty == journal = <<>> /\ ~torn

\* An appender has found the tail of the file and is about to write behind it.
AboutToWrite == \E p \in Proc : app[p].pc = "write"

\* The second half of ensure_journal, run when its exists() check saw no file: touch
\* leaves a file that is there by now alone, write_text truncates it ...
OpenJournal(role) ==
  /\ exists' = TRUE
  /\ IF Genesis[role] = Absent
     THEN UNCHANGED <<journal, unended, torn, seedRaced>>
     ELSE /\ journal' = <<>> /\ unended' = {} /\ torn' = FALSE
          /\ seedRaced' = (seedRaced \/ ~Empty)
AfterOpen(role, next) == IF Genesis[role] = Absent THEN next ELSE "fill"

\* ... and writes the genesis text from its first byte, over what others may have written
\* since.  Other text than the same genesis is partly overwritten, with a remainder.
FillJournal(role) ==
  LET genesis == ChainOf(Genesis[role])
      same == /\ IsPrefix(genesis, journal) /\ genesis # <<>>
              /\ \A i \in unended : i > Len(genesis)
  IN
  /\ IF same THEN UNCHANGED <<journal, unended, torn>>
     ELSE /\ journal' = genesis /\ unended' = {}
          /\ torn' \in IF Empty THEN {FALSE} ELSE BOOLEAN
  /\ seedRaced' = (seedRaced \/ (~same /\ (~Empty \/ AboutToWrite)))
  /\ UNCHANGED exists

-----------------------------------------------------------------------------
(* append_tx *)

\* The exists() check of ensure_journal, before the lock is taken.
BeginAppend(p) ==
  /\ app[p].pc = "idle"
  /\ Len(journal) < MaxLen
  /\ \E pay \in Payload :
       app' = [app EXCEPT ![p] = [pc |-> IF exists THEN "lock" ELSE "seed", pay |-> pay]]
  /\ UNCHANGED <<fileVars, tail, cache, lock, ver, acked, seedRaced, crashes, tampers>>

AppendSeed(p) ==
  /\ UNCHANGED <<tail, cache, lock, ver, acked, crashes, tampers>>
  /\ \/ /\ app[p].pc = "seed"
        /\ OpenJournal("append")
        /\ app' = [app EXCEPT ![p].pc = AfterOpen("append", "lock")]
     \/ /\ app[p].pc = "fill"
        /\ FillJournal("append")
        /\ app' = [app EXCEPT ![p].pc = "lock"]

\* Mutant: the append lock excludes nobody.
AcquireLock_Unguarded(p) ==
  /\ app[p].pc = "lock"
  /\ lock' = p
  /\ app' = [app EXCEPT ![p].pc = "validate"]
  /\ UNCHANGED <<fileVars, tail, cache, ver, acked, seedRaced, crashes, tampers>>

AcquireLock(p) ==
  /\ app[p].pc = "lock"
  /\ lock = Unlocked
  /\ lock' = p
  /\ app' = [app EXCEPT ![p].pc = "validate"]
  /\ UNCHANGED <<fileVars, tail, cache, ver, acked, seedRaced, crashes, tampers>>

\* _validated_last_hash under the lock: the hash to chain from and the offset.
ValidateTail(p) ==
  LET v == Validation("append", p) IN
  /\ app[p].pc = "validate"
  /\ v.ok
  /\ cache' = [cache EXCEPT ![p] = CacheEntry(v.hash, v.off)]
  /\ tail' = IF v.hit THEN tail ELSE [tail EXCEPT !["append"] = [hash |-> v.hash, off |-> v.off]]
  /\ app' = [app EXCEPT ![p] = [pc |-> "write", pay |-> app[p].pay, prev |-> v.hash, off |-> v.off]]
  /\ UNCHANGED <<fileVars, lock, ver, acked, seedRaced, crashes, tampers>>

\* The integrity error propagates to the caller and the lock is released.
AppendRaises(p) ==
  /\ app[p].pc = "validate"
  /\ ~Validation("append", p).ok
  /\ cache' = [cache EXCEPT ![p] = CacheAfterError("append", p)]
  /\ app' = [app EXCEPT ![p] = IdleAppend]
  /\ lock' = Unlocked
  /\ UNCHANGED <<fileVars, tail, ver, acked, seedRaced, crashes, tampers>>

NewLine(p) == [prev |-> app[p].prev, pay |-> app[p].pay,
               hash |-> HashLine(app[p].prev, app[p].pay)]

WriteLine(p) ==
  /\ app[p].pc = "write"
  /\ journal' = Append(journal, NewLine(p))
  /\ app' = [app EXCEPT ![p].pc = "record"]
  /\ UNCHANGED <<exists, unended, torn, tail, cache, lock, ver, acked, seedRaced, crashes, tampers>>

\* Mutant: the tail is recorded at the offset where the new line begins.
RecordTail_OldOffset(p) ==
  LET hash == HashLine(app[p].prev, app[p].pay) IN
  /\ app[p].pc = "record"
  /\ tail' = [tail EXCEPT !["append"] = [hash |-> hash, off |-> app[p].off]]
  /\ cache' = [cache EXCEPT ![p] = CacheEntry(hash, app[p].off)]
  /\ acked' = acked \cup {hash}
  /\ lock' = Unlocked
  /\ app' = [app EXCEPT ![p] = IdleAppend]
  /\ UNCHANGED <<fileVars, ver, seedRaced, crashes, tampers>>

\* Tail state and cache advance past the new line, the lock is released and the
\* entry is returned.
RecordTail(p) ==
  LET hash == HashLine(app[p].prev, app[p].pay)
      off == app[p].off + 1
  IN
  /\ app[p].pc = "record"
  /\ tail' = [tail EXCEPT !["append"] = [hash |-> hash, off |-> off]]
  /\ cache' = [cache EXCEPT ![p] = CacheEntry(hash, off)]
  /\ acked' = acked \cup {hash}
  /\ lock' = Unlocked
  /\ app' = [app EXCEPT ![p] = IdleAppend]
  /\ UNCHANGED <<fileVars, ver, seedRaced, crashes, tampers>>

-----------------------------------------------------------------------------
(* verify_journal_integrity, and the callers of ensure_journal alone *)

BeginVerify(p) ==
  /\ ver[p].pc = "idle"
  /\ ver' = [ver EXCEPT ![p] = [pc |-> IF exists THEN "scan" ELSE "seed"]]
  /\ UNCHANGED <<fileVars, tail, cache, lock, app, acked, seedRaced, crashes, tampers>>

VerifySeed(p) ==
  /\ UNCHANGED <<tail, cache, lock, app, acked, crashes, tampers>>
  /\ \/ /\ ver[p].pc = "seed"
        /\ OpenJournal("verify")
        /\ ver' = [ver EXCEPT ![p].pc = AfterOpen("verify", "scan")]
     \/ /\ ver[p].pc = "fill"
        /\ FillJournal("verify")
        /\ ver' = [ver EXCEPT ![p].pc = "scan"]

\* _validated_last_hash without the lock; what it found is written in a later step.
VerifyScan(p) ==
  LET v == Validation("verify", p) IN
  /\ ver[p].pc = "scan"
  /\ v.ok
  /\ ver' = [ver EXCEPT ![p] = [pc |-> "record", hit |-> v.hit, hash |-> v.hash, off |-> v.off]]
  /\ UNCHANGED <<fileVars, tail, cache, lock, app, acked, seedRaced, crashes, tampers>>

VerifyRaises(p) ==
  /\ ver[p].pc = "scan"
  /\ ~Validation("verify", p).ok
  /\ cache' = [cache EXCEPT ![p] = CacheAfterError("verify", p)]
  /\ ver' = [ver EXCEPT ![p] = IdleVerify]
  /\ UNCHANGED <<fileVars, tail, lock, app, acked, seedRaced, crashes, tampers>>

VerifyRecord(p) ==
  /\ ver[p].pc = "record"
  /\ cache' = [cache EXCEPT ![p] = CacheEntry(ver[p].hash, ver[p].off)]
  /\ tail' = IF ver[p].hit THEN tail
             ELSE [tail EXCEPT !["verify"] = [hash |-> ver[p].hash, off |-> ver[p].off]]
  /\ ver' = [ver EXCEPT ![p] = IdleVerify]
  /\ UNCHANGED <<fileVars, lock, app, acked, seedRaced, crashes, tampers>>

\* invalidate_journal_cache
InvalidateCache(p) ==
  /\ cache[p] # NoTail
  /\ cache' = [cache EXCEPT ![p] = NoTail]
  /\ UNCHANGED <<fileVars, tail, lock, app, ver, acked, seedRaced, crashes, tampers>>

-----------------------------------------------------------------------------
(* The environment *)

\* What a write behind some lines may leave when it is cut short: whole lines, then
\* nothing, a fragment, or the last line without its newline.
CutShort(base, lines) ==
  \E k \in 0..Len(lines) :
    /\ journal' = base \o SubSeq(lines, 1, k)
    /\ \/ UNCHANGED unended /\ torn' \in {torn, torn \/ k < Len(lines)}
       \/ k > 0 /\ unended' = unended \cup {Len(base) + k} /\ UNCHANGED torn

\* Dying inside a write.  (One that runs over text of others is not cut.)
CutWrite(p) ==
  \/ /\ app[p].pc = "write"
     /\ CutShort(journal, <<NewLine(p)>>)
     /\ UNCHANGED seedRaced
  \/ \E role \in Role :
       /\ (IF role = "append" THEN app[p].pc ELSE ver[p].pc) = "fill"
       /\ Empty /\ unended = {}
       /\ CutShort(<<>>, ChainOf(Genesis[role]))
       /\ seedRaced' = (seedRaced \/ AboutToWrite)

\* A process dies and restarts: its cache is gone, the system frees its lock.
Crash(p) ==
  /\ crashes + tampers < MaxFaults
  /\ crashes' = crashes + 1
  /\ CutWrite(p) \/ UNCHANGED <<journal, unended, torn, seedRaced>>
  /\ app' = [app EXCEPT ![p] = IdleAppend]
  /\ ver' = [ver EXCEPT ![p] = IdleVerify]
  /\ cache' = [cache EXCEPT ![p] = NoTail]
  /\ lock' = IF lock = p THEN Unlocked ELSE lock
  /\ UNCHANGED <<exists, tail, acked, tampers>>

\* Someone edits a stored payload in place.
Tamper ==
  /\ crashes + tampers < MaxFaults
  /\ tampers' = tampers + 1
  /\ \E i \in DOMAIN journal, pay \in Payload :
       /\ pay # journal[i].pay
       /\ journal' = [journal EXCEPT ![i].pay = pay]
  /\ UNCHANGED <<exists, unended, torn, tail, cache, lock, app, ver, acked, seedRaced, crashes>>

AppendStep(p) ==
  \/ AppendSeed(p) \/ AcquireLock(p) \/ ValidateTail(p) \/ AppendRaises(p)
  \/ WriteLine(p) \/ RecordTail(p)
VerifyStep(p) == VerifySeed(p) \/ VerifyScan(p) \/ VerifyRaises(p) \/ VerifyRecord(p)

Next ==
  \/ \E p \in Proc :
       \/ BeginAppend(p) \/ AppendStep(p)
       \/ BeginVerify(p) \/ VerifyStep(p)
       \/ InvalidateCache(p) \/ Crash(p)
  \/ Tamper

Spec == Init /\ [][Next]_vars

-----------------------------------------------------------------------------
(* Correctness *)

TypeOK ==
  /\ exists \in BOOLEAN
  /\ journal \in Seq(Line)
  /\ unended \subseteq 1..Len(journal)
  /\ torn \in BOOLEAN
  /\ tail \in [Role -> FileTail \cup {NoTail}]
  /\ cache \in [Proc -> CachedTail \cup {NoTail}]
  /\ lock \in Proc \cup {Unlocked}
  /\ app \in [Proc -> AppendThread]
  /\ ver \in [Proc -> VerifyThread]
  /\ \A p \in Proc : /\ app[p].pc = "fill" => Genesis["append"] # Absent
                     /\ ver[p].pc = "fill" => Genesis["verify"] # Absent
  /\ acked \subseteq Hash
  /\ seedRaced \in BOOLEAN
  /\ crashes \in Nat /\ tampers \in Nat /\ crashes + tampers <= MaxFaults

\* So far nobody has edited a stored line, and no process that found no journal has
\* seeded one over a file that others had begun to use by then.
Calm == ~seedRaced /\ tampers = 0

\* The stored lines form one chain from the genesis hash, whatever the order in
\* which processes seed, append, verify, crash and restart, and each crash makes at
\* most one place of it unreadable (append_tx, _scan_chain).
ChainIntact == Calm => LinesLinked(0, ZeroHash) /\ Cardinality(Joined) <= crashes

\* Between validation and write, the hash and offset an appender chains from are those
\* of the last stored line, and those a scan of the whole file would have given it,
\* whether they came from its cache, from a tail-state file or from a full scan;
\* only behind a joined line would the scan have raised (_validated_last_hash).
WarmEqualsCold ==
  Calm => \A p \in Proc :
            app[p].pc = "write" =>
              /\ Joined = {} => FileIntact
              /\ app[p].off = Len(journal) /\ ~torn
              /\ app[p].prev = HashAt(Len(journal))

\* JOURNAL-CACHE-DETERM-0 as the code states it: what a warm append accepts, a cold one
\* accepts too, also after a crash (_validated_last_hash).
WarmIsCold == \A p \in Proc : app[p].pc = "write" => FileIntact

\* An entry append_tx returned to its caller stays in the file, at its place and
\* behind the same predecessors, through every later append, crash and verify.
AckedPermanent ==
  \A h \in acked :
    /\ Len(h) <= Len(journal)
    /\ h = HashAt(Len(h))

\* Every remembered tail that the file has reached denotes a prefix of it, or is
\* one no line can follow (_write_verified_tail_state, _resume_verified_tail).
TailSound(t) ==
  t # NoTail /\ t.off <= Len(journal) => t.hash \in {HashAt(t.off), Foreign}
TailsSound ==
  Calm => /\ \A r \in Role : TailSound(tail[r])
          /\ \A p \in Proc : TailSound(cache[p])

\* The lines carry exactly the hashes of the payloads up to them: what ChainIntact
\* becomes when nobody edits the file, in a form one step preserves.
LinesExact ==
  \A i \in 1..Len(journal) : journal[i].prev = HashAt(i - 1) /\ journal[i].hash = HashAt(i)

\* The append lock is held by the one thread between validation and recording.
LockHeld ==
  \A p \in Proc : app[p].pc \in {"validate", "write", "record"} <=> lock = p

\* The tail an appender is about to write behind is that of the file.
ChainsFromTail ==
  \A p \in Proc :
    app[p].pc = "write" =>
      ~torn /\ app[p].off = Len(journal) /\ app[p].prev = HashAt(Len(journal))

\* The line a writer has written but not recorded is the last one.
UnrecordedIsLast ==
  \A p \in Proc :
    app[p].pc = "record" =>
      /\ Len(journal) = app[p].off + 1
      /\ HashLine(app[p].prev, app[p].pay) = HashAt(Len(journal))

\* Caches, results of unlocked scans, and tail-state files other than a foreign one,
\* denote a prefix of the file, however old.
DenotesPrefix(t) == t.off <= Len(journal) /\ t.hash = HashAt(t.off)
RememberedPrefixes ==
  /\ \A p \in Proc :
       /\ cache[p] # NoTail => DenotesPrefix(cache[p])
       /\ ver[p].pc = "record" => DenotesPrefix(ver[p])
  /\ \A r \in Role : tail[r] # NoTail => tail[r].hash = Foreign \/ DenotesPrefix(tail[r])

\* What holds while the journal is calm: its lines, its readers' memories and what
\* callers were told agree, and a crash leaves at most one line without its end.
CalmInv ==
  /\ LinesExact
  /\ ChainsFromTail
  /\ UnrecordedIsLast
  /\ RememberedPrefixes
  /\ AckedPermanent
  /\ Cardinality(unended) <= crashes

\* The inductive invariant (append_tx, _validated_last_hash, verify_journal_integrity).
IInv == TypeOK /\ LockHeld /\ (Calm => CalmInv)

\* A fragment left by a crash stops the journal: no line is ever written behind it.
\* (A line that lacks only its newline does not: see WarmIsCold.)
TornBlocks == [][torn /\ Calm' => journal' = journal]_vars

\* What is stored is an append-only log with permanent acknowledgements, the abstract
\* specification AppendOnlyLog, as long as the journal is calm (append_tx).
Log == INSTANCE AppendOnlyLog WITH log <- HashAt(Len(journal)), acked <- acked
LogStep == Log!Next \/ UNCHANGED <<HashAt(Len(journal)), acked>>
AppendOnly == Log!Init /\ [][Calm' => LogStep]_vars

\* An edited line, or one another was written behind, is always met by a scan: an append
\* or a verify passes over it only by resuming from a tail that lies behind it
\* (_resume_verified_tail).
DamagedLines ==
  Joined \cup
    {i \in DOMAIN journal : journal[i].hash # HashLine(journal[i].prev, journal[i].pay)}
Covered(i, t) == t # NoTail /\ t.off >= i
UnverifiedEditCaught ==
  [][\A p \in Proc, i \in DamagedLines :
       /\ app[p].pc = "validate" /\ app'[p].pc = "write"
            => Covered(i, cache[p]) \/ Covered(i, tail["append"])
       /\ ver[p].pc = "scan" /\ ver'[p].pc = "record"
            => Covered(i, cache[p]) \/ Covered(i, tail["verify"])]_vars
=============================================================================
