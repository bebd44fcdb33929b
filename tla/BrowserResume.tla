---------------------------- MODULE BrowserResume ----------------------------
(***************************************************************************)
(* What the browser keeps between two attempts to receive a file           *)
(* (web/main.ts): partial files in a folder, a registry in IndexedDB that  *)
(* names them, and in another database the lookup key the registry's       *)
(* identifiers are made with.  Every tab of the origin works on the same   *)
(* stores; a tab prunes the registry when its page is loaded and runs one  *)
(* operation at a time, a receive that may resume or the clear action.     *)
(* Each action is what happens between two awaits; the databases give no   *)
(* atomicity beyond one transaction.                                       *)
(***************************************************************************)
EXTENDS Naturals, FiniteSets

CONSTANTS
  Tabs,        \* pages of the origin
  Files,       \* manifest identities of single-file transfers
  MaxRecords,  \* MAX_BROWSER_RESUME_RECORDS
  MaxKey,      \* lookup keys the model makes at most
  MaxPart,     \* partial files the model makes at most
  Worlds       \* the situations to look at: a set of World

\* What may happen how often: a page is closed, the peer or the link fails a transfer,
\* what was received has another hash, a database request fails, the records of some age
\* expire, the user clears the state.
Event == {"close", "fail", "mismatch", "storage", "expire", "clear"}

\* A record of the registry.  A lookup key is a number, and an identifier made with it
\* the pair of key and file; part 0 stands for a value that is no record; extra, for
\* fields that do not belong into one.  Parts are numbered as they are made, and a
\* record is as old as its part.
Record == [key : 1 .. MaxKey, file : Files, part : 0 .. MaxPart, extra : BOOLEAN]
Partial == [part : 1 .. MaxPart, file : Files, data : BOOLEAN]

\* key: what the key database holds (0 nothing usable); broken: the registry's value is
\* not even an object; keys, made: the lookup keys and partials made before; want: what
\* is going to be received.
World == [key : 0 .. MaxKey, recs : SUBSET Record, broken : BOOLEAN, legacy : SUBSET Record,
          disk : SUBSET Partial, keys : 0 .. MaxKey, made : 0 .. MaxPart,
          tabs : SUBSET Tabs, want : SUBSET Files, may : [Event -> Nat]]

\* A registry is an object with an entry for an identifier; the names of partials are
\* random, so two records do not name the same one.
Registry(S) ==
  \A r, s \in S : \/ r = s
                  \/ <<r.key, r.file>> # <<s.key, s.file>> /\ (r.part = 0 \/ r.part # s.part)

\* The limit is that of rememberBrowserResumePartial, in older versions too: to take
\* their registry over does not cut it off.
ASSUME WorldAssumption ==
  /\ MaxRecords \in Nat \ {0} /\ MaxKey \in Nat /\ MaxPart \in Nat /\ Files # {}
  /\ \A w \in Worlds :
       /\ w \in World /\ w.key <= w.keys /\ IsFiniteSet(w.want) /\ IsFiniteSet(w.tabs)
       /\ \A S \in {w.recs, w.legacy} :
            /\ IsFiniteSet(S) /\ Cardinality(S) <= MaxRecords /\ Registry(S)
            /\ \A r \in S : r.key <= w.keys /\ r.part <= w.made
       /\ \A p, q \in w.disk : p.part <= w.made /\ (p.part = q.part => p = q)

VARIABLES
  world,
  may,      \* what is left of world.may
  keyDb,    \* the key database
  reg,      \* the registry: [broken, recs]; none and empty are the same
  legacy,   \* the registry older versions kept in localStorage
  disk,     \* the partials in the folder
  horizon,  \* records up to this part are older than BROWSER_RESUME_RECORD_TTL_MS
  tab,      \* the pages
  keys,     \* lookup keys made so far
  made,     \* partials made so far
  received, \* files published
  left      \* partials the user was told about when the state was cleared

resumeVars == <<world, may, keyDb, reg, legacy, disk, horizon, tab, keys, made, received, left>>
env == <<world, horizon, keys, made, received, left>>

NoKey == [id |-> 0, kind |-> "none"]

\* prune: where pruneBrowserResumeRegistry is, and what it will write; at: the await of
\* the running operation; for: what its reading of the registry is for; snap: what was
\* read; key: browserResumeLookupKeyPromise.
Closed == [prune |-> "none", old |-> {}, at |-> "closed", for |-> "none", file |-> CHOOSE f \in Files : TRUE,
           snap |-> {}, key |-> NoKey, part |-> 0]

ResumeInit ==
  /\ world \in Worlds
  /\ may = world.may
  /\ keyDb = world.key /\ keys = world.keys
  /\ reg = [broken |-> world.broken, recs |-> IF world.broken THEN {} ELSE world.recs]
  /\ legacy = world.legacy
  /\ disk = world.disk
  /\ made = world.made
  /\ horizon = 0
  /\ tab = [t \in Tabs |-> Closed]
  /\ received = {} /\ left = {}

May(e) == may[e] > 0 /\ may' = [may EXCEPT ![e] = @ - 1]
Unless(e, A, B) == (A /\ UNCHANGED may) \/ (B /\ May(e))

-----------------------------------------------------------------------------
(* The registry *)

Fresh(r) == r.part > horizon
Holds(S) == [broken |-> FALSE, recs |-> S]

\* sanitizeBrowserResumeRegistry: invalid and expired entries go, extra fields too.
Sanitized(S) == {[r EXCEPT !.extra = FALSE] : r \in {s \in S : s.part # 0 /\ Fresh(s)}}
Changed(S) == Sanitized(S) # S

\* Mutant: no limit to the number of records.
RememberedAll(S, r) == {s \in S : <<s.key, s.file>> # <<r.key, r.file>>} \cup {r}

\* rememberBrowserResumePartial: the newest records, this one among them.
Remembered(S, r) ==
  LET all == {s \in S : <<s.key, s.file>> # <<r.key, r.file>> /\ Fresh(s)} \cup {r}
  IN  {s \in all : Cardinality({u \in all : u.part > s.part}) < MaxRecords}

Forgotten(S, k, f) == {s \in S : <<s.key, s.file>> # <<k, f>>}

-----------------------------------------------------------------------------
(* A page is loaded: pruneBrowserResumeRegistry *)

Op(t, at) == tab' = [tab EXCEPT ![t].at = at]

Load(t) ==
  /\ tab[t].at = "closed" /\ t \in world.tabs
  /\ tab' = [tab EXCEPT ![t] = [Closed EXCEPT !.prune = "read", !.at = "idle", !.old = legacy]]
  /\ legacy' = {}
  /\ UNCHANGED <<env, may, keyDb, reg, disk>>

\* The stored registry is read; a broken one, or a failing request, ends in the catch.
PruneRead(t) ==
  /\ tab[t].prune = "read"
  /\ LET value == IF reg.recs = {} THEN tab[t].old ELSE reg.recs
         to(next, S) == tab' = [tab EXCEPT ![t].prune = next, ![t].old = S]
     IN  Unless("storage",
                CASE reg.broken -> to("wipe", {})
                  [] ~reg.broken /\ (tab[t].old # {} \/ Changed(value)) -> to("clear", Sanitized(value))
                  [] ~reg.broken /\ tab[t].old = {} /\ ~Changed(value) -> to("none", {}),
                to("wipe", {}))
  /\ UNCHANGED <<env, keyDb, reg, legacy, disk>>

\* clearBrowserResumeRegistry: the database is deleted.  When another connection blocks
\* it, the request is reported as failed and takes place later all the same.
Deleted(strictly) ==
  IF strictly THEN reg' \in {reg, Holds({})} ELSE reg' = Holds({})

\* Not strict: a failure changes nothing of what follows.
PruneClear(t) ==
  /\ tab[t].prune \in {"clear", "wipe"}
  /\ tab' = [tab EXCEPT ![t].prune = IF @ = "clear" /\ tab[t].old # {} THEN "write" ELSE "none"]
  /\ legacy' = {}
  /\ Unless("storage", Deleted(FALSE), UNCHANGED reg)
  /\ UNCHANGED <<env, keyDb, disk>>

PruneWrite(t) ==
  /\ tab[t].prune = "write"
  /\ tab' = [tab EXCEPT ![t].prune = "none"]
  /\ Unless("storage", reg' = Holds(tab[t].old), UNCHANGED reg)
  /\ UNCHANGED <<env, keyDb, legacy, disk>>

-----------------------------------------------------------------------------
(* Reading and writing the registry in an operation *)

\* Mutant: an operation does not wait for the pruning of its page.
NotReady(t) == TRUE

\* browserResumeRegistryReady.
Ready(t) == tab[t].prune = "none"

\* What follows when the registry was read as S, for the record of the operation's file.
Found(t, S) ==
  LET mine == {r \in S : r.key = tab[t].key.id /\ r.file = tab[t].file} IN
  CASE tab[t].for = "find" /\ mine # {} ->
         [tab[t] EXCEPT !.at = "open", !.snap = S, !.part = (CHOOSE r \in mine : TRUE).part]
    [] tab[t].for = "find" /\ mine = {} -> [tab[t] EXCEPT !.at = "create", !.snap = {}]
    [] tab[t].for = "names" -> [tab[t] EXCEPT !.at = "pick", !.snap = S]
    [] tab[t].for \notin {"find", "names"} -> [tab[t] EXCEPT !.at = "write", !.snap = S]

\* readBrowserResumeRegistry: a registry with anything to scrub is replaced, one that
\* cannot be read is cleared and counts as empty.
Read(t) ==
  /\ tab[t].at = "read" /\ Ready(t)
  /\ LET wipe == tab' = [tab EXCEPT ![t].at = "wipe", ![t].snap = {}]
     IN  Unless("storage",
                CASE reg.broken -> wipe
                  [] ~reg.broken /\ Changed(reg.recs) ->
                       tab' = [tab EXCEPT ![t].at = "replace", ![t].snap = Sanitized(reg.recs)]
                  [] ~reg.broken /\ ~Changed(reg.recs) -> tab' = [tab EXCEPT ![t] = Found(t, reg.recs)],
                wipe)
  /\ UNCHANGED <<env, keyDb, reg, legacy, disk>>

\* replaceBrowserResumeRegistry is a clear and then a write.
ReadClear(t) ==
  /\ tab[t].at \in {"replace", "wipe"}
  /\ tab' = [tab EXCEPT ![t] = IF @.at = "replace" /\ @.snap # {} THEN [@ EXCEPT !.at = "rewrite"]
                               ELSE Found(t, {})]
  /\ legacy' = {}
  /\ Unless("storage", Deleted(FALSE), UNCHANGED reg)
  /\ UNCHANGED <<env, keyDb, disk>>

ReadWrite(t) ==
  /\ tab[t].at = "rewrite"
  /\ tab' = [tab EXCEPT ![t] = Found(t, @.snap)]
  /\ Unless("storage", reg' = Holds(tab[t].snap), UNCHANGED reg)
  /\ UNCHANGED <<env, keyDb, legacy, disk>>

\* writeBrowserResumeRegistry, of rememberBrowserResumePartial and of
\* forgetBrowserResumePartial; an empty registry is deleted.  Only the forgetting of a
\* partial that is gone takes no notice of a failure.
Write(t) ==
  LET k == tab[t].key.id
      r == [key |-> k, file |-> tab[t].file, part |-> tab[t].part, extra |-> FALSE]
      why == tab[t].for
  IN
  /\ tab[t].at = "write"
  /\ Unless("storage",
            /\ reg' = Holds(IF why = "remember" THEN Remembered(tab[t].snap, r)
                            ELSE Forgotten(tab[t].snap, k, tab[t].file))
            /\ Op(t, CASE why = "remember" -> "moving" [] why = "gone" -> "create"
                       [] why = "publish" -> "done" [] why = "mismatch" -> "discard"
                       [] why = "again" -> "idle"),
            /\ UNCHANGED reg
            /\ Op(t, CASE why = "gone" -> "create" [] why = "again" -> "idle"
                       [] why \notin {"gone", "again"} -> "discard"))
  /\ UNCHANGED <<env, keyDb, legacy, disk>>

ReadFor(t, why) == tab' = [tab EXCEPT ![t].at = "read", ![t].for = why]

-----------------------------------------------------------------------------
(* The lookup key: loadBrowserResumeLookupKey *)

\* Accepted with `Resume in folder': the key the page has cached, or the stored one.
StartReceive(t, f) ==
  /\ tab[t].at = "idle" /\ f \in world.want \ received
  /\ made < MaxPart /\ keys < MaxKey
  /\ tab' = [tab EXCEPT ![t].file = f, ![t].part = 0,
                        ![t].at = IF tab[t].key = NoKey THEN "key" ELSE "keyed"]
  /\ UNCHANGED <<env, may, keyDb, reg, legacy, disk>>

KeyRead(t) ==
  /\ tab[t].at = "key"
  /\ Unless("storage",
            IF keyDb = 0 THEN Op(t, "store")
            ELSE tab' = [tab EXCEPT ![t].at = "keyed", ![t].key = [id |-> keyDb, kind |-> "stored"]],
            Op(t, "giveup"))
  /\ UNCHANGED <<env, keyDb, reg, legacy, disk>>

\* A new key is stored, before the records made with another one are cleared.
KeyStore(t) ==
  /\ tab[t].at = "store" /\ keys < MaxKey
  /\ keys' = keys + 1
  /\ Unless("storage",
            /\ keyDb' = keys + 1
            /\ tab' = [tab EXCEPT ![t].at = "reset", ![t].key = [id |-> keys + 1, kind |-> "stored"]],
            UNCHANGED keyDb /\ Op(t, "giveup"))
  /\ UNCHANGED <<world, reg, legacy, disk, horizon, made, received, left>>

KeyReset(t) ==
  /\ tab[t].at = "reset" /\ Ready(t)
  /\ legacy' = {}
  /\ Unless("storage", Deleted(FALSE) /\ Op(t, "keyed"), Deleted(TRUE) /\ Op(t, "unstore"))
  /\ UNCHANGED <<env, keyDb, disk>>

Unpersistent(t) ==
  tab' = [tab EXCEPT ![t].at = "keyed", ![t].key = [id |-> keys, kind |-> "page"]]

\* The clear failed: the new key is deleted again and another one used for this page only.
KeyUnstore(t) ==
  /\ tab[t].at = "unstore"
  /\ Unless("storage", keyDb' = 0 /\ Unpersistent(t), keyDb' \in {0, keyDb} /\ Op(t, "giveup"))
  /\ UNCHANGED <<env, reg, legacy, disk>>

\* The outer catch.
KeyGiveUp(t) ==
  /\ tab[t].at = "giveup" /\ Ready(t)
  /\ legacy' = {}
  /\ Unless("storage", Deleted(FALSE), UNCHANGED reg)
  /\ Unpersistent(t)
  /\ UNCHANGED <<env, keyDb, disk>>

-----------------------------------------------------------------------------
(* A receive: createBrowserReceiveFile and what becomes of the partial *)

\* Without a persistent key there is no resume.
Keyed(t) ==
  /\ tab[t].at = "keyed"
  /\ IF tab[t].key.kind = "stored" THEN ReadFor(t, "find") ELSE Op(t, "idle")
  /\ UNCHANGED <<env, may, keyDb, reg, legacy, disk>>

\* Mutant: a partial that is gone is an error like any other.
OpenPartUncaught(t) ==
  /\ tab[t].at = "open"
  /\ Op(t, IF \E p \in disk : p.part = tab[t].part THEN "moving" ELSE "idle")
  /\ UNCHANGED <<env, may, keyDb, reg, legacy, disk>>

\* resumeBrowserPartialFile: the partial is opened, or its record forgotten.
OpenPart(t) ==
  /\ tab[t].at = "open"
  /\ IF \E p \in disk : p.part = tab[t].part THEN Op(t, "moving") ELSE ReadFor(t, "gone")
  /\ UNCHANGED <<env, may, keyDb, reg, legacy, disk>>

\* createWritableFile, under a random name: made, and then remembered.
CreatePart(t) ==
  /\ tab[t].at = "create" /\ made < MaxPart
  /\ made' = made + 1
  /\ disk' = disk \cup {[part |-> made + 1, file |-> tab[t].file, data |-> FALSE]}
  /\ tab' = [tab EXCEPT ![t].at = "read", ![t].for = "remember", ![t].part = made + 1]
  /\ UNCHANGED <<world, may, keyDb, reg, legacy, horizon, keys, received, left>>

Mine(t) == {p \in disk : p.part = tab[t].part}

\* The transfer fails: the stream is closed, which writes the partial, and it is kept.
TransferFails(t) ==
  /\ tab[t].at = "moving" /\ May("fail")
  /\ disk' = (disk \ Mine(t)) \cup {[p EXCEPT !.data = TRUE] : p \in Mine(t)}
  /\ Op(t, "idle")
  /\ UNCHANGED <<env, keyDb, reg, legacy>>

\* The file has another hash: its record is forgotten, then the partial discarded.
TransferMismatches(t) ==
  /\ tab[t].at = "moving" /\ May("mismatch")
  /\ ReadFor(t, "mismatch")
  /\ UNCHANGED <<env, keyDb, reg, legacy, disk>>

\* The file is published and the partial removed, then the record; a partial another
\* page removed meanwhile fails the transfer.
TransferPublishes(t) ==
  /\ tab[t].at = "moving"
  /\ disk' = disk \ Mine(t)
  /\ IF Mine(t) = {} THEN Op(t, "idle") ELSE ReadFor(t, "publish")
  /\ UNCHANGED <<env, may, keyDb, reg, legacy>>

\* Acknowledged; or the last acknowledgement fails and the file is taken back.
Done(t) ==
  /\ tab[t].at = "done"
  /\ Unless("fail", received' = received \cup {tab[t].file} /\ Op(t, "idle"),
                    UNCHANGED received /\ Op(t, "discard"))
  /\ UNCHANGED <<world, keyDb, reg, legacy, disk, horizon, keys, made, left>>

\* A partial that could not be remembered is removed; the cleanup removes one that is
\* not kept, and forgets it once more.
DiscardPart(t) ==
  /\ tab[t].at = "discard"
  /\ disk' = disk \ Mine(t)
  /\ IF tab[t].for = "remember" THEN Op(t, "idle") ELSE ReadFor(t, "again")
  /\ UNCHANGED <<env, may, keyDb, reg, legacy>>

-----------------------------------------------------------------------------
(* The clear action: clearBrowserResumeState *)

StartClear(t) ==
  /\ tab[t].at = "idle" /\ May("clear")
  /\ ReadFor(t, "names")
  /\ UNCHANGED <<env, keyDb, reg, legacy, disk>>

\* The user chooses the folder, and the partials the registry named are removed, unless
\* a page has one open; or cancels, and is told that they remain.
ClearParts(t) ==
  LET named == {p \in disk : \E r \in tab[t].snap : r.part = p.part}
      busy == {p \in named : \E u \in Tabs : tab[u].at = "moving" /\ tab[u].part = p.part}
  IN
  /\ tab[t].at = "pick"
  /\ Op(t, "erase")
  /\ \/ busy = {} /\ disk' = disk \ named /\ UNCHANGED left
     \/ \E kept \in SUBSET named : /\ kept = named \/ busy # {}
                                   /\ disk' = disk \ (named \ kept)
                                   /\ left' = left \cup {p.part : p \in kept}
  /\ UNCHANGED <<world, may, keyDb, reg, legacy, horizon, keys, made, received>>

ClearRegistry(t) ==
  /\ tab[t].at = "erase"
  /\ legacy' = {}
  /\ Unless("storage", Deleted(FALSE) /\ tab' = [tab EXCEPT ![t].at = "unkey", ![t].key = NoKey],
                       Deleted(TRUE) /\ Op(t, "idle"))
  /\ UNCHANGED <<env, keyDb, disk>>

ClearKey(t) ==
  /\ tab[t].at = "unkey"
  /\ Unless("storage", keyDb' = 0, keyDb' \in {0, keyDb})
  /\ Op(t, "idle")
  /\ UNCHANGED <<env, reg, legacy, disk>>

-----------------------------------------------------------------------------
(* Events *)

\* The page is closed or reloaded, whatever it is doing; streams that are open are lost.
ClosePage(t) ==
  /\ tab[t].at # "closed" /\ May("close")
  /\ tab' = [tab EXCEPT ![t] = Closed]
  /\ UNCHANGED <<env, keyDb, reg, legacy, disk>>

\* Time passes: the records up to some part expire.
Expire ==
  /\ May("expire") /\ \E n \in horizon + 1 .. made : horizon' = n
  /\ UNCHANGED <<world, keyDb, reg, legacy, disk, tab, keys, made, received, left>>

Prune(t) == PruneRead(t) \/ PruneClear(t) \/ PruneWrite(t)

Operation(t) ==
  \/ Read(t) \/ ReadClear(t) \/ ReadWrite(t) \/ Write(t)
  \/ KeyRead(t) \/ KeyStore(t) \/ KeyReset(t) \/ KeyUnstore(t) \/ KeyGiveUp(t) \/ Keyed(t)
  \/ OpenPart(t) \/ CreatePart(t) \/ TransferFails(t) \/ TransferMismatches(t)
  \/ TransferPublishes(t) \/ Done(t) \/ DiscardPart(t)
  \/ ClearParts(t) \/ ClearRegistry(t) \/ ClearKey(t)

ResumeNext ==
  \/ Expire
  \/ \E t \in Tabs : \/ Load(t) \/ Prune(t) \/ Operation(t) \/ StartClear(t) \/ ClosePage(t)
                     \/ \E f \in Files : StartReceive(t, f)

ResumeSpec == ResumeInit /\ [][ResumeNext]_resumeVars

\* Requests are answered, transfers end, and the user loads the page and tries again.
ResumeFairSpec ==
  /\ ResumeSpec
  /\ \A t \in Tabs :
       /\ WF_resumeVars(Load(t)) /\ WF_resumeVars(Prune(t)) /\ WF_resumeVars(Operation(t))
       /\ WF_resumeVars(\E f \in Files : StartReceive(t, f))

-----------------------------------------------------------------------------
(* Properties *)

Page == [prune : {"none", "read", "clear", "wipe", "write"}, old : SUBSET Record,
         at : {"closed", "idle", "key", "store", "reset", "unstore", "giveup", "keyed",
               "read", "replace", "wipe", "rewrite", "write", "open", "create",
               "moving", "done", "discard", "pick", "erase", "unkey"},
         for : {"none", "find", "remember", "gone", "publish", "mismatch", "again", "names"},
         file : Files, snap : SUBSET Record, part : 0 .. MaxPart,
         key : [id : 0 .. MaxKey, kind : {"none", "stored", "page"}]]

ResumeTypeOK ==
  /\ may \in [Event -> Nat]
  /\ keyDb \in 0 .. MaxKey /\ keys \in 0 .. MaxKey
  /\ reg \in [broken : BOOLEAN, recs : SUBSET Record]
  /\ Cardinality(reg.recs) <= MaxRecords
  /\ Registry(reg.recs)
  /\ legacy \subseteq Record /\ disk \subseteq Partial
  /\ horizon \in 0 .. MaxPart /\ made \in 0 .. MaxPart
  /\ received \subseteq Files /\ left \subseteq 1 .. MaxPart
  /\ tab \in [Tabs -> Page]

\* No operation is under way.
Rest == \A t \in Tabs : tab[t].at \in {"idle", "closed"} /\ tab[t].prune = "none"

\* One page at a time, no failing database, no more files than records, nothing stranded
\* and no record made with another key to begin with; and where
\* the page may close at any await, nothing to scrub and no partial to give up, for then
\* what names a partial goes before the partial, or is replaced in two steps.
Calm ==
  /\ Cardinality(world.tabs) = 1 /\ world.may.storage = 0 /\ ~world.broken
  /\ Cardinality(world.want \cup {r.file : r \in world.recs \cup world.legacy}) <= MaxRecords
  /\ \A r \in world.recs \cup world.legacy : r.key = world.key
  /\ \A p \in world.disk : \E r \in world.recs : r.part = p.part /\ r.file = p.file
  /\ world.may.close > 0 => /\ world.may.expire = 0 /\ world.may.mismatch = 0 /\ world.legacy = {}
                            /\ ~Changed(world.recs)

Findable(p) ==
  \/ p.part <= horizon \/ p.part \in left
  \/ \E r \in reg.recs : r.part = p.part /\ r.file = p.file /\ r.key = keyDb

\* A partial with contents is never stranded: a record names it, for its own file and
\* with the stored key, so that a later resume finds it and the clear action too; except
\* what has expired and what the user was told about.
\* The pruning of a page runs beside its first operation and must not undo its record.
KeptIsFound == Calm /\ Rest => \A p \in disk : p.data => Findable(p)

\* Whatever an earlier version, another page or the browser left in the stores (a broken
\* registry, an unusable key, records without their partial or with fields that do not
\* belong there), and whatever two pages do to each other's records and partials: in the
\* end every file is received and nothing unclean remains.  No state of the stores
\* makes a page refuse for good.
Recovers ==
  world.may = [e \in Event |-> 0] =>
    <>[](/\ received = world.want /\ legacy = {} /\ ~reg.broken /\ ~Changed(reg.recs)
         /\ Cardinality(world.tabs) = 1 => {r \in reg.recs : r.file \in received} = {})

-----------------------------------------------------------------------------
(* A claim of the documentation the code keeps only as far as Calm goes *)

\* SECURITY.md 159: a receive "must not preserve an orphan `.part` file that later resume
\* or clear flows cannot discover".
NoOrphanPart == Rest => \A p \in disk : p.data => Findable(p)
=============================================================================
