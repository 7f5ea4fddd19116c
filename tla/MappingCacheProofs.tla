------------------------- MODULE MappingCacheProofs -------------------------
(***************************************************************************)
(* Theorems about MappingCache, for any accounts, signatures and contract  *)
(* specifications and any number of requests, removals and restarts.       *)
(***************************************************************************)
EXTENDS MappingCache, FiniteSetTheorems, TLAPS

Pcs   == {"idle", "lookup", "save", "populate", "point", "clear", "activate", "edit", "repopulate"}
Snaps == [sig : Sigs \cup {"none"}, spec : Contracts \cup {NoSpec}]
Calls == [pc : Pcs, snap : Snaps, hit : BOOLEAN, used : SUBSET Accounts, cut : BOOLEAN]
Files == [spec : Contracts \cup {NoSpec}, mapped : SUBSET Symbols, used : SUBSET Accounts]
Hashes == [there : BOOLEAN, used : SUBSET Accounts]
Removals ==
  [pc : {"idle", "drop", "users", "trim"}, account : Accounts \cup {"none"},
   sig : Sigs \cup {"none"}, used : SUBSET Accounts]

\* A request under way is about a signature, and a save about a whole snapshot
\* up to its write.
WellFormed(c) ==
  /\ c.pc # "idle" => c.snap.sig \in Sigs
  /\ c.pc \in {"lookup", "save"} => c.snap \in Snapshots

\* A removal under way is about an account, and past its pipeline a signature.
Typed ==
  /\ files \in [Sigs -> Files] /\ hashes \in [Sigs -> Hashes]
  /\ pointer \in [Accounts -> Sigs \cup {"none"}]
  /\ status \in [Accounts -> {"none", "pending_mapping", "active"}]
  /\ raw \in [Accounts -> Snapshots \cup {NoSnap}]
  /\ registered \subseteq Accounts
  /\ call \in [Accounts -> Calls]
  /\ \A a \in Accounts : WellFormed(call[a])
  /\ cli \in Removals
  /\ cli.pc # "idle" => cli.account \in Accounts
  /\ cli.pc \in {"users", "trim"} => cli.sig \in Sigs

LEMMA TypedIsTypeOK == Typed => TypeOK
BY DEF Typed, TypeOK, Files, Hashes, Calls, Pcs, Snaps, Removals

LEMMA InitTyped ==
  ASSUME Init PROVE Typed
<1>1. NoFile \in Files /\ NoHash \in Hashes /\ NoRemoval \in Removals
  BY DEF NoFile, NoHash, NoRemoval, Files, Hashes, Removals
<1>2. Idle \in Calls /\ WellFormed(Idle)
  BY DEF Idle, NoSnap, Calls, Pcs, Snaps, WellFormed
<1> QED
  BY <1>1, <1>2 DEF Init, Typed, NoRemoval

-----------------------------------------------------------------------------
(* The request of one account.                                             *)

\* A request that only moves on.
LEMMA CallAt ==
  ASSUME NEW c \in Calls, NEW pc \in Pcs
  PROVE  /\ [c EXCEPT !.pc = pc] \in Calls
         /\ [c EXCEPT !.pc = pc].pc = pc
         /\ [c EXCEPT !.pc = pc].snap = c.snap
         /\ [c EXCEPT !.pc = pc].used = c.used
         /\ [c EXCEPT !.pc = pc].cut = c.cut
BY DEF Calls

\* One request changes and the others are left alone.
LEMMA OneCall ==
  ASSUME Typed, NEW a \in Accounts, NEW c \in Calls, WellFormed(c),
         call' = [call EXCEPT ![a] = c]
  PROVE  /\ call' \in [Accounts -> Calls]
         /\ \A b \in Accounts : WellFormed(call'[b])
         /\ \A b \in Accounts : call'[b] = IF b = a THEN c ELSE call[b]
BY DEF Typed

\* A request of an account moves on to a place where it needs no more than it has.
LEMMA MovesOn ==
  ASSUME Typed, NEW a \in Accounts, NEW pc \in Pcs, call[a].pc # "idle",
         pc \in {"lookup", "save"} => call[a].pc \in {"lookup", "save"},
         call' = [call EXCEPT ![a].pc = pc]
  PROVE  /\ call' \in [Accounts -> Calls]
         /\ \A b \in Accounts : WellFormed(call'[b])
         /\ \A b \in Accounts : b # a => call'[b] = call[b]
         /\ call'[a].pc = pc /\ call'[a].snap = call[a].snap
         /\ call'[a].used = call[a].used /\ call'[a].cut = call[a].cut
<1> DEFINE c == [call[a] EXCEPT !.pc = pc]
<1>1. call[a] \in Calls /\ WellFormed(call[a])
  BY DEF Typed
<1>2. c \in Calls /\ c.pc = pc /\ c.snap = call[a].snap /\ c.used = call[a].used
      /\ c.cut = call[a].cut
  BY <1>1, CallAt
<1>3. call' = [call EXCEPT ![a] = c]
  OBVIOUS
<1> HIDE DEF c
<1>4. WellFormed(c)
  BY <1>1, <1>2 DEF WellFormed
<1>5. \A b \in Accounts : call'[b] = IF b = a THEN c ELSE call[b]
  BY <1>2, <1>3, <1>4, OneCall
<1> QED
  BY <1>2, <1>3, <1>4, <1>5, OneCall

\* A request ends.
LEMMA CallEnds ==
  ASSUME Typed, NEW a \in Accounts, call' = [call EXCEPT ![a] = Idle]
  PROVE  /\ call' \in [Accounts -> Calls]
         /\ \A b \in Accounts : WellFormed(call'[b])
         /\ \A b \in Accounts : call'[b] = IF b = a THEN Idle ELSE call[b]
<1>1. Idle \in Calls /\ WellFormed(Idle)
  BY DEF Idle, NoSnap, Calls, Pcs, Snaps, WellFormed
<1> QED
  BY <1>1, OneCall

\* What post_save_mapping starts: a save of the snapshot it read.
LEMMA SaveStarts ==
  ASSUME Typed, NEW a \in Accounts, post_save_mapping(a)
  PROVE  /\ call' \in [Accounts -> Calls]
         /\ \A b \in Accounts : WellFormed(call'[b])
         /\ \A b \in Accounts : b # a => call'[b] = call[b]
         /\ call'[a].pc = "lookup" /\ raw[a] \in Snapshots
<1> DEFINE c == [Idle EXCEPT !.pc = "lookup", !.snap = raw[a]]
<1>1. raw[a] \in Snapshots
  BY DEF Typed, post_save_mapping
<1>2. c \in Calls /\ c.pc = "lookup" /\ c.snap = raw[a]
  BY <1>1 DEF Snapshots, Calls, Pcs, Snaps, Idle
<1>3. call' = [call EXCEPT ![a] = c]
  BY DEF post_save_mapping
<1> HIDE DEF c
<1>4. WellFormed(c)
  BY <1>1, <1>2 DEF WellFormed, Snapshots
<1>5. \A b \in Accounts : call'[b] = IF b = a THEN c ELSE call[b]
  BY <1>2, <1>3, <1>4, OneCall
<1> QED
  BY <1>1, <1>2, <1>3, <1>4, <1>5, OneCall

LEMMA LookupMoves ==
  ASSUME Typed, NEW a \in Accounts, lookup_signature(a)
  PROVE  /\ call' \in [Accounts -> Calls]
         /\ \A b \in Accounts : WellFormed(call'[b])
         /\ \A b \in Accounts : b # a => call'[b] = call[b]
         /\ call'[a].pc = "save"
<1> DEFINE hit == hashes[call[a].snap.sig].there
           c   == [call[a] EXCEPT !.pc = "save", !.hit = hit]
<1>1. call[a] \in Calls /\ call[a].snap \in Snapshots /\ call[a].snap.sig \in Sigs
  BY DEF Typed, WellFormed, lookup_signature
<1>2. hit \in BOOLEAN
  BY <1>1 DEF Typed, Hashes
<1>3. call' = [call EXCEPT ![a] = c]
  BY DEF lookup_signature
<1> HIDE DEF hit
<1>4. c \in Calls /\ c.pc = "save" /\ c.snap = call[a].snap
  BY <1>1, <1>2 DEF Calls, Pcs
<1> HIDE DEF c
<1>5. WellFormed(c)
  BY <1>1, <1>4 DEF WellFormed
<1>6. \A b \in Accounts : call'[b] = IF b = a THEN c ELSE call[b]
  BY <1>3, <1>4, <1>5, OneCall
<1> QED
  BY <1>3, <1>4, <1>5, <1>6, OneCall

\* The users of the file travel with a request that wrote it.
LEMMA WriteMoves ==
  ASSUME Typed, NEW a \in Accounts, NEW pc \in {"populate", "repopulate"},
         NEW used \in SUBSET Accounts, call[a].pc \in {"save", "edit"},
         call' = [call EXCEPT ![a].pc = pc, ![a].used = used]
  PROVE  /\ call' \in [Accounts -> Calls]
         /\ \A b \in Accounts : WellFormed(call'[b])
         /\ \A b \in Accounts : b # a => call'[b] = call[b]
         /\ call'[a].pc = pc /\ call'[a].snap = call[a].snap /\ call'[a].cut = call[a].cut
<1> DEFINE c == [call[a] EXCEPT !.pc = pc, !.used = used]
<1>1. call[a] \in Calls /\ call[a].snap.sig \in Sigs
  BY DEF Typed, WellFormed
<1>2. c \in Calls /\ c.pc = pc /\ c.snap = call[a].snap /\ c.cut = call[a].cut
  BY <1>1 DEF Calls, Pcs
<1>3. call' = [call EXCEPT ![a] = c]
  OBVIOUS
<1> HIDE DEF c
<1>4. WellFormed(c)
  BY <1>1, <1>2 DEF WellFormed
<1>5. \A b \in Accounts : call'[b] = IF b = a THEN c ELSE call[b]
  BY <1>2, <1>3, <1>4, OneCall
<1> QED
  BY <1>2, <1>3, <1>4, <1>5, OneCall

LEMMA EditStarts ==
  ASSUME Typed, NEW a \in Accounts, patch_edit_mapping(a)
  PROVE  /\ call' \in [Accounts -> Calls]
         /\ \A b \in Accounts : WellFormed(call'[b])
         /\ \A b \in Accounts : b # a => call'[b] = call[b]
         /\ call'[a].pc = "edit"
<1> DEFINE c == [Idle EXCEPT !.pc = "edit", !.snap.sig = pointer[a]]
<1>1. pointer[a] \in Sigs
  BY DEF Typed, patch_edit_mapping
<1>2. c \in Calls /\ c.pc = "edit" /\ c.snap.sig = pointer[a]
  BY <1>1 DEF Calls, Pcs, Snaps, Idle, NoSnap
<1>3. call' = [call EXCEPT ![a] = c]
  BY DEF patch_edit_mapping
<1> HIDE DEF c
<1>4. WellFormed(c)
  BY <1>1, <1>2 DEF WellFormed
<1>5. \A b \in Accounts : call'[b] = IF b = a THEN c ELSE call[b]
  BY <1>2, <1>3, <1>4, OneCall
<1> QED
  BY <1>2, <1>3, <1>4, <1>5, OneCall

\* A removal marks the request of its account that is under way.
LEMMA RemovalCuts ==
  ASSUME Typed, DropKeys
  PROVE  /\ cli.account \in Accounts
         /\ call' \in [Accounts -> Calls]
         /\ \A b \in Accounts : WellFormed(call'[b])
         /\ \A b \in Accounts : /\ b # cli.account => call'[b] = call[b]
                                /\ call'[b].pc = call[b].pc /\ call'[b].snap = call[b].snap
         /\ call'[cli.account].pc # "idle" => call'[cli.account].cut
<1> DEFINE a   == cli.account
           cut == call[a] # Idle
           c   == [call[a] EXCEPT !.cut = cut]
<1>1. a \in Accounts
  BY DEF Typed, DropKeys
<1>2. call[a] \in Calls /\ WellFormed(call[a])
  BY <1>1 DEF Typed
<1>3. cut \in BOOLEAN /\ (call[a].pc # "idle" => cut)
  BY DEF Idle
<1>4. call' = [call EXCEPT ![a] = c]
  BY <1>1 DEF DropKeys
<1> HIDE DEF cut, a
<1>5. c \in Calls /\ c.pc = call[a].pc /\ c.snap = call[a].snap /\ c.cut = cut
  BY <1>2, <1>3 DEF Calls
<1> HIDE DEF c
<1>6. WellFormed(c)
  BY <1>2, <1>5 DEF WellFormed
<1>7. \A b \in Accounts : call'[b] = IF b = a THEN c ELSE call[b]
  BY <1>1, <1>4, <1>5, <1>6, OneCall
<1>8. call' \in [Accounts -> Calls] /\ \A b \in Accounts : WellFormed(call'[b])
  BY <1>1, <1>4, <1>5, <1>6, OneCall
<1> QED
  BY <1>1, <1>3, <1>5, <1>7, <1>8 DEF a

-----------------------------------------------------------------------------
(* Type correctness.                                                       *)

\* What a save writes, whether it links to a file or makes one.
LEMMA SaveWrites ==
  ASSUME Typed, NEW a \in Accounts, save_mapping(a)
  PROVE  /\ call[a].snap.sig \in Sigs /\ call[a].snap.spec \in Contracts
         /\ \E new \in Files :
              /\ new.used = files[call[a].snap.sig].used \cup {a}
              /\ new.spec = IF OnDisk(call[a].snap.sig) THEN files[call[a].snap.sig].spec
                           ELSE call[a].snap.spec
              /\ files' = [files EXCEPT ![call[a].snap.sig] = new]
              /\ call' = [call EXCEPT ![a].pc = "populate", ![a].used = new.used]
<1> DEFINE sig == call[a].snap.sig
<1>1. sig \in Sigs /\ call[a].snap.spec \in Contracts
  BY DEF Typed, WellFormed, Snapshots, save_mapping
<1>2. files[sig] \in Files
  BY <1>1 DEF Typed
<1>3. PICK chosen \in SUBSET Symbols :
        /\ files' = [files EXCEPT ![sig] = SavedFile(a, chosen)]
        /\ call' = [call EXCEPT ![a].pc = "populate", ![a].used = SavedFile(a, chosen).used]
  BY DEF save_mapping, Write
<1>4. /\ SavedFile(a, chosen) \in Files
      /\ SavedFile(a, chosen).used = files[sig].used \cup {a}
      /\ SavedFile(a, chosen).spec = IF OnDisk(sig) THEN files[sig].spec ELSE call[a].snap.spec
  <2>1. CASE OnDisk(sig)
    BY <1>1, <1>2, <2>1 DEF SavedFile, LinkedUsers, Files
  <2>2. CASE ~OnDisk(sig)
    BY <1>1, <1>2, <2>2 DEF SavedFile, LinkedUsers, Files, OnDisk, NoFile
  <2> QED
    BY <2>1, <2>2
<1> QED
  BY <1>1, <1>3, <1>4

LEMMA SaveTyped ==
  ASSUME Typed, NEW a \in Accounts, Save(a) PROVE Typed'
<1> USE DEF Spend, history
<1>a. call[a] \in Calls /\ (call[a].pc # "idle" => call[a].snap.sig \in Sigs)
  BY DEF Typed, WellFormed
<1>1. CASE post_save_mapping(a)
  <2>1. call' \in [Accounts -> Calls] /\ \A b \in Accounts : WellFormed(call'[b])
    BY <1>1, SaveStarts
  <2> QED
    BY <1>1, <2>1 DEF post_save_mapping, Typed, WellFormed
<1>2. CASE lookup_signature(a)
  <2>1. call' \in [Accounts -> Calls] /\ \A b \in Accounts : WellFormed(call'[b])
    BY <1>2, LookupMoves
  <2> QED
    BY <1>2, <2>1 DEF lookup_signature, Typed, WellFormed
<1>3. CASE save_mapping(a)
  <2>1. PICK new \in Files :
          /\ files' = [files EXCEPT ![call[a].snap.sig] = new]
          /\ call' = [call EXCEPT ![a].pc = "populate", ![a].used = new.used]
    BY <1>3, SaveWrites
  <2>2. call' \in [Accounts -> Calls] /\ \A b \in Accounts : WellFormed(call'[b])
    <3>1. new.used \in SUBSET Accounts /\ call[a].pc = "save"
      BY <1>3 DEF Files, save_mapping
    <3> QED
      BY <2>1, <3>1, WriteMoves
  <2>3. files' \in [Sigs -> Files]
    BY <2>1 DEF Typed
  <2> QED
    BY <1>3, <2>2, <2>3 DEF save_mapping, Typed, WellFormed
<1>4. CASE populate_cache_into_redis(a)
  <2>1. call' \in [Accounts -> Calls] /\ \A b \in Accounts : WellFormed(call'[b])
    <3>1. CASE call[a].pc = "populate"
      BY <1>4, <3>1, MovesOn DEF populate_cache_into_redis, Goto, Pcs
    <3>2. CASE call[a].pc = "repopulate"
      BY <1>4, <3>2, MovesOn DEF populate_cache_into_redis, Goto, Pcs
    <3> QED
      BY <1>4, <3>1, <3>2 DEF populate_cache_into_redis
  <2>2. hashes' \in [Sigs -> Hashes]
    BY <1>a, <1>4 DEF populate_cache_into_redis, Typed, Hashes, Calls
  <2> QED
    BY <1>4, <2>1, <2>2 DEF populate_cache_into_redis, Typed, WellFormed
<1>5. CASE account_to_mapping(a)
  <2>1. call' \in [Accounts -> Calls] /\ \A b \in Accounts : WellFormed(call'[b])
    BY <1>5, MovesOn DEF account_to_mapping, Goto, Pcs
  <2>2. pointer' \in [Accounts -> Sigs \cup {"none"}]
    BY <1>a, <1>5 DEF account_to_mapping, Typed
  <2> QED
    BY <1>5, <2>1, <2>2 DEF account_to_mapping, Typed, WellFormed
<1>6. CASE exness_raw_symbols(a)
  <2>1. call' \in [Accounts -> Calls] /\ \A b \in Accounts : WellFormed(call'[b])
    BY <1>6, MovesOn DEF exness_raw_symbols, Goto, Pcs
  <2>2. raw' \in [Accounts -> Snapshots \cup {NoSnap}]
    BY <1>6 DEF exness_raw_symbols, Typed
  <2> QED
    BY <1>6, <2>1, <2>2 DEF exness_raw_symbols, Typed, WellFormed
<1>7. CASE set_mapping_status(a)
  <2>1. call' \in [Accounts -> Calls] /\ \A b \in Accounts : WellFormed(call'[b])
    BY <1>7, CallEnds DEF set_mapping_status
  <2>2. status' \in [Accounts -> {"none", "pending_mapping", "active"}]
    BY <1>7 DEF set_mapping_status, Typed
  <2> QED
    BY <1>7, <2>1, <2>2 DEF set_mapping_status, Typed, WellFormed
<1>8. CASE Refuse(a) \/ build_mapping_entry_fails(a)
  <2>1. call' \in [Accounts -> Calls] /\ \A b \in Accounts : WellFormed(call'[b])
    BY <1>8, CallEnds DEF Refuse, build_mapping_entry_fails, GiveUp
  <2> QED
    BY <1>8, <2>1 DEF Refuse, build_mapping_entry_fails, GiveUp, Typed, WellFormed
<1> QED
  BY <1>1, <1>2, <1>3, <1>4, <1>5, <1>6, <1>7, <1>8 DEF Save

\* The edit changes the entries of the file it read, and nothing else of it.
LEMMA EditWrites ==
  ASSUME Typed, NEW a \in Accounts, edit_mapping(a)
  PROVE  /\ files' \in [Sigs -> Files] /\ files[call[a].snap.sig].used \in SUBSET Accounts
         /\ \A s \in Sigs : files'[s].used = files[s].used /\ files'[s].spec = files[s].spec
<1> DEFINE sig == call[a].snap.sig
<1>1. sig \in Sigs
  BY DEF Typed, WellFormed, edit_mapping
<1>2. PICK chosen \in SUBSET Symbols :
        files' = [files EXCEPT ![sig] = [files[sig] EXCEPT !.mapped = chosen]]
  BY DEF edit_mapping, Write
<1>3. files \in [Sigs -> Files] /\ files[sig] \in Files
  BY <1>1 DEF Typed
<1> DEFINE new == [files[sig] EXCEPT !.mapped = chosen]
<1>4. new \in Files /\ new.used = files[sig].used /\ new.spec = files[sig].spec
  BY <1>3 DEF Files
<1>5. files' = [files EXCEPT ![sig] = new]
  BY <1>2
<1>6. files[sig].used \in SUBSET Accounts
  BY <1>3 DEF Files
<1> HIDE DEF new, sig
<1>7. \A s \in Sigs : files'[s] = IF s = sig THEN new ELSE files[s]
  BY <1>3, <1>5
<1> QED
  BY <1>1, <1>3, <1>4, <1>5, <1>6, <1>7 DEF sig

LEMMA EditTyped ==
  ASSUME Typed, NEW a \in Accounts, Edit(a) \/ publish_snapshot(a) PROVE Typed'
<1> USE DEF Spend, history
<1>1. CASE patch_edit_mapping(a)
  <2>1. call' \in [Accounts -> Calls] /\ \A b \in Accounts : WellFormed(call'[b])
    BY <1>1, EditStarts
  <2> QED
    BY <1>1, <2>1 DEF patch_edit_mapping, Typed, WellFormed
<1>2. CASE edit_mapping(a)
  <2>1. call' \in [Accounts -> Calls] /\ \A b \in Accounts : WellFormed(call'[b])
    BY <1>2, EditWrites, WriteMoves DEF edit_mapping
  <2> QED
    BY <1>2, <2>1, EditWrites DEF edit_mapping, Typed, WellFormed
<1>3. CASE publish_snapshot(a)
  BY <1>3 DEF publish_snapshot, Typed, WellFormed
<1> QED
  BY <1>1, <1>2, <1>3 DEF Edit

LEMMA CommandLineTyped ==
  ASSUME Typed, CommandLine PROVE Typed'
<1> USE DEF Spend, history
<1>1. CASE \E a \in Accounts : add_account(a)
  BY <1>1 DEF add_account, Typed, WellFormed
<1>2. CASE \E a \in Accounts : remove_account(a)
  <2>1. PICK a \in Accounts : remove_account(a)
    BY <1>2
  <2>2. cli' \in Removals /\ cli'.pc = "drop" /\ cli'.account = a
    BY <2>1 DEF remove_account, NoRemoval, Removals, Typed
  <2> QED
    BY <2>1, <2>2 DEF remove_account, Typed, WellFormed
<1>3. CASE DropKeys
  <2>1. /\ cli.account \in Accounts /\ call' \in [Accounts -> Calls]
        /\ \A b \in Accounts : WellFormed(call'[b])
    BY <1>3, RemovalCuts
  <2>2. /\ pointer' \in [Accounts -> Sigs \cup {"none"}]
        /\ status' \in [Accounts -> {"none", "pending_mapping", "active"}]
        /\ raw' \in [Accounts -> Snapshots \cup {NoSnap}]
        /\ registered' \subseteq Accounts
    BY <1>3 DEF DropKeys, Typed
  <2>3. cli' \in Removals /\ (cli'.pc # "idle" => cli'.account \in Accounts /\ cli'.sig \in Sigs)
    BY <1>3, <2>1 DEF DropKeys, Typed, Removals, NoRemoval
  <2>4. UNCHANGED <<files, hashes>>
    BY <1>3 DEF DropKeys
  <2> QED
    BY <2>1, <2>2, <2>3, <2>4 DEF Typed, WellFormed
<1>4. CASE ReadUsers
  <2>1. /\ cli' \in Removals
        /\ cli'.pc # "idle" => cli'.account \in Accounts /\ cli'.sig \in Sigs
    BY <1>4 DEF ReadUsers, Typed, Removals, NoRemoval, Hashes
  <2> QED
    BY <1>4, <2>1 DEF ReadUsers, Typed, WellFormed
<1>5. CASE cleanup_mapping_cache_for_account
  <2>1. hashes' \in [Sigs -> Hashes]
    BY <1>5 DEF cleanup_mapping_cache_for_account, Typed, Hashes, NoHash, Removals
  <2>2. cli' \in Removals /\ cli'.pc = "idle"
    BY <1>5 DEF cleanup_mapping_cache_for_account, NoRemoval, Removals
  <2> QED
    BY <1>5, <2>1, <2>2 DEF cleanup_mapping_cache_for_account, Typed, WellFormed
<1> QED
  BY <1>1, <1>2, <1>3, <1>4, <1>5 DEF CommandLine

\* The pointer a restart gives an account: none for an orphan, one of the files
\* that list it, or the one it has.
LEMMA RestartPoints ==
  ASSUME Restart
  PROVE  /\ pointer' \in [Accounts -> Sigs \cup {"none"}]
         /\ \A a \in Accounts : \/ pointer'[a] = "none" /\ status[a] = "none"
                                \/ pointer'[a] \in Listing(a)
                                \/ Listing(a) = {} /\ pointer'[a] = pointer[a]
<1>1. PICK p \in Repointed :
        pointer' = [a \in Accounts |->
                      IF a \in registered /\ StatusMissing(a) THEN "none" ELSE p[a]]
  BY DEF Restart
<1>2. /\ p \in [Accounts -> Sigs \cup {"none"}]
      /\ \A a \in Accounts : IF Listing(a) = {} THEN p[a] = pointer[a] ELSE p[a] \in Listing(a)
  BY DEF Repointed
<1> QED
  BY <1>1, <1>2 DEF StatusMissing

LEMMA RestartTyped ==
  ASSUME Typed, Restart PROVE Typed'
<1>1. Idle \in Calls /\ WellFormed(Idle)
  BY DEF Idle, NoSnap, Calls, Pcs, Snaps, WellFormed
<1>2. call' \in [Accounts -> Calls] /\ \A b \in Accounts : WellFormed(call'[b])
  BY <1>1 DEF Restart
<1>3. hashes' \in [Sigs -> Hashes]
  BY DEF Restart, Typed, Files, Hashes, NoHash
<1>4. status' \in [Accounts -> {"none", "pending_mapping", "active"}]
  BY DEF Restart, Typed, Pending
<1> QED
  BY <1>2, <1>3, <1>4, RestartPoints DEF Restart, Typed, WellFormed, history

LEMMA NextTyped ==
  ASSUME Typed, [Next]_vars PROVE Typed'
<1>1. CASE UNCHANGED vars
  BY <1>1 DEF vars, Typed, WellFormed
<1> QED
  BY <1>1, SaveTyped, EditTyped, CommandLineTyped, RestartTyped DEF Next

\* Every key and every file holds what it can hold.
THEOREM TypeCorrect == Spec => []TypeOK
BY TypedIsTypeOK, InitTyped, NextTyped, PTL DEF Spec

-----------------------------------------------------------------------------
(* The files and the pointers.                                             *)

\* A request that has written its file, and not yet its pointer, is listed.
Listed ==
  \A a \in Accounts : call[a].pc \in {"populate", "point"} => a \in files[call[a].snap.sig].used

\* A request past its pointer, and an active account, have a mapping: unless
\* the keys of the account were dropped under the request.
Mapped ==
  \A a \in Accounts :
    /\ call[a].pc \in {"clear", "activate", "edit", "repopulate"} /\ ~call[a].cut =>
         pointer[a] # "none"
    /\ a \notin torn /\ status[a] = "active" => pointer[a] # "none"

MapInv == Typed /\ Listed /\ LinkSurvives /\ Mapped

\* A file never loses a user.
LEMMA UsersOnlyJoin ==
  ASSUME Typed, [Next]_vars, NEW s \in Sigs
  PROVE  files[s].used \subseteq files'[s].used
<1> USE DEF history
<1>1. CASE \E a \in Accounts : save_mapping(a)
  <2>1. PICK a \in Accounts : save_mapping(a)
    BY <1>1
  <2>2. PICK new \in Files : /\ new.used = files[call[a].snap.sig].used \cup {a}
                            /\ files' = [files EXCEPT ![call[a].snap.sig] = new]
    BY <2>1, SaveWrites
  <2> QED
    BY <2>2 DEF Typed
<1>2. CASE \E a \in Accounts : edit_mapping(a)
  BY <1>2, EditWrites
<1>3. CASE UNCHANGED files
  BY <1>3
<1>4. \/ \E a \in Accounts : save_mapping(a) \/ edit_mapping(a)
      \/ UNCHANGED files
  BY DEF Next, vars, Save, Edit, CommandLine, publish_snapshot, post_save_mapping,
         lookup_signature, populate_cache_into_redis, account_to_mapping, exness_raw_symbols,
         set_mapping_status, Refuse, build_mapping_entry_fails, GiveUp, patch_edit_mapping,
         add_account, remove_account, DropKeys, ReadUsers, cleanup_mapping_cache_for_account,
         Restart
<1> QED
  BY <1>1, <1>2, <1>3, <1>4

\* One request moves on: what it must show for itself is enough.
LEMMA MappedByOne ==
  ASSUME Typed, Listed, LinkSurvives, Mapped, [Next]_vars, Typed',
         NEW a \in Accounts,
         \A b \in Accounts \ {a} : /\ call'[b] = call[b] /\ pointer'[b] = pointer[b]
                                   /\ status'[b] = status[b] /\ (b \in torn => b \in torn'),
         call'[a].pc \in {"populate", "point"} => a \in files'[call'[a].snap.sig].used,
         pointer'[a] # "none" => a \in files'[pointer'[a]].used,
         call'[a].pc \in {"clear", "activate", "edit", "repopulate"} /\ ~call'[a].cut =>
            pointer'[a] # "none",
         a \notin torn' /\ status'[a] = "active" => pointer'[a] # "none"
  PROVE  Listed' /\ LinkSurvives' /\ Mapped'
<1>1. ASSUME NEW b \in Accounts \ {a}
      PROVE  /\ call'[b].pc \in {"populate", "point"} => b \in files'[call'[b].snap.sig].used
             /\ pointer'[b] # "none" => b \in files'[pointer'[b]].used
  <2>1. call[b].pc \in {"populate", "point"} =>
           call[b].snap.sig \in Sigs /\ b \in files[call[b].snap.sig].used
    BY DEF Typed, WellFormed, Listed
  <2>2. pointer[b] # "none" => pointer[b] \in Sigs /\ b \in files[pointer[b]].used
    BY DEF Typed, LinkSurvives
  <2> QED
    BY <1>1, <2>1, <2>2, UsersOnlyJoin
<1>2. Listed' /\ LinkSurvives'
  BY <1>1 DEF Listed, LinkSurvives
<1>3. Mapped'
  BY DEF Mapped
<1> QED
  BY <1>2, <1>3

\* The pointer an account has stays good while the files grow.
LEMMA PointerStays ==
  ASSUME Typed, LinkSurvives, [Next]_vars, NEW a \in Accounts, pointer'[a] = pointer[a]
  PROVE  pointer'[a] # "none" => a \in files'[pointer'[a]].used
BY UsersOnlyJoin DEF Typed, LinkSurvives

LEMMA SaveMapped ==
  ASSUME MapInv, NEW a \in Accounts, Save(a), Typed', [Next]_vars
  PROVE  Listed' /\ LinkSurvives' /\ Mapped'
<1> USE DEF history
<1>a. Typed /\ Listed /\ LinkSurvives /\ Mapped
  BY DEF MapInv
<1>b. call[a].pc # "idle" => call[a].snap.sig \in Sigs
  BY <1>a DEF Typed, WellFormed
<1>c. a \notin torn /\ status[a] = "active" => pointer[a] # "none"
  BY <1>a DEF Mapped
<1>1. CASE post_save_mapping(a)
  <2>1. /\ \A b \in Accounts \ {a} : call'[b] = call[b]
        /\ call'[a].pc = "lookup"
    BY <1>1, <1>a, SaveStarts
  <2>2. UNCHANGED <<pointer, status, torn>>
    BY <1>1 DEF post_save_mapping
  <2> QED
    BY <1>a, <1>c, <2>1, <2>2, PointerStays, MappedByOne
<1>2. CASE lookup_signature(a)
  <2>1. /\ \A b \in Accounts \ {a} : call'[b] = call[b]
        /\ call'[a].pc = "save"
    BY <1>2, <1>a, LookupMoves
  <2>2. UNCHANGED <<pointer, status, torn>>
    BY <1>2 DEF lookup_signature
  <2> QED
    BY <1>a, <1>c, <2>1, <2>2, PointerStays, MappedByOne
<1>3. CASE save_mapping(a)
  <2>1. PICK new \in Files :
          /\ a \in new.used /\ new.used \in SUBSET Accounts
          /\ files' = [files EXCEPT ![call[a].snap.sig] = new]
          /\ call' = [call EXCEPT ![a].pc = "populate", ![a].used = new.used]
          /\ call[a].snap.sig \in Sigs
    BY <1>3, <1>a, SaveWrites DEF Files
  <2>2. /\ \A b \in Accounts \ {a} : call'[b] = call[b]
        /\ call'[a].pc = "populate" /\ call'[a].snap = call[a].snap
    BY <1>3, <1>a, <2>1, WriteMoves DEF save_mapping
  <2>3. a \in files'[call'[a].snap.sig].used
    BY <1>a, <2>1, <2>2 DEF Typed
  <2>4. UNCHANGED <<pointer, status, torn>>
    BY <1>3 DEF save_mapping
  <2> QED
    BY <1>a, <1>c, <2>2, <2>3, <2>4, PointerStays, MappedByOne
<1>4. CASE populate_cache_into_redis(a)
  <2>1. UNCHANGED <<pointer, status, torn, files>>
    BY <1>4 DEF populate_cache_into_redis
  <2>2. CASE call[a].pc = "populate"
    <3>1. /\ \A b \in Accounts \ {a} : call'[b] = call[b]
          /\ call'[a].pc = "point" /\ call'[a].snap = call[a].snap
      BY <1>4, <1>a, <2>2, MovesOn DEF populate_cache_into_redis, Goto, Pcs
    <3>2. a \in files'[call'[a].snap.sig].used
      BY <1>a, <2>1, <2>2, <3>1 DEF Listed
    <3> QED
      BY <1>a, <1>c, <2>1, <3>1, <3>2, PointerStays, MappedByOne
  <2>3. CASE call[a].pc = "repopulate"
    <3>1. /\ \A b \in Accounts \ {a} : call'[b] = call[b]
          /\ call'[a].pc = "activate" /\ call'[a].cut = call[a].cut
      BY <1>4, <1>a, <2>3, MovesOn DEF populate_cache_into_redis, Goto, Pcs
    <3>2. ~call[a].cut => pointer[a] # "none"
      BY <1>a, <2>3 DEF Mapped
    <3> QED
      BY <1>a, <1>c, <2>1, <3>1, <3>2, PointerStays, MappedByOne
  <2> QED
    BY <1>4, <2>2, <2>3 DEF populate_cache_into_redis
<1>5. CASE account_to_mapping(a)
  <2>1. /\ \A b \in Accounts \ {a} : call'[b] = call[b]
        /\ call'[a].pc = "clear"
    BY <1>5, <1>a, MovesOn DEF account_to_mapping, Goto, Pcs
  <2>2. /\ pointer' = [pointer EXCEPT ![a] = call[a].snap.sig]
        /\ UNCHANGED <<status, torn, files>> /\ call[a].pc = "point"
    BY <1>5 DEF account_to_mapping
  <2>3. /\ pointer'[a] = call[a].snap.sig /\ pointer'[a] # "none"
        /\ \A b \in Accounts \ {a} : pointer'[b] = pointer[b]
    BY <1>a, <1>b, <2>2, MappingAssumption DEF Typed
  <2>4. a \in files'[pointer'[a]].used
    BY <1>a, <2>2, <2>3 DEF Listed
  <2> QED
    BY <1>a, <1>c, <2>1, <2>2, <2>3, <2>4, MappedByOne
<1>6. CASE exness_raw_symbols(a)
  <2>1. /\ \A b \in Accounts \ {a} : call'[b] = call[b]
        /\ call'[a].pc = "activate" /\ call'[a].cut = call[a].cut
    BY <1>6, <1>a, MovesOn DEF exness_raw_symbols, Goto, Pcs
  <2>2. UNCHANGED <<pointer, status, torn>> /\ call[a].pc = "clear"
    BY <1>6 DEF exness_raw_symbols
  <2>3. ~call[a].cut => pointer[a] # "none"
    BY <1>a, <2>2 DEF Mapped
  <2> QED
    BY <1>a, <1>c, <2>1, <2>2, <2>3, PointerStays, MappedByOne
<1>7. CASE set_mapping_status(a)
  <2>1. /\ \A b \in Accounts \ {a} : call'[b] = call[b]
        /\ call'[a].pc = "idle"
    BY <1>7, <1>a, CallEnds DEF set_mapping_status, Idle
  <2>2. /\ pointer' = pointer /\ \A b \in Accounts \ {a} : status'[b] = status[b]
        /\ \A b \in torn : b \in torn'
        /\ call[a].cut => a \in torn'
    BY <1>7, <1>a DEF set_mapping_status, Typed
  <2>3. ~call[a].cut => pointer[a] # "none"
    BY <1>7, <1>a DEF set_mapping_status, AtStatus, Mapped
  <2> QED
    BY <1>a, <2>1, <2>2, <2>3, PointerStays, MappedByOne
<1>8. CASE Refuse(a) \/ build_mapping_entry_fails(a)
  <2>1. /\ \A b \in Accounts \ {a} : call'[b] = call[b]
        /\ call'[a].pc = "idle"
    BY <1>8, <1>a, CallEnds DEF Refuse, build_mapping_entry_fails, GiveUp, Idle
  <2>2. UNCHANGED <<pointer, status, torn>>
    BY <1>8 DEF Refuse, build_mapping_entry_fails, GiveUp
  <2> QED
    BY <1>a, <1>c, <2>1, <2>2, PointerStays, MappedByOne
<1> QED
  BY <1>1, <1>2, <1>3, <1>4, <1>5, <1>6, <1>7, <1>8 DEF Save

LEMMA EditMapped ==
  ASSUME MapInv, NEW a \in Accounts, Edit(a) \/ publish_snapshot(a), Typed', [Next]_vars
  PROVE  Listed' /\ LinkSurvives' /\ Mapped'
<1> USE DEF history
<1>a. Typed /\ Listed /\ LinkSurvives /\ Mapped
  BY DEF MapInv
<1>c. a \notin torn /\ status[a] = "active" => pointer[a] # "none"
  BY <1>a DEF Mapped
<1>1. CASE patch_edit_mapping(a)
  <2>1. /\ \A b \in Accounts \ {a} : call'[b] = call[b]
        /\ call'[a].pc = "edit"
    BY <1>1, <1>a, EditStarts
  <2>2. UNCHANGED <<pointer, status, torn>> /\ pointer[a] # "none"
    BY <1>1 DEF patch_edit_mapping
  <2> QED
    BY <1>a, <1>c, <2>1, <2>2, PointerStays, MappedByOne
<1>2. CASE edit_mapping(a)
  <2>1. /\ \A b \in Accounts \ {a} : call'[b] = call[b]
        /\ call'[a].pc = "repopulate" /\ call'[a].cut = call[a].cut
    BY <1>2, <1>a, EditWrites, WriteMoves DEF edit_mapping
  <2>2. UNCHANGED <<pointer, status, torn>> /\ call[a].pc = "edit"
    BY <1>2 DEF edit_mapping
  <2>3. ~call[a].cut => pointer[a] # "none"
    BY <1>a, <2>2 DEF Mapped
  <2> QED
    BY <1>a, <1>c, <2>1, <2>2, <2>3, PointerStays, MappedByOne
<1>3. CASE publish_snapshot(a)
  BY <1>3, <1>a DEF publish_snapshot, Listed, LinkSurvives, Mapped
<1> QED
  BY <1>1, <1>2, <1>3 DEF Edit

LEMMA CommandLineMapped ==
  ASSUME MapInv, CommandLine, Typed', [Next]_vars
  PROVE  Listed' /\ LinkSurvives' /\ Mapped'
<1> USE DEF history
<1>a. Typed /\ Listed /\ LinkSurvives /\ Mapped
  BY DEF MapInv
<1>1. CASE DropKeys
  <2> DEFINE a == cli.account
  <2>1. /\ a \in Accounts
        /\ \A b \in Accounts \ {a} : call'[b] = call[b]
        /\ call'[a].pc = call[a].pc /\ call'[a].snap = call[a].snap
        /\ call'[a].pc # "idle" => call'[a].cut
    BY <1>1, <1>a, RemovalCuts
  <2>2. UNCHANGED <<files, torn>>
    BY <1>1 DEF DropKeys
  <2>3. /\ pointer'[a] = "none" /\ status'[a] = "none"
        /\ \A b \in Accounts \ {a} : pointer'[b] = pointer[b] /\ status'[b] = status[b]
    BY <1>1, <1>a, <2>1 DEF DropKeys, Typed
  <2>4. call'[a].pc \in {"populate", "point"} => a \in files'[call'[a].snap.sig].used
    BY <1>a, <2>1, <2>2 DEF Listed
  <2> HIDE DEF a
  <2> QED
    BY <1>a, <2>1, <2>2, <2>3, <2>4, MappedByOne
<1>2. CASE UNCHANGED <<files, pointer, status, call, torn>>
  BY <1>a, <1>2 DEF Listed, LinkSurvives, Mapped
<1> QED
  BY <1>1, <1>2 DEF CommandLine, add_account, remove_account, ReadUsers,
                    cleanup_mapping_cache_for_account

LEMMA RestartMapped ==
  ASSUME MapInv, Restart, Typed'
  PROVE  Listed' /\ LinkSurvives' /\ Mapped'
<1> USE DEF history
<1>a. Typed /\ Listed /\ LinkSurvives /\ Mapped
  BY DEF MapInv
<1>1. /\ files' = files /\ torn' = torn
      /\ \A a \in Accounts : call'[a].pc = "idle"
      /\ \A a \in Accounts : status'[a] = "active" => status[a] = "active"
  BY DEF Restart, Idle, Pending
<1>2. Listed'
  BY <1>1 DEF Listed
<1>3. LinkSurvives'
  BY <1>a, <1>1, RestartPoints DEF LinkSurvives, Listing
<1>4. Mapped'
  <2> SUFFICES ASSUME NEW a \in Accounts, a \notin torn', status'[a] = "active"
               PROVE  pointer'[a] # "none"
    BY <1>1 DEF Mapped
  <2>1. pointer[a] # "none" /\ status[a] = "active"
    BY <1>a, <1>1 DEF Mapped
  <2> QED
    BY <2>1, RestartPoints, MappingAssumption DEF Listing
<1> QED
  BY <1>2, <1>3, <1>4

LEMMA InitMapped ==
  ASSUME Init PROVE MapInv
<1>1. Typed
  BY InitTyped
<1> QED
  BY <1>1 DEF Init, Idle, MapInv, Listed, LinkSurvives, Mapped

LEMMA NextMapped ==
  ASSUME MapInv, [Next]_vars PROVE MapInv'
<1>1. Typed'
  BY NextTyped DEF MapInv
<1>2. CASE UNCHANGED vars
  BY <1>1, <1>2 DEF vars, MapInv, Listed, LinkSurvives, Mapped
<1>3. CASE Next
  <2>1. Listed' /\ LinkSurvives' /\ Mapped'
    BY <1>1, <1>3, SaveMapped, EditMapped, CommandLineMapped, RestartMapped DEF Next
  <2> QED
    BY <1>1, <2>1 DEF MapInv
<1> QED
  BY <1>2, <1>3

LEMMA MapInvAlways == Spec => []MapInv
BY InitMapped, NextMapped, PTL DEF Spec

\* The users of a file (save_mapping, edit_mapping) include every account that
\* points at it, however the requests, the removals and the restarts interleave.
THEOREM LinksSurvive == Spec => []LinkSurvives
BY MapInvAlways, PTL DEF MapInv

\* An account the hedge gate lets through has a pointer to a cache file that is
\* there: its status is set last, the files are never taken away, and a restart
\* (populate_redis_from_disk) gives a pointer to whoever a file lists.
THEOREM ActiveHasMapping == Spec => []ActiveIsUsable
<1>1. ASSUME MapInv PROVE ActiveIsUsable
  <2> SUFFICES ASSUME NEW a \in Accounts, a \notin torn, status[a] = "active"
               PROVE  pointer[a] # "none" /\ OnDisk(pointer[a])
    BY DEF ActiveIsUsable
  <2>1. pointer[a] # "none"
    BY <1>1 DEF MapInv, Mapped
  <2>2. a \in files[pointer[a]].used
    BY <1>1, <2>1 DEF MapInv, LinkSurvives
  <2> QED
    BY <2>1, <2>2 DEF OnDisk, NoFile
<1> QED
  BY <1>1, MapInvAlways, PTL

-----------------------------------------------------------------------------
(* The contract specifications of a link, and the files that list an       *)
(* account.                                                                *)

\* A file agrees with the accounts linked to it on the symbols the link compared.
Checked ==
  \A a \in Accounts \ removed, s \in Sigs :
    a \in files[s].used => \A x \in link[a][s].over : files[s].spec[x] = link[a][s].spec[x]

Links == [spec : Contracts \cup {NoSpec}, over : SUBSET Symbols]

LinkTyped == link \in [Accounts -> [Sigs -> Links]]

FewFiles == \A a \in Accounts : IsFiniteSet(Listing(a))

SpecInv == MapInv /\ LinkTyped /\ Checked /\ FewFiles

LEMMA SaveChecked ==
  ASSUME SpecInv, NEW a \in Accounts, save_mapping(a)
  PROVE  LinkTyped' /\ Checked' /\ FewFiles'
<1> DEFINE sig == call[a].snap.sig
           spec == call[a].snap.spec
           new == [spec |-> spec, over |-> Compared(a)]
<1>0. sig \in Sigs /\ spec \in Contracts
  BY SaveWrites DEF SpecInv, MapInv
<1>1. PICK file \in Files :
        /\ file.used = files[sig].used \cup {a}
        /\ file.spec = IF OnDisk(sig) THEN files[sig].spec ELSE spec
        /\ files' = [files EXCEPT ![sig] = file]
  BY SaveWrites DEF SpecInv, MapInv
<1>3. files \in [Sigs -> Files] /\ files[sig] \in Files /\ LinkTyped /\ Checked /\ FewFiles
  BY <1>0 DEF SpecInv, MapInv, Typed
<1>2. /\ link' = [link EXCEPT ![a][sig] = new] /\ removed' = removed
      /\ new \in Links /\ new.spec = spec
      /\ \A x \in new.over : file.spec[x] = spec[x]
  <2>1. link' = [link EXCEPT ![a][sig] = new] /\ removed' = removed
    BY DEF save_mapping
  <2>2. CASE ~OnDisk(sig)
    <3>1. Compared(a) = Symbols
      BY <2>2 DEF Compared
    <3> QED
      BY <1>0, <1>1, <2>1, <2>2, <3>1 DEF Links
  <2>3. CASE OnDisk(sig) /\ call[a].hit
    <3>1. Compared(a) = files[sig].mapped /\ files[sig].mapped \subseteq Symbols
      BY <1>3, <2>3 DEF Compared, Files
    <3>2. Divergent(sig, spec) = {}
      BY <2>3 DEF save_mapping, spec_divergence_block
    <3> QED
      BY <1>0, <1>1, <2>1, <2>3, <3>1, <3>2 DEF Links, Divergent
  <2>4. CASE OnDisk(sig) /\ ~call[a].hit
    <3>1. Compared(a) = {}
      BY <2>4 DEF Compared
    <3> QED
      BY <1>0, <2>1, <3>1 DEF Links
  <2> QED
    BY <2>2, <2>3, <2>4
<1> HIDE DEF sig, spec, new
<1>4. LinkTyped'
  BY <1>0, <1>2, <1>3 DEF LinkTyped
<1>5. /\ files'[sig] = file
      /\ \A s \in Sigs \ {sig} : files'[s] = files[s]
  BY <1>0, <1>1, <1>3
<1>6. /\ link'[a][sig] = new
      /\ \A b \in Accounts, s \in Sigs : <<b, s>> # <<a, sig>> => link'[b][s] = link[b][s]
  BY <1>0, <1>2, <1>3 DEF LinkTyped
<1>7. Checked'
  <2> SUFFICES ASSUME NEW b \in Accounts \ removed, NEW s \in Sigs,
                      b \in files'[s].used, NEW x \in link'[b][s].over
               PROVE  files'[s].spec[x] = link'[b][s].spec[x]
    BY <1>2 DEF Checked
  <2>1. CASE b = a /\ s = sig
    BY <1>2, <1>5, <1>6, <2>1
  <2>2. CASE b # a \/ s # sig
    <3>1. link'[b][s] = link[b][s]
      BY <1>6, <2>2
    <3>2. b \in files[s].used /\ files'[s].spec = files[s].spec
      BY <1>1, <1>5, <2>2 DEF OnDisk, NoFile
    <3> QED
      BY <1>3, <3>1, <3>2 DEF Checked
  <2> QED
    BY <2>1, <2>2
<1>8. FewFiles'
  <2> SUFFICES ASSUME NEW b \in Accounts PROVE IsFiniteSet(Listing(b)')
    BY DEF FewFiles
  <2>1. Listing(b)' \subseteq Listing(b) \cup {sig}
    BY <1>5 DEF Listing
  <2>2. IsFiniteSet(Listing(b) \cup {sig})
    BY <1>3, FS_AddElement DEF FewFiles
  <2> QED
    BY <2>1, <2>2, FS_Subset
<1> QED
  BY <1>4, <1>7, <1>8

\* Nothing else changes the users or the snapshot of a file.
LEMMA OtherChecked ==
  ASSUME SpecInv, [Next]_vars, \A a \in Accounts : ~save_mapping(a)
  PROVE  LinkTyped' /\ Checked' /\ FewFiles'
<1> USE DEF history
<1>a. Typed /\ LinkTyped /\ Checked /\ FewFiles
  BY DEF SpecInv, MapInv
<1>1. CASE DropKeys
  <2>1. /\ link' = [link EXCEPT ![cli.account] = [s \in Sigs |-> NoLink]]
        /\ removed' = removed \cup {cli.account} /\ files' = files
    BY <1>1 DEF DropKeys
  <2>2. NoLink \in Links
    BY DEF NoLink, Links
  <2>3. LinkTyped'
    BY <1>a, <2>1, <2>2 DEF LinkTyped
  <2>4. \A b \in Accounts : b # cli.account => link'[b] = link[b]
    BY <1>a, <2>1 DEF LinkTyped
  <2>5. Checked'
    BY <1>a, <2>1, <2>4 DEF Checked
  <2> QED
    BY <1>a, <2>1, <2>3, <2>5 DEF FewFiles, Listing
<1>2. CASE files' = files /\ UNCHANGED <<link, removed>>
  BY <1>a, <1>2 DEF LinkTyped, Checked, FewFiles, Listing
<1>3. CASE \E a \in Accounts : edit_mapping(a)
  <2>1. /\ \A s \in Sigs : files'[s].used = files[s].used /\ files'[s].spec = files[s].spec
        /\ UNCHANGED <<link, removed>>
    BY <1>a, <1>3, EditWrites DEF edit_mapping
  <2>2. \A b \in Accounts : Listing(b)' = Listing(b)
    BY <2>1 DEF Listing
  <2>3. LinkTyped' /\ FewFiles'
    BY <1>a, <2>1, <2>2 DEF LinkTyped, FewFiles
  <2>4. Checked'
    BY <1>a, <2>1 DEF Checked
  <2> QED
    BY <2>3, <2>4
<1> QED
  BY <1>1, <1>2, <1>3
     DEF Next, vars, Save, Edit, CommandLine, publish_snapshot, post_save_mapping,
         lookup_signature, populate_cache_into_redis, account_to_mapping, exness_raw_symbols,
         set_mapping_status, Refuse, build_mapping_entry_fails, GiveUp, patch_edit_mapping,
         add_account, remove_account, ReadUsers, cleanup_mapping_cache_for_account, Restart

LEMMA InitChecked ==
  ASSUME Init PROVE SpecInv
<1>1. \A a \in Accounts : Listing(a) = {}
  BY DEF Init, Listing, NoFile
<1>2. FewFiles
  BY <1>1, FS_EmptySet DEF FewFiles
<1>3. LinkTyped /\ Checked
  BY DEF Init, LinkTyped, Links, NoLink, Checked, NoFile
<1> QED
  BY <1>2, <1>3, InitMapped DEF SpecInv

LEMMA SpecInvAlways == Spec => []SpecInv
<1>1. ASSUME SpecInv, [Next]_vars PROVE SpecInv'
  BY <1>1, NextMapped, SaveChecked, OtherChecked DEF SpecInv
<1> QED
  BY <1>1, InitChecked, PTL DEF Spec

\* The entries an active account is hedged with carry the specifications its own
\* broker published for every symbol that was compared when it was linked
\* (validate_spec_divergence), or with which it made the file, whoever edits the
\* file afterwards (edit_mapping rebuilds them from the same snapshot).
THEOREM LinkedSpecsMatch == Spec => []LinkedSpecMatches
<1>1. ASSUME SpecInv PROVE LinkedSpecMatches
  <2> SUFFICES ASSUME NEW a \in Accounts \ (removed \cup torn), status[a] = "active"
               PROVE  Divergent(pointer[a], link[a][pointer[a]].spec)
                        \cap link[a][pointer[a]].over = {}
    BY DEF LinkedSpecMatches
  <2>1. pointer[a] \in Sigs /\ a \in files[pointer[a]].used
    BY <1>1 DEF SpecInv, MapInv, Typed, Mapped, LinkSurvives
  <2>2. \A x \in link[a][pointer[a]].over :
          files[pointer[a]].spec[x] = link[a][pointer[a]].spec[x]
    BY <1>1, <2>1 DEF SpecInv, Checked
  <2> QED
    BY <2>2 DEF Divergent
<1> QED
  BY <1>1, SpecInvAlways, PTL

\* A start of the server (populate_redis_from_disk, _init_mapping_statuses)
\* leaves an active account its status, and its mapping when one file lists it.
THEOREM RestartKeeps == Spec => RestartKeepsMapping
<1>1. ASSUME SpecInv, Restart, NEW a \in registered \ torn, status[a] = "active"
      PROVE  /\ status'[a] = "active"
             /\ Cardinality(Listing(a)) = 1 => pointer'[a] = pointer[a]
  <2>1. a \in Accounts /\ Typed /\ LinkSurvives /\ Mapped /\ FewFiles
    BY <1>1 DEF SpecInv, MapInv, Typed
  <2>2. status'[a] = "active"
    BY <1>1, <2>1 DEF Restart, StatusMissing
  <2>3. pointer[a] \in Listing(a)
    BY <1>1, <2>1 DEF Typed, LinkSurvives, Mapped, Listing
  <2>4. pointer'[a] \in Listing(a)
    BY <1>1, <2>1, <2>3, RestartPoints
  <2>5. Cardinality(Listing(a)) = 1 => \E s : Listing(a) = {s}
    BY <2>1, FS_Singleton DEF FewFiles
  <2> QED
    BY <2>2, <2>3, <2>4, <2>5
<1>2. SpecInv =>
        (Restart => \A a \in registered \ torn :
                      status[a] = "active" =>
                        /\ status'[a] = "active"
                        /\ Cardinality(Listing(a)) = 1 => pointer'[a] = pointer[a])
  BY <1>1
<1> QED
  BY <1>2, SpecInvAlways, PTL DEF RestartKeepsMapping
=============================================================================
