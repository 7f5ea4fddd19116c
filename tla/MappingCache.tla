---------------------------- MODULE MappingCache ----------------------------
(***************************************************************************)
(* The symbol mapping of the Exness accounts: the files of the cache       *)
(* directory, the Redis keys that mirror them, and the three processes     *)
(* that work on both: the server (the wizard's save and edit requests, and *)
(* its start), the Exness client (which publishes the broker's symbols)    *)
(* and the account command line (which adds and removes accounts).         *)
(*                                                                         *)
(* A cache file belongs to a signature, the digest of the symbol names.  It *)
(* keeps the snapshot of the account that created it, of which only the    *)
(* contract specification (size, digits, profit currency) of each symbol   *)
(* matters here, and mapping entries, whose specification is the one that  *)
(* snapshot gives the symbol: an entry is the symbol it maps.  The         *)
(* repository's methods never give up the event loop, so the code between  *)
(* two Redis commands is one step with the file operations it makes.       *)
(***************************************************************************)
EXTENDS Naturals, FiniteSets

CONSTANTS
    Accounts,       \* the Exness accounts
    Sigs,           \* signatures of symbol snapshots
    Symbols,        \* the symbols a snapshot names, by their place in it
    Specs,          \* contract specifications of a symbol
    MaxPublished,   \* bound: snapshots the clients publish
    MaxRequests,    \* bound: save and edit requests
    MaxRemovals,    \* bound: removals of an account
    MaxRestarts     \* bound: restarts of the server

ASSUME MappingAssumption ==
    /\ "none" \notin Sigs \cup Specs
    /\ {MaxPublished, MaxRequests, MaxRemovals, MaxRestarts} \subseteq Nat

VARIABLES
    files,       \* the cache file of a signature: its snapshot, its entries, its users
    hashes,      \* mapping_cache:{sig}: is the key there, its used_by_accounts
    pointer,     \* account_to_mapping:{account}
    status,      \* mapping_status:{account}; "none" is an absent key
    raw,         \* exness_raw_symbols:{account}
    registered,  \* accounts:exness
    call,        \* the wizard request of an account, as far as it has come
    cli,         \* the removal the command line is making
    link,        \* history: the specifications an account was saved with, and the
                 \* symbols for which the file had the same
    torn,        \* history: accounts made active by a request a removal cut
    removed,     \* history: accounts removed at least once
    spent        \* how much of each bound is used up

vars == <<files, hashes, pointer, status, raw, registered, call, cli,
          link, torn, removed, spent>>

history == <<link, torn, removed>>

NoSpec  == [x \in Symbols |-> "none"]
NoFile  == [spec |-> NoSpec, mapped |-> {}, used |-> {}]
NoHash  == [there |-> FALSE, used |-> {}]
NoSnap  == [sig |-> "none", spec |-> NoSpec]
NoLink  == [spec |-> NoSpec, over |-> {}]
Idle    == [pc |-> "idle", snap |-> NoSnap, hit |-> FALSE, used |-> {}, cut |-> FALSE]
NoRemoval == [pc |-> "idle", account |-> "none", sig |-> "none", used |-> {}]

Contracts == [Symbols -> Specs]
Snapshots == [sig : Sigs, spec : Contracts]
OnDisk(s) == files[s] # NoFile

\* The files that list account a among their users.
Listing(a) == {s \in Sigs : a \in files[s].used}

Spend(what) ==
    /\ spent[what] > 0
    /\ spent' = [spent EXCEPT ![what] = @ - 1]

Init ==
    /\ files = [s \in Sigs |-> NoFile]
    /\ hashes = [s \in Sigs |-> NoHash]
    /\ pointer = [a \in Accounts |-> "none"]
    /\ status = [a \in Accounts |-> "none"]
    /\ raw = [a \in Accounts |-> NoSnap]
    /\ registered = Accounts
    /\ call = [a \in Accounts |-> Idle]
    /\ cli = NoRemoval
    /\ link = [a \in Accounts |-> [s \in Sigs |-> NoLink]]
    /\ torn = {}
    /\ removed = {}
    /\ spent = [published |-> MaxPublished, requests |-> MaxRequests,
                removals |-> MaxRemovals, restarts |-> MaxRestarts]

\* The file appears whole or not at all: it is written aside and renamed.
Write(s, cache) == files' = [files EXCEPT ![s] = cache]

Goto(a, pc) == call' = [call EXCEPT ![a].pc = pc]

-----------------------------------------------------------------------------
(* The Exness client publishes what its broker offers, whoever reads it.   *)

publish_snapshot(a) ==
    /\ Spend("published")
    /\ \E snap \in Snapshots : raw' = [raw EXCEPT ![a] = snap]
    /\ UNCHANGED <<files, hashes, pointer, status, registered, call, cli, history>>

-----------------------------------------------------------------------------
(* The wizard's save request.                                              *)

\* It reads the raw snapshot; without one it answers 404.
post_save_mapping(a) ==
    /\ call[a] = Idle
    /\ raw[a] # NoSnap
    /\ Spend("requests")
    /\ call' = [call EXCEPT ![a] = [Idle EXCEPT !.pc = "lookup", !.snap = raw[a]]]
    /\ UNCHANGED <<files, hashes, pointer, status, raw, registered, cli, history>>

\* Redis says whether the signature has a cache.
lookup_signature(a) ==
    /\ call[a].pc = "lookup"
    /\ call' = [call EXCEPT ![a].pc = "save",
                            ![a].hit = hashes[call[a].snap.sig].there]
    /\ UNCHANGED <<files, hashes, pointer, status, raw, registered, cli, history, spent>>

\* A plausible bug: the divergences are only shown, the save goes through.
ShowDivergence(a) == FALSE

\* The symbols of which the file has an entry with another specification than
\* the snapshot.  A symbol without an entry is not compared; a name that is
\* missing cannot occur, since the names make the signature.
Divergent(s, spec) == {x \in files[s].mapped : files[s].spec[x] # spec[x]}

\* On a hit, such a difference blocks the save.
spec_divergence_block(a) ==
    LET snap == call[a].snap
    IN  /\ call[a].hit
        /\ OnDisk(snap.sig)
        /\ Divergent(snap.sig, snap.spec) # {}

\* A plausible bug: an account that links to a file takes it over.
TakeOver(a, old) == {a}

\* The users of the file an account links to, as the save writes them.
LinkedUsers(a, old) == old \cup {a}

\* The symbols of which the save knows that the file agrees with the account:
\* all of a file made from its snapshot, the entries the lookup let compare.
Compared(a) ==
    LET s == call[a].snap.sig
    IN  IF OnDisk(s) THEN {x \in files[s].mapped : call[a].hit} ELSE Symbols

\* The file a save leaves: the one there is with one more user, its entries
\* untouched, or a new one with the entries that were decided on.
SavedFile(a, chosen) ==
    LET snap == call[a].snap
        old  == files[snap.sig]
    IN  IF OnDisk(snap.sig)
        THEN [old EXCEPT !.used = LinkedUsers(a, old.used)]
        ELSE [spec |-> snap.spec, mapped |-> chosen, used |-> LinkedUsers(a, {})]

\* The rest of the request up to its first Redis write.
save_mapping(a) ==
    LET snap == call[a].snap
    IN  /\ call[a].pc = "save"
        /\ ~spec_divergence_block(a)
        /\ \E chosen \in SUBSET Symbols :
               /\ Write(snap.sig, SavedFile(a, chosen))
               /\ call' = [call EXCEPT ![a].pc = "populate",
                                       ![a].used = SavedFile(a, chosen).used]
        /\ link' = [link EXCEPT ![a][snap.sig] = [spec |-> snap.spec, over |-> Compared(a)]]
        /\ UNCHANGED <<hashes, pointer, status, raw, registered, cli, torn, removed, spent>>

GiveUp(a) ==
    /\ call' = [call EXCEPT ![a] = Idle]
    /\ UNCHANGED <<files, hashes, pointer, status, raw, registered, cli, history, spent>>

\* A blocked save answers 400.
Refuse(a) ==
    /\ call[a].pc = "save"
    /\ spec_divergence_block(a)
    /\ GiveUp(a)

\* A decision no entry can be built from ends an edit, or a save that would
\* have written a new file.
build_mapping_entry_fails(a) ==
    /\ \/ call[a].pc = "edit"
       \/ call[a].pc = "save" /\ ~OnDisk(call[a].snap.sig)
    /\ GiveUp(a)

\* The hash is written from the copy of the file the request holds.
populate_cache_into_redis(a) ==
    /\ call[a].pc \in {"populate", "repopulate"}
    /\ hashes' = [hashes EXCEPT ![call[a].snap.sig] =
                                    [there |-> TRUE, used |-> call[a].used]]
    /\ Goto(a, IF call[a].pc = "populate" THEN "point" ELSE "activate")
    /\ UNCHANGED <<files, pointer, status, raw, registered, cli, history, spent>>

account_to_mapping(a) ==
    /\ call[a].pc = "point"
    /\ pointer' = [pointer EXCEPT ![a] = call[a].snap.sig]
    /\ Goto(a, "clear")
    /\ UNCHANGED <<files, hashes, status, raw, registered, cli, history, spent>>

\* Whatever snapshot the key holds by now is deleted.
exness_raw_symbols(a) ==
    /\ call[a].pc = "clear"
    /\ raw' = [raw EXCEPT ![a] = NoSnap]
    /\ Goto(a, "activate")
    /\ UNCHANGED <<files, hashes, pointer, status, registered, cli, history, spent>>

\* A plausible bug: the status is broadcast and stored before the pointer is.
ActivateEarly(pc) == pc \in {"point", "activate"}

\* The places in a request where its next step is the status.
AtStatus(pc) == pc = "activate"

set_mapping_status(a) ==
    /\ AtStatus(call[a].pc)
    /\ status' = [status EXCEPT ![a] = "active"]
    /\ torn' = IF call[a].cut THEN torn \cup {a} ELSE torn
    /\ call' = [call EXCEPT ![a] = Idle]
    /\ UNCHANGED <<files, hashes, pointer, raw, registered, cli,
                   link, removed, spent>>

-----------------------------------------------------------------------------
(* The wizard's edit request: new entries for the file the account uses.   *)

\* Without a pointer it answers 404.
patch_edit_mapping(a) ==
    /\ call[a] = Idle
    /\ pointer[a] # "none"
    /\ Spend("requests")
    /\ call' = [call EXCEPT ![a] = [Idle EXCEPT !.pc = "edit", !.snap.sig = pointer[a]]]
    /\ UNCHANGED <<files, hashes, pointer, status, raw, registered, cli, history>>

\* The file is read and written in one go, so its users are the current ones.
\* Its entries are built anew from the snapshot in the file, for every account
\* that shares it: neither the snapshot of the account that edits nor that of
\* any other is looked at.
edit_mapping(a) ==
    LET s == call[a].snap.sig
    IN  /\ call[a].pc = "edit"
        /\ OnDisk(s)
        /\ \E chosen \in SUBSET Symbols : Write(s, [files[s] EXCEPT !.mapped = chosen])
        /\ call' = [call EXCEPT ![a].pc = "repopulate", ![a].used = files[s].used]
        /\ UNCHANGED <<hashes, pointer, status, raw, registered, cli,
                       history, spent>>

-----------------------------------------------------------------------------
(* The command line.  Its RedisService has no repository: it never touches *)
(* a file.                                                                 *)

add_account(a) ==
    /\ cli = NoRemoval
    /\ a \notin registered
    /\ registered' = registered \cup {a}
    /\ UNCHANGED <<files, hashes, pointer, status, raw, call, cli, history, spent>>

\* The pointer is read before the keys are dropped.
remove_account(a) ==
    /\ cli = NoRemoval
    /\ a \in registered
    /\ Spend("removals")
    /\ cli' = [NoRemoval EXCEPT !.pc = "drop", !.account = a, !.sig = pointer[a]]
    /\ UNCHANGED <<files, hashes, pointer, status, raw, registered, call, history>>

\* One pipeline deletes every key of the account.
DropKeys ==
    LET a == cli.account
    IN  /\ cli.pc = "drop"
        /\ registered' = registered \ {a}
        /\ status' = [status EXCEPT ![a] = "none"]
        /\ pointer' = [pointer EXCEPT ![a] = "none"]
        /\ raw' = [raw EXCEPT ![a] = NoSnap]
        /\ cli' = IF cli.sig = "none" THEN NoRemoval ELSE [cli EXCEPT !.pc = "users"]
        /\ call' = [call EXCEPT ![a].cut = call[a] # Idle]
        /\ link' = [link EXCEPT ![a] = [s \in Sigs |-> NoLink]]
        /\ removed' = removed \cup {a}
        /\ UNCHANGED <<files, hashes, torn, spent>>

ReadUsers ==
    /\ cli.pc = "users"
    /\ cli' = IF hashes[cli.sig].there
              THEN [cli EXCEPT !.pc = "trim",
                               !.used = hashes[cli.sig].used \ {cli.account}]
              ELSE NoRemoval
    /\ UNCHANGED <<files, hashes, pointer, status, raw, registered, call, history, spent>>

\* The hash loses the account, or goes with its last user.
cleanup_mapping_cache_for_account ==
    /\ cli.pc = "trim"
    /\ hashes' = [hashes EXCEPT ![cli.sig] =
                      IF cli.used = {} THEN NoHash ELSE [there |-> TRUE, used |-> cli.used]]
    /\ cli' = NoRemoval
    /\ UNCHANGED <<files, pointer, status, raw, registered, call, history, spent>>

-----------------------------------------------------------------------------
(* The server stops at any point and starts again.                         *)

\* The pointers after every file's users have been pointed at it, in the order
\* of the file names: an account in several files ends at any of them.
Repointed ==
    {p \in [Accounts -> Sigs \cup {"none"}] :
        \A a \in Accounts :
            IF Listing(a) = {} THEN p[a] = pointer[a] ELSE p[a] \in Listing(a)}

\* A plausible bug: a pointer is taken for an orphan whatever the status is.
AnyPointerIsAnOrphan(a) == TRUE

\* A plausible bug: a status that is none of the four the wizard knows.
PendingMisspelt == "pending"

\* What such an account starts with.
Pending == "pending_mapping"

\* An account of which no status was ever stored: its pointer is an orphan.
StatusMissing(a) == status[a] = "none"

\* populate_redis_from_disk makes the hashes those of the files on disk and
\* rebuilds the pointers; _init_mapping_statuses then drops the orphans.
Restart ==
    /\ Spend("restarts")
    /\ call' = [a \in Accounts |-> Idle]
    /\ hashes' = [s \in Sigs |->
                     IF OnDisk(s) THEN [there |-> TRUE, used |-> files[s].used] ELSE NoHash]
    /\ \E p \in Repointed :
           pointer' = [a \in Accounts |->
                          IF a \in registered /\ StatusMissing(a) THEN "none" ELSE p[a]]
    /\ status' = [a \in Accounts |->
                     IF a \in registered /\ StatusMissing(a) THEN Pending ELSE status[a]]
    /\ UNCHANGED <<files, raw, registered, cli, history>>

-----------------------------------------------------------------------------
Save(a) ==
    \/ post_save_mapping(a) \/ lookup_signature(a) \/ save_mapping(a)
    \/ populate_cache_into_redis(a) \/ account_to_mapping(a)
    \/ exness_raw_symbols(a) \/ set_mapping_status(a)
    \/ Refuse(a) \/ build_mapping_entry_fails(a)

Edit(a) == patch_edit_mapping(a) \/ edit_mapping(a)

CommandLine ==
    \/ \E a \in Accounts : add_account(a) \/ remove_account(a)
    \/ DropKeys \/ ReadUsers \/ cleanup_mapping_cache_for_account

Next ==
    \/ \E a \in Accounts : publish_snapshot(a) \/ Save(a) \/ Edit(a)
    \/ CommandLine
    \/ Restart

Spec == Init /\ [][Next]_vars

-----------------------------------------------------------------------------
(* Properties.                                                             *)

\* Every variable holds what its key or file can hold.
TypeOK ==
    /\ files \in [Sigs -> [spec : Contracts \cup {NoSpec}, mapped : SUBSET Symbols,
                        used : SUBSET Accounts]]
    /\ hashes \in [Sigs -> [there : BOOLEAN, used : SUBSET Accounts]]
    /\ pointer \in [Accounts -> Sigs \cup {"none"}]
    /\ status \in [Accounts -> {"none", "pending_mapping", "active"}]
    /\ raw \in [Accounts -> Snapshots \cup {NoSnap}]
    /\ registered \subseteq Accounts
    /\ call \in [Accounts ->
          [pc : {"idle", "lookup", "save", "populate", "point", "clear", "activate",
                 "edit", "repopulate"},
           snap : [sig : Sigs \cup {"none"}, spec : Contracts \cup {NoSpec}],
           hit : BOOLEAN, used : SUBSET Accounts, cut : BOOLEAN]]
    /\ cli \in [pc : {"idle", "drop", "users", "trim"}, account : Accounts \cup {"none"},
                sig : Sigs \cup {"none"}, used : SUBSET Accounts]

\* An account the hedge gate lets through has a mapping: its pointer leads to
\* a cache file, at every point of every request, after every restart, and
\* while other accounts are saved, edited or removed.  The one exception is an
\* account whose own keys were dropped while a request of it was under way.
ActiveIsUsable ==
    \A a \in Accounts \ torn :
        status[a] = "active" => pointer[a] # "none" /\ OnDisk(pointer[a])

\* A file never forgets an account that points at it, however the saves and
\* edits of the accounts sharing it interleave: a restart rebuilds the
\* pointers from these lists, and a removal judges by them who else is there.
LinkSurvives ==
    \A a \in Accounts : pointer[a] # "none" => a \in files[pointer[a]].used

\* An active account is hedged with the contract size its own broker published,
\* whoever created the file, as far as anything compares the two: for every
\* symbol that the file mapped when the account was linked, and for all of them
\* in a file made from its own snapshot, whatever the accounts that share it
\* drop from it and map again.  Not covered, because nothing compares them: a
\* symbol that an edit maps later, a link to a file that the lookup had missed,
\* and an account removed before (see ReaddedStartsAfresh).
LinkedSpecMatches ==
    \A a \in Accounts \ (removed \cup torn) :
        LET p == pointer[a]
        IN  status[a] = "active" =>
                Divergent(p, link[a][p].spec) \cap link[a][p].over = {}

\* A restart leaves an active account its status and, when a single file lists
\* it, its mapping.
RestartKeepsMapping ==
    [][Restart =>
         \A a \in registered \ torn :
             status[a] = "active" =>
                 /\ status'[a] = "active"
                 /\ Cardinality(Listing(a)) = 1 => pointer'[a] = pointer[a]]_vars

\* Removing an account clears its mapping, so that an account added again under
\* the same name is not active against the contract specifications of another
\* broker.
ReaddedStartsAfresh ==
    \A a \in (registered \cap removed) \ torn :
        status[a] = "active" => Divergent(pointer[a], link[a][pointer[a]].spec) = {}
=============================================================================
