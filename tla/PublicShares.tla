----------------------------- MODULE PublicShares -----------------------------
(***************************************************************************)
(* Shared notes: internal/share over the gitnote_shares table, the limiter *)
(* of public requests (RequestLimiter) and the notes themselves, which     *)
(* internal/gitnote reads from a repository that others write.             *)
(*                                                                         *)
(* A public request passes the limiter, looks its share up once, and then  *)
(* reads files one call after the other; an update of a share reads the    *)
(* row and writes every column back.  Other requests run in between.  A    *)
(* token is as good as the id of its share, so there are no tokens here.   *)
(*                                                                         *)
(* The clock is the limiter's: what is left of a share counts down too.    *)
(***************************************************************************)
EXTENDS RequestLimiter

CONSTANTS
  Handlers,    \* goroutines that serve requests
  Addresses,   \* addresses public requests come from
  ShareIds,
  Notes,       \* markdown files
  Media,       \* files a note may embed
  Prefixes,    \* paths that may be shared: a note, or a folder
  Covers,      \* prefix -> the files under it
  Lifetimes,   \* ticks a share may be given; Never is none
  Loads,       \* (bound) how many writes of shares and notes, and how many ticks
  None         \* no share, no file

Never == -1
Files == Notes \cup Media

KeysOf(ip, id) == {<<ip, None>>, <<ip, id>>}

ASSUME PrefixesAssumption == Covers \in [Prefixes -> SUBSET Files]
ASSUME KeysAssumption ==
  Keys = UNION {KeysOf(ip, id) : ip \in Addresses, id \in ShareIds}
ASSUME LifetimesAssumption == Lifetimes \subseteq Nat /\ Loads \subseteq [writes : Nat, ticks : Nat]
ASSUME NoneAssumption == None \notin ShareIds \cup Files \cup Prefixes

VARIABLES
  shares,   \* gitnote_shares: id -> row
  embeds,   \* the repository of notes: note -> the media it embeds
  jobs,     \* what each handler is doing
  load      \* (bound) what is left of this behaviour's load

shareVars == <<entries, recent, shares, embeds, jobs, load>>

-------------------------------------------------------------------------------
Row == [prefix : Prefixes, revoked : BOOLEAN, left : Nat \cup {Never}]

(* The fields a PATCH may name, one or none of them (a title, say).        *)
Patches == [prefix : Prefixes] \cup [revoked : BOOLEAN]
             \cup [left : Lifetimes \cup {Never}] \cup {<<>>}
(* Mutant: what is not patched is not written. *)
PatchedOrNull(row, patch) ==
  [f \in DOMAIN row |-> IF f \in DOMAIN patch THEN patch[f] ELSE None]

Patched(row, patch) ==
  [f \in DOMAIN row |-> IF f \in DOMAIN patch THEN patch[f] ELSE row[f]]

Kinds == {"share", "tree", "raw", "download"}
Steps == {"idle", "lookup", "reference", "fetch", "bundle", "serve", "write"}

Idle == [step |-> "idle", id |-> None]
At(h, step) == jobs[h].step = step
Reading(h)  == jobs[h].step \in {"lookup", "reference", "fetch", "bundle", "serve"}
Answer(h)   == jobs' = [jobs EXCEPT ![h] = Idle]

Active(row) == ~row.revoked /\ row.left # 0

Usable(id) == id \in DOMAIN shares /\ Active(shares[id])

(* Mutant: only revocation is looked at. *)
FoundAtAnyAge(id) == id \in DOMAIN shares /\ ~shares[id].revoked

Found(id) == Usable(id)

(* A public request has the file it asks for, the note it says embeds it,  *)
(* the prefix of the share it found, the files it has so far and those it  *)
(* is to add.  An update has the row it read and the row it will write.    *)
(* For the properties: dead says that the share has been of no use since   *)
(* the request arrived, seen what notes under the prefix have embedded     *)
(* since it was looked up, asked which fields the update was asked to set. *)
PublicJob(id) ==
  [step |-> "lookup", id |-> id, kind |-> "share", file |-> None, from |-> None,
   prefix |-> None, files |-> {}, todo |-> {}, dead |-> ~Usable(id), seen |-> {}]

Embedded(prefix) == UNION {embeds[n] : n \in Notes \cap Covers[prefix]}

(* What others do to the history of the public requests under way.         *)
Revived(id) ==
  [h \in Handlers |-> IF Reading(h) /\ jobs[h].id = id THEN [jobs[h] EXCEPT !.dead = FALSE]
                                                       ELSE jobs[h]]

-------------------------------------------------------------------------------
(* The owner's requests.                                                   *)

Counts == load.writes > 0 /\ load' = [load EXCEPT !.writes = @ - 1]

CreateGitNoteShare ==
  /\ Counts
  /\ \E id \in ShareIds \ DOMAIN shares, prefix \in Prefixes, left \in Lifetimes \cup {Never} :
       /\ shares' = [i \in DOMAIN shares \cup {id} |->
            IF i = id THEN [prefix |-> prefix, revoked |-> FALSE, left |-> left] ELSE shares[i]]
       /\ jobs' = IF left # 0 THEN Revived(id) ELSE jobs
  /\ UNCHANGED <<entries, recent, embeds>>

(* One UPDATE, of any share, revoked or not.                               *)
RevokeGitNoteShare ==
  /\ Counts
  /\ \E id \in DOMAIN shares : shares' = [shares EXCEPT ![id].revoked = TRUE]
  /\ UNCHANGED <<entries, recent, embeds, jobs>>

(* UpdateGitNoteShare reads the row and applies the patch to it,           *)
ReceiveUpdateGitNoteShare(h) ==
  /\ At(h, "idle")
  /\ Counts
  /\ \E id \in DOMAIN shares, patch \in Patches :
       jobs' = [jobs EXCEPT ![h] =
         [step |-> "write", id |-> id, was |-> shares[id], row |-> Patched(shares[id], patch),
          asked |-> DOMAIN patch]]
  /\ UNCHANGED <<entries, recent, shares, embeds>>

(* Mutant: a write lifts the revocation unless it sets one. *)
UpdateGitNoteShareLifts(h) ==
  LET job == jobs[h] IN
  /\ At(h, "write")
  /\ shares' = [shares EXCEPT ![job.id] = [job.row EXCEPT !.revoked = @ /\ "revoked" \in job.asked]]
  /\ jobs' = [(IF Active(job.row) THEN Revived(job.id) ELSE jobs) EXCEPT ![h] = Idle]
  /\ UNCHANGED <<entries, recent, embeds, load>>

(* and writes every column.                                                *)
UpdateGitNoteShare(h) ==
  LET job == jobs[h] IN
  /\ At(h, "write")
  /\ shares' = [shares EXCEPT ![job.id] = job.row]
  /\ jobs' = [(IF Active(job.row) THEN Revived(job.id) ELSE jobs) EXCEPT ![h] = Idle]
  /\ UNCHANGED <<entries, recent, embeds, load>>

(* The notes are written elsewhere.                                        *)
EditNote ==
  /\ Counts
  /\ \E n \in Notes, ms \in SUBSET Media :
       /\ embeds' = [embeds EXCEPT ![n] = ms]
       /\ jobs' = [h \in Handlers |->
            IF Reading(h) /\ jobs[h].prefix # None /\ n \in Covers[jobs[h].prefix]
            THEN [jobs[h] EXCEPT !.seen = @ \cup ms] ELSE jobs[h]]
  /\ UNCHANGED <<entries, recent, shares>>
-------------------------------------------------------------------------------
(* Public requests.                                                        *)

(* allowPublicShareRequest: counted under the address, and under the       *)
(* address with the token; a refused one is answered.                      *)
Receive(h) ==
  /\ At(h, "idle")
  /\ \E ip \in Addresses, id \in ShareIds :
       /\ Allow(KeysOf(ip, id))
       /\ IF \E key \in KeysOf(ip, id) : Full(key) THEN UNCHANGED jobs
          ELSE jobs' = [jobs EXCEPT ![h] = PublicJob(id)]
  /\ UNCHANGED <<shares, embeds, load>>

(* The step a request goes on with once it has its share: straight to the  *)
(* file, or by way of the note that embeds it, or nowhere.                 *)
NextStep(kind, file, prefix) ==
  CASE kind = "share" -> "serve"
    [] kind = "tree" -> "fetch"
    [] kind = "raw" /\ file \in Media \ Covers[prefix] -> "reference"
    [] OTHER -> IF file \in Covers[prefix] THEN "fetch" ELSE "idle"

(* What is asked for of the share is not looked at before it is found.     *)
ActiveByToken(h) ==
  LET id == jobs[h].id IN
  /\ At(h, "lookup")
  /\ IF ~Found(id) THEN Answer(h)
     ELSE \E kind \in Kinds :
          \E file \in IF kind \in {"raw", "download"} THEN Files ELSE {None},
             from \in IF kind = "raw" THEN Notes \cup {None} ELSE {None} :
            LET prefix == shares[id].prefix
                step   == NextStep(kind, file, prefix) IN
            IF step = "idle" THEN Answer(h)
            ELSE jobs' = [jobs EXCEPT ![h] =
                   [@ EXCEPT !.step = step, !.kind = kind, !.file = file, !.from = from,
                             !.prefix = prefix, !.seen = Embedded(prefix)]]
  /\ UNCHANGED <<entries, recent, shares, embeds, load>>

(* Mutant: any note may vouch for a file. *)
MarkdownReferencesPathAnywhere(h) ==
  LET job  == jobs[h]
      from == IF job.from = None THEN job.prefix ELSE job.from IN
  /\ At(h, "reference")
  /\ IF from \in Notes /\ job.file \in embeds[from]
     THEN jobs' = [jobs EXCEPT ![h].step = "fetch"]
     ELSE Answer(h)
  /\ UNCHANGED <<entries, recent, shares, embeds, load>>

(* publicPathAllowed and markdownReferencesPath: the note named, or the    *)
(* one that is shared, must be under the prefix and embed the file.        *)
MarkdownReferencesPath(h) ==
  LET job  == jobs[h]
      from == IF job.from = None THEN job.prefix ELSE job.from IN
  /\ At(h, "reference")
  /\ IF from \in Notes \cap Covers[job.prefix] /\ job.file \in embeds[from]
     THEN jobs' = [jobs EXCEPT ![h].step = "fetch"]
     ELSE Answer(h)
  /\ UNCHANGED <<entries, recent, shares, embeds, load>>

(* The call that reads the tree, filtered by the prefix, or the file; the  *)
(* download of a note goes on with what it embeds.                         *)
Fetch(h) ==
  LET job == jobs[h] IN
  /\ At(h, "fetch")
  /\ jobs' = [jobs EXCEPT ![h] =
       CASE job.kind = "tree" ->
              [job EXCEPT !.step = "serve", !.files = Covers[job.prefix]]
         [] job.kind = "download" /\ job.file \in Notes ->
              [job EXCEPT !.step = "bundle", !.files = {job.file}, !.todo = embeds[job.file]]
         [] OTHER ->
              [job EXCEPT !.step = "serve", !.files = {job.file}]]
  /\ UNCHANGED <<entries, recent, shares, embeds, load>>

(* writeMarkdownBundle: one call per file; one that is not found is left   *)
(* out.                                                                    *)
BundleFile(h) ==
  /\ At(h, "bundle")
  /\ IF jobs[h].todo = {} THEN jobs' = [jobs EXCEPT ![h].step = "serve"]
     ELSE \E file \in jobs[h].todo : \E found \in {{}, {file}} :
            jobs' = [jobs EXCEPT ![h] =
              [jobs[h] EXCEPT !.todo = @ \ {file}, !.files = @ \cup found]]
  /\ UNCHANGED <<entries, recent, shares, embeds, load>>

Serve(h) ==
  /\ At(h, "serve")
  /\ Answer(h)
  /\ UNCHANGED <<entries, recent, shares, embeds, load>>

(* A statement or a call fails, the bundle is too large, the request is    *)
(* cancelled.                                                              *)
Fail(h) ==
  /\ ~At(h, "idle")
  /\ Answer(h)
  /\ UNCHANGED <<entries, recent, shares, embeds, load>>

-------------------------------------------------------------------------------
Aged(row) == [row EXCEPT !.left = IF @ > 0 THEN @ - 1 ELSE @]

(* Instants that a request holds come nearer as well.                      *)
Time ==
  /\ load.ticks > 0 /\ load' = [load EXCEPT !.ticks = @ - 1]
  /\ Tick
  /\ shares' = [id \in DOMAIN shares |-> Aged(shares[id])]
  /\ jobs' = [h \in Handlers |->
       IF At(h, "write") THEN [jobs[h] EXCEPT !.was = Aged(@), !.row = Aged(@)] ELSE jobs[h]]
  /\ UNCHANGED embeds

(* The process starts anew: the limiter knows nothing of what it admitted, *)
(* and what the bursts are counted in is one process.                      *)
Restart ==
  /\ entries' = <<>>
  /\ recent' = [key \in Keys |-> [age \in Ages |-> 0]]
  /\ jobs' = [h \in Handlers |-> Idle]
  /\ UNCHANGED <<shares, embeds, load>>

SharesInit ==
  /\ Init
  /\ shares = <<>>
  /\ embeds = [n \in Notes |-> {}]
  /\ jobs = [h \in Handlers |-> Idle]
  /\ load \in Loads

SharesNext ==
  \/ CreateGitNoteShare \/ RevokeGitNoteShare \/ EditNote \/ Time \/ Restart
  \/ \E h \in Handlers :
       \/ ReceiveUpdateGitNoteShare(h) \/ UpdateGitNoteShare(h)
       \/ Receive(h) \/ ActiveByToken(h) \/ MarkdownReferencesPath(h)
       \/ Fetch(h) \/ BundleFile(h) \/ Serve(h) \/ Fail(h)

SharesSpec == SharesInit /\ [][SharesNext]_shareVars

-------------------------------------------------------------------------------
(* Properties.                                                             *)

PublicJobs == [step : Steps \ {"idle", "write"}, kind : Kinds, id : ShareIds,
               file : Files \cup {None}, from : Notes \cup {None}, prefix : Prefixes \cup {None},
               files : SUBSET Files, todo : SUBSET Media, dead : BOOLEAN, seen : SUBSET Media]
UpdateJobs == [step : {"write"}, id : ShareIds, was : Row, row : Row,
               asked : SUBSET {"prefix", "revoked", "left"}]

(* The tables keep their columns, a request has its share from the lookup  *)
(* on, and one that writes names a row that exists.                        *)
TypeOK ==
  /\ DOMAIN shares \subseteq ShareIds /\ shares \in [DOMAIN shares -> Row]
  /\ embeds \in [Notes -> SUBSET Media]
  /\ jobs \in [Handlers -> {Idle} \cup PublicJobs \cup UpdateJobs]
  /\ \A h \in Handlers :
       /\ At(h, "write") => jobs[h].id \in DOMAIN shares
       /\ Reading(h) /\ ~At(h, "lookup") => jobs[h].prefix # None

(* share.go, ActiveByToken: a share that has been revoked, expired or      *)
(* unknown since a request arrived gives it nothing, not even the first    *)
(* call for a file; one found in time may go on after a revocation.        *)
NothingForTheLate ==
  \A h \in Handlers : Reading(h) /\ ~At(h, "lookup") => ~jobs[h].dead

(* share.go, publicPathAllowed and writeMarkdownBundle: whatever is served *)
(* is under the prefix of the share or was embedded, while the request was *)
(* under way, by a note under it, however the notes are edited meanwhile.  *)
ServedIsShared ==
  \A h \in Handlers :
    At(h, "serve") => jobs[h].files \subseteq Covers[jobs[h].prefix] \cup jobs[h].seen

(* share.go, UpdateGitNoteShare: a revocation is lifted, a prefix changed  *)
(* or a life prolonged only by an update that was asked to, or by one that *)
(* read the row before it had what it overwrites.                          *)
ReopenedOnRequestOrStaleRead ==
  [][\A id \in DOMAIN shares :
       \A f \in {"prefix", "revoked", "left"} :
         \/ shares'[id][f] = shares[id][f]
         \/ f = "revoked" /\ shares'[id][f]
         \/ f = "left" /\ shares'[id].left = Aged(shares[id]).left
         \/ \E h \in Handlers :
              /\ At(h, "write") /\ jobs[h].id = id /\ ~At(h, "write")'
              /\ f \in jobs[h].asked \/ jobs[h].was[f] # shares[id][f]]_shareVars
===============================================================================
