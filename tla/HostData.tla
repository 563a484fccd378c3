------------------------------ MODULE HostData ------------------------------
(***************************************************************************)
(* The data that decune keeps on the host: the four directories of each     *)
(* workspace and the Feature archive cache that all workspaces share, as    *)
(* ups fill them (devcontainer/features/cache.rs, up/metadata/feature.rs)   *)
(* and `decune clean` removes them (clean.rs).                              *)
(*                                                                         *)
(* The archive cache is guarded by a lock between processes, shared for a   *)
(* pull and exclusive for its removal.  The directories of a workspace are  *)
(* guarded by nothing: clean looks, asks its user, looks again at each      *)
(* workspace and removes what nobody uses.                                  *)
(*                                                                         *)
(* One Feature with one digest stands for all.  A live session of a         *)
(* workspace keeps a socket in its runtime directory; lock files count as   *)
(* sockets, and data that holds symbolic links, which clean leaves alone,   *)
(* is left out.                                                             *)
(***************************************************************************)
EXTENDS Integers, FiniteSets

CONSTANTS Ups, Workspaces, NoWorkspace,
          Homes  \* where the ups of a user run: a set of workspaces for each

\* Workspace ids are compared: clean takes its targets in their order.
ASSUME WorkspacesAssumption == Workspaces \subseteq Int /\ NoWorkspace \notin Workspaces
ASSUME HomesAssumption == Homes \in [Ups -> SUBSET Workspaces]

VARIABLES
    up,         \* the processes of `decune up`
    clean,      \* the process of `decune clean`
    dirs,       \* the directories that exist for each workspace
    extracted,  \* the Feature in <cache>/features/extracted of each workspace:
                \* none, whole, or being unpacked by the up that opened it last
    archive,    \* the files of the Feature in the archive cache
    managed,    \* workspaces with a managed container or volume
    spared      \* history: what clean must respect

vars == <<up, clean, dirs, extracted, archive, managed, spared>>

\* WorkspacePathKind, in the order of their removal.
Kinds == {"cache", "state", "runtime", "ports"}
AfterKind == [cache |-> "state", state |-> "runtime", runtime |-> "ports", ports |-> "next"]

Pulling == {"check", "fetch", "write", "describe", "open", "unpack", "verify"}
UpPcs == {"idle", "lock", "build", "stage", "create", "record", "serve", "hold"} \cup Pulling
CleanPcs == {"idle", "list", "scan", "confirm", "next", "revalidate", "recheck", "lock",
             "features", "done"} \cup Kinds

NoClean == [pc |-> "idle", listed |-> {}, todo |-> {}, ws |-> NoWorkspace, features |-> FALSE]

TypeOK ==
    /\ up \in [Ups -> [pc : UpPcs, ws : Workspaces \cup {NoWorkspace}]]
    /\ clean \in [pc : CleanPcs, listed : SUBSET Workspaces, todo : SUBSET Workspaces,
                  ws : Workspaces \cup {NoWorkspace}, features : BOOLEAN]
    /\ dirs \in [Workspaces -> SUBSET Kinds]
    /\ extracted \in [Workspaces -> {"none", "whole"} \cup Ups]
    /\ archive \subseteq {"tgz", "toml"}
    /\ managed \subseteq Workspaces
    /\ spared \in [managed : SUBSET Workspaces, active : SUBSET Workspaces,
                   stale : SUBSET Workspaces]

\* What there may be of a workspace that nobody opens any more: nothing, all, or
\* what a clean left that died before its last removal.
Leftovers == {{}, Kinds, {"ports"}}

Init ==
    /\ up = [u \in Ups |-> [pc |-> "idle", ws |-> NoWorkspace]]
    /\ clean = NoClean
    /\ dirs \in [Workspaces -> Leftovers]
    /\ \A w \in UNION {Homes[u] : u \in Ups} : dirs[w] = {}
    /\ extracted = [w \in Workspaces |-> "none"]
    /\ archive = {}
    /\ managed = {}
    /\ spared = [managed |-> {}, active |-> {}, stale |-> {}]

\* runtime_is_active: a socket under the runtime directory answers.
Active == {w \in Workspaces : "runtime" \in dirs[w]
                              /\ \E u \in Ups : up[u] = [pc |-> "hold", ws |-> w]}
Touched == {up[u].ws : u \in Ups}

-----------------------------------------------------------------------------
(* An up: the pull of its Feature, under the shared lock *)

Goto(u, pc) == up' = [up EXCEPT ![u].pc = pc]
Leave(u) == up' = [up EXCEPT ![u] = [pc |-> "idle", ws |-> NoWorkspace]]

BeginUp(u, w) ==
    /\ up[u].pc = "idle"
    /\ up' = [up EXCEPT ![u] = [pc |-> "lock", ws |-> w]]
    /\ UNCHANGED <<clean, dirs, extracted, archive, managed>>

\* Mutated form: the lock file is not taken.
LockSharedNever(u) ==
    /\ up[u].pc = "lock"
    /\ Goto(u, "check")
    /\ UNCHANGED <<clean, dirs, extracted, archive, managed>>

LockShared(u) ==
    /\ up[u].pc = "lock" /\ clean.pc # "features"
    /\ Goto(u, "check")
    /\ UNCHANGED <<clean, dirs, extracted, archive, managed>>

\* cached_feature_archive_is_valid: the archive and its description are there.
Check(u) ==
    /\ up[u].pc = "check"
    /\ Goto(u, IF archive = {"tgz", "toml"} THEN "open" ELSE "fetch")
    /\ UNCHANGED <<clean, dirs, extracted, archive, managed>>

\* fetch_manifest, fetch_blob, verify_digest; each of them may fail.
Fetch(u) ==
    /\ up[u].pc = "fetch"
    /\ Goto(u, "write") \/ Leave(u)
    /\ UNCHANGED <<clean, dirs, extracted, archive, managed>>

\* write_cache_archive: two files, each complete under another name first.
WriteArchive(u) ==
    /\ up[u].pc = "write"
    /\ archive' = archive \cup {"tgz"}
    /\ Goto(u, "describe")
    /\ UNCHANGED <<clean, dirs, extracted, managed>>

DescribeArchive(u) ==
    /\ up[u].pc = "describe"
    /\ archive' = archive \cup {"toml"}
    /\ Goto(u, "open")
    /\ UNCHANGED <<clean, dirs, extracted, managed>>

\* extract_feature_archive: a new directory, and the archive opened.
OpenArchive(u) ==
    /\ up[u].pc = "open"
    /\ dirs' = [dirs EXCEPT ![up[u].ws] = @ \cup {"cache"}]
    /\ extracted' = [extracted EXCEPT ![up[u].ws] = u]
    /\ IF "tgz" \in archive THEN Goto(u, "unpack") ELSE Leave(u)
    /\ UNCHANGED <<clean, archive, managed>>

\* extract_tar_archive.  The lock is shared: another up of the workspace may
\* have removed the directory and begun anew, and clean may have removed it.
Unpack(u) ==
    /\ up[u].pc = "unpack"
    /\ extracted' = [extracted EXCEPT ![up[u].ws] = IF @ = u THEN "whole" ELSE @]
    /\ \/ extracted[up[u].ws] # "none" /\ Goto(u, "verify")
       \/ extracted[up[u].ws] # u /\ Leave(u)
    /\ UNCHANGED <<clean, dirs, archive, managed>>

\* find_required_feature_file, which looks for two of the files; the end of the
\* pull releases the lock.
Verify(u) ==
    /\ up[u].pc = "verify"
    /\ \/ extracted[up[u].ws] # "none" /\ Goto(u, "build")
       \/ extracted[up[u].ws] # "whole" /\ Leave(u)
    /\ UNCHANGED <<clean, dirs, extracted, archive, managed>>

-----------------------------------------------------------------------------
(* An up: the rest of it, as far as clean looks at it *)

\* The Feature is copied into the build context: nothing guards it here.
Build(u) ==
    /\ up[u].pc = "build"
    /\ \/ extracted[up[u].ws] # "none" /\ Goto(u, "stage")
       \/ extracted[up[u].ws] # "whole" /\ Leave(u)
    /\ UNCHANGED <<clean, dirs, extracted, archive, managed>>

Stage(u) ==
    /\ up[u].pc = "stage"
    /\ dirs' = [dirs EXCEPT ![up[u].ws] = @ \cup {"runtime"}]
    /\ Goto(u, "create")
    /\ UNCHANGED <<clean, extracted, archive, managed>>

\* docker create, which refuses to mount a directory that is not there.
Create(u) ==
    /\ up[u].pc = "create"
    /\ \/ Goto(u, "record") /\ managed' = managed \cup {up[u].ws}
       \/ "runtime" \notin dirs[up[u].ws] /\ Leave(u) /\ UNCHANGED managed
    /\ UNCHANGED <<clean, dirs, extracted, archive>>

Record(u) ==
    /\ up[u].pc = "record"
    /\ dirs' = [dirs EXCEPT ![up[u].ws] = @ \cup {"state"}]
    /\ Goto(u, "serve") \/ Leave(u)
    /\ UNCHANGED <<clean, extracted, archive, managed>>

\* An attached up: the host daemon and the status server.
Serve(u) ==
    /\ up[u].pc = "serve"
    /\ dirs' = [dirs EXCEPT ![up[u].ws] = @ \cup {"runtime", "ports"}]
    /\ Goto(u, "hold")
    /\ UNCHANGED <<clean, extracted, archive, managed>>

\* The session ends, or the process fails or is killed where it is.
EndUp(u) ==
    /\ up[u].pc # "idle"
    /\ Leave(u)
    /\ UNCHANGED <<clean, dirs, extracted, archive, managed>>

\* `decune remove`, a rebuild, or docker itself.
Unmanage(w) ==
    /\ w \in managed
    /\ managed' = managed \ {w}
    /\ UNCHANGED <<up, clean, dirs, extracted, archive>>

-----------------------------------------------------------------------------
(* clean *)

BeginClean(features) ==
    /\ clean.pc = "idle"
    /\ clean' = [NoClean EXCEPT !.pc = "list", !.features = features]
    /\ UNCHANGED <<up, dirs, extracted, archive, managed>>

\* discover_managed_workspace_ids, without which nothing is removed.
ListManaged ==
    /\ clean.pc = "list"
    /\ clean' = [clean EXCEPT !.pc = "scan", !.listed = managed]
    /\ UNCHANGED <<up, dirs, extracted, archive, managed>>

\* Mutated form: the directories of the port status are not searched.
DiscoveredInRoots == {w \in Workspaces : dirs[w] \ {"ports"} # {}}

\* discover_workspace_clean_targets: a directory in any of the roots.
Discovered == {w \in Workspaces : dirs[w] # {}}

\* workspace_clean_target: StaleWorkspaceData.
IsStale(w) == w \notin clean.listed /\ w \notin Active /\ dirs[w] # {}

Scan ==
    /\ clean.pc = "scan"
    /\ clean' = [clean EXCEPT !.pc = "confirm", !.listed = {},
                              !.todo = {w \in Discovered : IsStale(w)}]
    /\ UNCHANGED <<up, dirs, extracted, archive, managed>>

\* The user says yes, or --no-confirm; EndClean is the other answer.
Confirm ==
    /\ clean.pc = "confirm"
    /\ clean' = [clean EXCEPT !.pc = "next"]
    /\ UNCHANGED <<up, dirs, extracted, archive, managed>>

\* apply_clean_report: workspaces in order, the Feature cache last.
NextTarget ==
    /\ clean.pc = "next"
    /\ \/ \E w \in clean.todo :
            /\ \A v \in clean.todo : w <= v
            /\ clean' = [clean EXCEPT !.pc = "revalidate", !.ws = w, !.todo = @ \ {w}]
       \/ /\ clean.todo = {}
          /\ clean' = [clean EXCEPT !.pc = IF clean.features THEN "lock" ELSE "done",
                                    !.ws = NoWorkspace]
    /\ UNCHANGED <<up, dirs, extracted, archive, managed>>

\* revalidate_workspace_clean_target: Docker first, the files after it.
Revalidate ==
    /\ clean.pc = "revalidate"
    /\ clean' = [clean EXCEPT !.pc = "recheck", !.listed = managed]
    /\ UNCHANGED <<up, dirs, extracted, archive, managed>>

\* Mutated form: the target is removed as the report has it.
RecheckNothing ==
    /\ clean.pc = "recheck"
    /\ clean' = [clean EXCEPT !.pc = "cache", !.listed = {}]
    /\ UNCHANGED <<up, dirs, extracted, archive, managed>>

Recheck ==
    /\ clean.pc = "recheck"
    /\ clean' = [clean EXCEPT !.pc = IF IsStale(clean.ws) THEN "cache" ELSE "next",
                              !.listed = {}]
    /\ UNCHANGED <<up, dirs, extracted, archive, managed>>

\* remove_dir_if_exists, for one of the directories.
RemoveDir ==
    /\ clean.pc \in Kinds
    /\ dirs' = [dirs EXCEPT ![clean.ws] = @ \ {clean.pc}]
    /\ extracted' = IF clean.pc = "cache"
                    THEN [extracted EXCEPT ![clean.ws] = "none"] ELSE extracted
    /\ clean' = [clean EXCEPT !.pc = AfterKind[clean.pc]]
    /\ UNCHANGED <<up, archive, managed>>

LockExclusive ==
    /\ clean.pc = "lock"
    /\ \A u \in Ups : up[u].pc \notin Pulling
    /\ clean' = [clean EXCEPT !.pc = "features"]
    /\ UNCHANGED <<up, dirs, extracted, archive, managed>>

\* The files of the cache go one by one, in the order the directory has them.
RemoveArchive(f) ==
    /\ clean.pc = "features" /\ f \in archive
    /\ archive' = archive \ {f}
    /\ UNCHANGED <<up, clean, dirs, extracted, managed>>

RemovedArchives ==
    /\ clean.pc = "features" /\ archive = {}
    /\ clean' = [clean EXCEPT !.pc = "done"]
    /\ UNCHANGED <<up, dirs, extracted, archive, managed>>

\* The end of the process: done, refused by the user, an error of Docker or of
\* a removal, or killed.
EndClean ==
    /\ clean.pc # "idle"
    /\ clean' = NoClean
    /\ UNCHANGED <<up, dirs, extracted, archive, managed>>

-----------------------------------------------------------------------------
\* managed, active: used without a break since the user has confirmed.
\* stale: unused and untouched since clean began.
Unused == Workspaces \ (managed \cup Active \cup Touched)
Spare ==
    LET Since(start, old, now) ==
          IF clean'.pc = "idle" THEN {} ELSE IF clean.pc = start THEN now ELSE old \cap now
    IN spared' = [managed |-> Since("confirm", spared.managed, managed'),
                  active  |-> Since("confirm", spared.active, Active'),
                  stale   |-> Since("idle", spared.stale, Unused')]

UpStep(u) ==
    \/ \E w \in Homes[u] : BeginUp(u, w)
    \/ LockShared(u) \/ Check(u) \/ Fetch(u) \/ WriteArchive(u) \/ DescribeArchive(u)
    \/ OpenArchive(u) \/ Unpack(u) \/ Verify(u)
    \/ Build(u) \/ Stage(u) \/ Create(u) \/ Record(u) \/ Serve(u) \/ EndUp(u)

CleanStep ==
    \/ \E features \in BOOLEAN : BeginClean(features)
    \/ ListManaged \/ Scan \/ Confirm \/ NextTarget \/ Revalidate \/ Recheck \/ RemoveDir
    \/ LockExclusive \/ (\E f \in archive : RemoveArchive(f)) \/ RemovedArchives \/ EndClean

Next ==
    /\ (\E u \in Ups : UpStep(u)) \/ CleanStep \/ \E w \in Workspaces : Unmanage(w)
    /\ Spare

Spec == Init /\ [][Next]_vars

-----------------------------------------------------------------------------
(* Properties *)

\* A pull that has found or written the archive still has it when it opens it,
\* whatever clean does in between and wherever an earlier process has died.
PulledArchiveStays ==
    \A u \in Ups : up[u].pc = "open" => archive = {"tgz", "toml"}

\* clean removes nothing of a workspace that has had a container, or a live
\* session, ever since its user confirmed, however old its report is.
CleanSparesUsed ==
    [][\A w \in Workspaces :
         ~(dirs[w] \subseteq dirs'[w]) => w \notin spared.managed \cup spared.active]_vars

\* After a clean that ends well nothing is left of a workspace that was unused
\* from its beginning on, whatever ups and cleans that died have left of it.
NothingStaleLeft ==
    clean.pc = "done" => \A w \in spared.stale : dirs[w] = {}
=============================================================================
