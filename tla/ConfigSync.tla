----------------------------- MODULE ConfigSync -----------------------------
(***************************************************************************)
(* core/nginx_config.py: configure_all(), which makes the web servers send *)
(* their requests to the service (enable) or stop (disable, at removal).   *)
(*                                                                         *)
(* Per server there is a file that defines the log format, per site its    *)
(* virtual host, which must include an extension directory, and a file in  *)
(* that directory that sends the requests on.  One run at a time rewrites  *)
(* the files that are not as they should be, tests and reloads the servers *)
(* concerned, and puts every file back if a step fails.  The panel and the *)
(* administrator write virtual hosts and reload the servers at any time,   *)
(* and the process can be killed between any two steps.                    *)
(*                                                                         *)
(* Of a virtual host the model keeps whether the server can parse it and   *)
(* who wrote its include line; of an extension the id in its tag.  The     *)
(* small files are written in one step.                                    *)
(***************************************************************************)
EXTENDS Integers, Sequences, FiniteSets, Functions

CONSTANTS Sites,      (* site names                                         *)
          Kind(_),    (* the server a site is run by: site_discovery        *)
                      (* ._web_server(); here it does not change, in the    *)
                      (* code a moved virtual host changes it               *)
          MaxIds,     (* bound: sites the panel creates                     *)
          MaxChanges, (* bound: steps of the panel and administrator        *)
          MaxFaults,  (* bound: errors and kills                            *)
          None

Server == {"apache", "nginx"}

ASSUME ConfigAssumption ==
    /\ \A s \in Sites : Kind(s) \in Server
    /\ {MaxIds, MaxChanges, MaxFaults} \subseteq Nat
    /\ None \notin Nat \cup {"ours"}

Ids == 1 .. MaxIds

VARIABLES
    panel,     (* the id of each site of the panel                          *)
    files,     (* the content of every file                                 *)
    loaded,    (* per server, the (site, id) pairs it sends on              *)
    pc,        (* what the run does next                                    *)
    enable,    (* its argument                                              *)
    known,     (* the sites it discovered                                   *)
    todo,      (* files, sites or servers that remain in this phase         *)
    at,        (* the site being configured                                 *)
    buffer,    (* its virtual host as it was read                           *)
    saved,     (* originals: what to put back                               *)
    changed,   (* changed_servers                                           *)
    outcome,   (* of the last run                                           *)
    before,    (* the files when it began                                   *)
    touched,   (* files that others wrote since                             *)
    reloaded,  (* servers that others reloaded or touched since             *)
    installed, (* "no", "yes", or what install.sh uninstall has done        *)
    ids, changes, faults

run    == <<pc, enable, known, todo, at, buffer, saved, changed, outcome>>
ghosts == <<before, touched, reloaded>>
bounds == <<ids, changes, faults>>
vars   == <<panel, files, loaded, run, ghosts, installed, bounds>>

Format(w)    == <<"format", w>>
Vhost(s)     == <<"vhost", s>>
Extension(s) == <<"extension", s>>

File == {Format(w) : w \in Server} \cup {Vhost(s) : s \in Sites}
                                   \cup {Extension(s) : s \in Sites}

ServerOf(f) == IF f[1] = "format" THEN f[2] ELSE Kind(f[2])

(* "bare": no brace or closing tag to put the include line before.         *)
VhostText == [shape : {"ok", "bare", "broken"}, include : {"none", "block", "native"}]

Content(f) == CASE f[1] = "format"    -> {"ours"}
                [] f[1] = "vhost"     -> VhostText
                [] f[1] = "extension" -> Ids

Phases == {"idle", "format", "sites", "vhost", "extension", "clean", "reload", "restore"}

TypeOK ==
    /\ panel \in [Sites -> Ids \cup {None}]
    /\ DOMAIN files = File
    /\ \A f \in File : files[f] \in Content(f) \cup {None}
    /\ loaded \in [Server -> SUBSET (Sites \X Ids)]
    /\ pc \in Phases /\ enable \in BOOLEAN
    /\ known \in [Sites -> Ids \cup {None}]
    /\ todo \subseteq IF pc \in {"format", "reload"} THEN Server
                      ELSE Sites \cup Server
    /\ at \in Sites \cup {None}
    /\ buffer \in VhostText \cup {None}
    /\ \A i \in DOMAIN saved : saved[i][2] \in Content(saved[i][1]) \cup {None}
    /\ changed \subseteq Server
    /\ outcome \in {"none", "running", "success", "failed", "killed"}
    /\ touched \subseteq File /\ reloaded \subseteq Server
    /\ installed \in {"no", "yes", "disabling", "disabled"}
    /\ ids \in 0 .. MaxIds /\ changes \in 0 .. MaxChanges /\ faults \in 0 .. MaxFaults

-----------------------------------------------------------------------------
(* The web servers.                                                        *)

(* What server w sends on if it loads the files fs.                        *)
SendsOf(fs, w) == {p \in Sites \X Ids :
                      /\ Kind(p[1]) = w
                      /\ fs[Vhost(p[1])] # None /\ fs[Vhost(p[1])].include # "none"
                      /\ fs[Extension(p[1])] = p[2]}

Sends(w) == SendsOf(files, w)

(* nginx -t, apachectl -t.  An undefined format is an error for nginx      *)
(* only.                                                                   *)
Accepts(w, fs) ==
    /\ \A s \in Sites : Kind(s) = w /\ fs[Vhost(s)] # None
                            => fs[Vhost(s)].shape # "broken"
    /\ w = "nginx" /\ SendsOf(fs, w) # {} => fs[Format(w)] # None

Valid(w) == Accepts(w, files)

-----------------------------------------------------------------------------
Init ==
    /\ panel = [s \in Sites |-> None] /\ files = [f \in File |-> None]
    /\ loaded = [w \in Server |-> {}]
    /\ pc = "idle" /\ enable = FALSE /\ known = panel /\ todo = {} /\ at = None
    /\ buffer = None /\ saved = << >> /\ changed = {} /\ outcome = "none"
    /\ before = files /\ touched = {} /\ reloaded = {} /\ installed = "no"
    /\ ids = 0 /\ changes = 0 /\ faults = 0

(* The panel and the administrator.                                        *)
Others(w) ==
    /\ changes < MaxChanges /\ changes' = changes + 1
    /\ reloaded' = reloaded \cup {w}
    /\ UNCHANGED <<run, before, installed, faults>>

Write(f, content) ==
    /\ Others(ServerOf(f))
    /\ files' = [files EXCEPT ![f] = content]
    /\ touched' = touched \cup {f}
    /\ UNCHANGED loaded

AddSite(s, include) ==
    /\ panel[s] = None /\ ids < MaxIds
    /\ ids' = ids + 1
    /\ panel' = [panel EXCEPT ![s] = ids + 1]
    /\ Write(Vhost(s), [shape |-> "ok", include |-> include])

RemoveSite(s) ==
    /\ panel[s] # None
    /\ panel' = [panel EXCEPT ![s] = None]
    /\ Write(Vhost(s), None)
    /\ UNCHANGED ids

(* An edit keeps the include line that is there.                           *)
EditVhost(s, shape) ==
    /\ files[Vhost(s)] # None
    /\ Write(Vhost(s), [files[Vhost(s)] EXCEPT !.shape = shape])
    /\ UNCHANGED <<panel, ids>>

PanelReload(w) ==
    /\ Others(w)
    /\ Valid(w)
    /\ loaded' = [loaded EXCEPT ![w] = Sends(w)]
    /\ UNCHANGED <<panel, files, touched, ids>>

-----------------------------------------------------------------------------
(* configure_all().                                                        *)

SitesOf(ss) == {s \in Sites : ss[s] # None}

(* _strip_blocks(), _ensure_include().                                     *)
StripBlocks(v) == IF v.include = "block" THEN [v EXCEPT !.include = "none"] ELSE v
EnsureInclude(v) == IF v.include = "none" THEN [v EXCEPT !.include = "block"] ELSE v

Insertable(v) == v.include = "none" => v.shape # "bare"

(* configure.lock admits one run: of the service at any time it is there,  *)
(* of the API's repair, of install.sh.  The lock is free again between the *)
(* run that disables and the end of the service.  discover_sites() returns *)
(* an empty list when the panel cannot be asked.                           *)
Begin(e, sites) ==
    /\ pc = "idle" /\ IF e THEN installed # "no" ELSE installed = "yes"
    /\ pc' = "format" /\ enable' = e
    /\ \/ sites = panel /\ faults' = faults
       \/ sites = [s \in Sites |-> None] /\ faults < MaxFaults /\ faults' = faults + 1
    /\ known' = sites
    /\ todo' = IF e THEN {Kind(s) : s \in SitesOf(sites)} ELSE {}
    /\ at' = None /\ buffer' = None /\ saved' = << >> /\ changed' = {}
    /\ outcome' = "running" /\ before' = files /\ touched' = {} /\ reloaded' = {}
    /\ installed' = IF e THEN installed ELSE "disabling"
    /\ UNCHANGED <<panel, files, loaded, ids, changes>>

(* Slip: files that did not exist are not among the originals.             *)
Put_NoBackupOfMissing(f, content) ==
    IF files[f] = content
    THEN UNCHANGED <<files, saved, changed>>
    ELSE /\ files' = [files EXCEPT ![f] = content]
         /\ saved' = IF files[f] = None THEN saved ELSE Append(saved, <<f, files[f]>>)
         /\ changed' = changed \cup {ServerOf(f)}

(* Slip: a server is changed only if a virtual host is.                    *)
Put_ChangedByVhost(f, content) ==
    IF files[f] = content
    THEN UNCHANGED <<files, saved, changed>>
    ELSE /\ files' = [files EXCEPT ![f] = content]
         /\ saved' = IF \E i \in DOMAIN saved : saved[i][1] = f
                     THEN saved ELSE Append(saved, <<f, files[f]>>)
         /\ changed' = IF f[1] = "vhost" THEN changed \cup {ServerOf(f)} ELSE changed

(* _write_if_changed(), and _remove_if_exists() with content None.         *)
Put(f, content) ==
    IF files[f] = content
    THEN UNCHANGED <<files, saved, changed>>
    ELSE /\ files' = [files EXCEPT ![f] = content]
         /\ saved' = IF \E i \in DOMAIN saved : saved[i][1] = f
                     THEN saved ELSE Append(saved, <<f, files[f]>>)
         /\ changed' = changed \cup {ServerOf(f)}

WriteFormat(w) ==
    /\ pc = "format" /\ w \in todo /\ ("nginx" \in todo => w = "nginx")
    /\ Put(Format(w), "ours")
    /\ todo' = todo \ {w}
    /\ UNCHANGED <<panel, loaded, pc, enable, known, at, buffer, outcome, ghosts, installed, bounds>>

FormatsWritten ==
    /\ pc = "format" /\ todo = {}
    /\ pc' = "sites" /\ todo' = SitesOf(known)
    /\ UNCHANGED <<panel, files, loaded, enable, known, at, buffer, saved,
                   changed, outcome, ghosts, installed, bounds>>

ReadVhost(s) ==
    /\ pc = "sites" /\ s \in todo
    /\ todo' = todo \ {s}
    /\ LET v == files[Vhost(s)]
       IN  IF v = None
           THEN UNCHANGED <<pc, at, buffer>>
           ELSE IF enable /\ ~Insertable(v)
           THEN pc' = "restore" /\ UNCHANGED <<at, buffer>>
           ELSE pc' = "vhost" /\ at' = s /\ buffer' = v
    /\ UNCHANGED <<panel, files, loaded, enable, known, saved, changed, outcome,
                   ghosts, installed, bounds>>

Configured == IF enable THEN EnsureInclude(buffer) ELSE StripBlocks(buffer)

WriteVhost ==
    /\ pc = "vhost"
    /\ Put(Vhost(at), Configured)
    /\ pc' = "extension" /\ buffer' = None
    /\ UNCHANGED <<panel, loaded, enable, known, todo, at, outcome, ghosts, installed, bounds>>

WriteExtension ==
    /\ pc = "extension"
    /\ Put(Extension(at), IF enable THEN known[at] ELSE None)
    /\ pc' = "sites" /\ at' = None
    /\ UNCHANGED <<panel, loaded, enable, known, todo, buffer, outcome, ghosts, installed, bounds>>

SitesWritten ==
    /\ pc = "sites" /\ todo = {}
    /\ pc' = "clean"
    /\ UNCHANGED <<panel, files, loaded, enable, known, todo, at, buffer, saved,
                   changed, outcome, ghosts, installed, bounds>>

(* What the second pass makes of a file; it visits nginx first, and of     *)
(* each server the virtual hosts, the extensions, then the format.         *)
Cleaned(f) ==
    CASE f[1] = "vhost" /\ files[f] # None /\ ~(enable /\ known[f[2]] # None)
                                                        -> StripBlocks(files[f])
      [] f[1] = "extension" /\ ~(enable /\ known[f[2]] # None) -> None
      [] f[1] = "format" /\ ~enable                     -> None
      [] OTHER                                          -> files[f]

(* Slip: the extensions of sites that are gone stay.                       *)
Stale_VhostsOnly == {f \in File : files[f] # Cleaned(f) /\ f[1] # "extension"}

Stale == {f \in File : files[f] # Cleaned(f)}

Rank(f) == <<IF ServerOf(f) = "nginx" THEN 0 ELSE 3,
             CASE f[1] = "vhost" -> 0 [] f[1] = "extension" -> 1 [] f[1] = "format" -> 2>>
(* Slip: the format goes before the extensions that use it.                *)
Precedes_FormatFirst(f, g) == Rank(f)[1] - Rank(f)[2] < Rank(g)[1] - Rank(g)[2]

Precedes(f, g) == Rank(f)[1] + Rank(f)[2] < Rank(g)[1] + Rank(g)[2]

NextToClean(f) == f \in Stale /\ ~\E g \in Stale : Precedes(g, f)

CleanFile(f) ==
    /\ pc = "clean" /\ NextToClean(f)
    /\ Put(f, Cleaned(f))
    /\ UNCHANGED <<panel, loaded, pc, enable, known, todo, at, buffer, outcome,
                   ghosts, installed, bounds>>

(* write_text() truncates the file first: the write fails halfway (and the *)
(* run with it), or the process is killed.                                 *)
TornVhost(s) ==
    /\ \/ pc = "vhost" /\ s = at /\ files[Vhost(s)] # Configured
       \/ pc = "clean" /\ NextToClean(Vhost(s))
    /\ faults < MaxFaults /\ faults' = faults + 1
    /\ \E shape \in {"bare", "broken"} : Put(Vhost(s), [shape |-> shape, include |-> "none"])
    /\ \/ pc' = "restore" /\ UNCHANGED <<outcome, installed>>
       \/ pc' = "idle" /\ outcome' = "killed"
          /\ installed' = IF enable THEN installed ELSE "yes"
    /\ buffer' = None
    /\ UNCHANGED <<panel, loaded, enable, known, todo, at, ghosts, ids, changes>>

(* Slip: the servers to reload are collected as sites.                     *)
CleanDone_Sites ==
    /\ pc = "clean" /\ Stale = {}
    /\ pc' = "reload" /\ todo' = {saved[i][1][2] : i \in DOMAIN saved}
    /\ UNCHANGED <<panel, files, loaded, enable, known, at, buffer, saved,
                   changed, outcome, ghosts, installed, bounds>>

CleanDone ==
    /\ pc = "clean" /\ Stale = {}
    /\ pc' = "reload" /\ todo' = changed
    /\ UNCHANGED <<panel, files, loaded, enable, known, at, buffer, saved,
                   changed, outcome, ghosts, installed, bounds>>

(* _test_and_reload(), the servers in the order of their names.            *)
TestAndReload(w) ==
    /\ pc = "reload" /\ w \in todo /\ ("apache" \in todo => w = "apache")
    /\ IF Valid(w)
       THEN loaded' = [loaded EXCEPT ![w] = Sends(w)] /\ pc' = pc /\ todo' = todo \ {w}
       ELSE pc' = "restore" /\ UNCHANGED <<loaded, todo>>
    /\ UNCHANGED <<panel, files, enable, known, at, buffer, saved, changed,
                   outcome, ghosts, installed, bounds>>

Succeed ==
    /\ pc = "reload" /\ todo = {}
    /\ pc' = "idle" /\ outcome' = "success"
    /\ installed' = IF enable THEN installed ELSE "disabled"
    /\ UNCHANGED <<panel, files, loaded, enable, known, todo, at, buffer, saved,
                   changed, ghosts, bounds>>

(* Any call of a step raises; a file half written by it is in TornVhost.   *)
Raises ==
    /\ pc \notin {"idle", "restore"} /\ faults < MaxFaults
    /\ pc' = "restore" /\ faults' = faults + 1
    /\ UNCHANGED <<panel, files, loaded, enable, known, todo, at, buffer, saved,
                   changed, outcome, ghosts, installed, ids, changes>>

(* _restore(), in the order the files were saved.                          *)
RestoreFile ==
    /\ pc = "restore" /\ saved # << >>
    /\ files' = [files EXCEPT ![Head(saved)[1]] = Head(saved)[2]]
    /\ saved' = Tail(saved)
    /\ UNCHANGED <<panel, loaded, pc, enable, known, todo, at, buffer, changed,
                   outcome, ghosts, installed, bounds>>

Restored ==
    /\ pc = "restore" /\ saved = << >>
    /\ pc' = "idle" /\ outcome' = "failed"
    /\ installed' = IF enable THEN installed ELSE "yes"
    /\ UNCHANGED <<panel, files, loaded, enable, known, todo, at, buffer, saved,
                   changed, ghosts, bounds>>

(* The process dies, or _restore() itself raises.                          *)
Kill ==
    /\ pc # "idle" /\ faults < MaxFaults
    /\ pc' = "idle" /\ outcome' = "killed" /\ faults' = faults + 1
    /\ installed' = IF enable THEN installed ELSE "yes"
    /\ UNCHANGED <<panel, files, loaded, enable, known, todo, at, buffer, saved,
                   changed, ghosts, ids, changes>>

(* install.sh: what follows the run that disables, systemctl disable --now *)
(* (the service ends its run first), and a new installation.               *)
Uninstall ==
    /\ installed = "disabled" /\ pc = "idle"
    /\ installed' = "no"
    /\ UNCHANGED <<panel, files, loaded, run, ghosts, bounds>>

Install ==
    /\ installed = "no"
    /\ installed' = "yes"
    /\ UNCHANGED <<panel, files, loaded, run, ghosts, bounds>>

-----------------------------------------------------------------------------
Environment ==
    \/ \E s \in Sites : \/ \E include \in {"none", "native"} : AddSite(s, include)
                        \/ RemoveSite(s)
                        \/ \E shape \in {"ok", "bare", "broken"} : EditVhost(s, shape)
    \/ \E w \in Server : PanelReload(w)

ConfigureAll ==
    \/ \E e \in BOOLEAN, sites \in {panel, [s \in Sites |-> None]} : Begin(e, sites)
    \/ \E w \in Server : WriteFormat(w) \/ TestAndReload(w)
    \/ FormatsWritten
    \/ \E s \in Sites : ReadVhost(s) \/ TornVhost(s)
    \/ WriteVhost \/ WriteExtension \/ SitesWritten
    \/ \E f \in File : CleanFile(f)
    \/ CleanDone \/ Succeed
    \/ Raises \/ RestoreFile \/ Restored \/ Kill
    \/ Uninstall \/ Install

Next == Environment \/ ConfigureAll

Spec == Init /\ [][Next]_vars

-----------------------------------------------------------------------------
Touched(s) == {Vhost(s), Extension(s)} \cap touched # {}

(* "配置检查失败时自动回滚" (README): a run that failed left every file as *)
(* it found it, but for those that others wrote meanwhile.                 *)
RollbackRestores ==
    outcome = "failed" => \A f \in File \ touched : files[f] = before[f]

(* A run that succeeded left every site it knows with an include line, an  *)
(* extension with its present id and a format to use, and no trace of any  *)
(* other site; disabling leaves no trace at all.  Only files that others   *)
(* wrote meanwhile may differ.                                             *)
SuccessMeansConfigured ==
    outcome = "success" =>
        /\ \A s \in Sites : ~Touched(s) =>
              IF enable /\ known[s] # None
              THEN files[Vhost(s)] # None =>
                      /\ files[Vhost(s)].include # "none"
                      /\ files[Extension(s)] = known[s]
                      /\ files[Format(Kind(s))] = "ours"
              ELSE /\ files[Extension(s)] = None
                   /\ files[Vhost(s)] # None => files[Vhost(s)].include # "block"
        /\ ~enable => \A w \in Server : files[Format(w)] = None

(* A run that succeeded has loaded what it wrote on every server whose     *)
(* files are not what they were.                                           *)
SuccessReloads ==
    outcome = "success" =>
        \A f \in File : files[f] # before[f] /\ ServerOf(f) \notin reloaded
                           => loaded[ServerOf(f)] = Sends(ServerOf(f))

(* The format of nginx is among the files that the rollback has not put    *)
(* back yet.                                                               *)
FormatPending == \E i \in DOMAIN saved : saved[i][1] = Format("nginx")

(* A file that a run writes or puts back never turns a configuration that  *)
(* the server accepts into one it rejects, in whatever order its sites     *)
(* come: the panel, which reloads at any moment, is not refused because of *)
(* a run half done.  The rollback is held to it for the servers whose      *)
(* files were accepted when the run began.  Two exceptions: a write that   *)
(* fails halfway, and the rollback of the nginx format.  The rollback goes *)
(* in the order of the writes, so that it removes a new format while       *)
(* virtual hosts still use it, and brings a removed one back after them.   *)
StepsKeepValid ==
    [][pc # "idle" /\ faults' = faults =>
           \A w \in Server \ reloaded' :
               /\ Valid(w)
               /\ pc = "restore" => Accepts(w, before) /\ (w = "nginx" => ~FormatPending)
               => Valid(w)']_vars

(* Without the second exception: TLC refutes it.                           *)
RollbackKeepsValid ==
    [][pc = "restore" /\ faults' = faults =>
           \A w \in Server \ reloaded' :
               Valid(w) /\ Accepts(w, before) => Valid(w)']_vars

(* docs/宝塔Linux插件开发规划.md: the forwarding is removed before the      *)
(* service, so that no web server goes on sending to a dead path.  Once    *)
(* uninstalled, nothing the plugin wrote is left.                          *)
NothingLeftWhenUninstalled ==
    installed = "no" /\ outcome # "none" =>
        \A s \in Sites : ~Touched(s) =>
            /\ files[Extension(s)] = None
            /\ files[Vhost(s)] # None => files[Vhost(s)].include # "block"
=============================================================================
