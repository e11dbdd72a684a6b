------------------------- MODULE ConfigSync_proofs -------------------------
(***************************************************************************)
(* Proofs about ConfigSync, for every set of sites, every assignment of    *)
(* sites to servers and every bound.                                       *)
(***************************************************************************)
EXTENDS ConfigSync, TLAPS

-----------------------------------------------------------------------------
(* The names of the files: all that the proofs use of them.                *)

LEMMA FileNames ==
    /\ \A w \in Server : Format(w) \in File
    /\ \A s \in Sites : Vhost(s) \in File /\ Extension(s) \in File
    /\ \A f \in File : \/ \E w \in Server : f = Format(w)
                       \/ \E s \in Sites : f = Vhost(s) \/ f = Extension(s)
  BY DEF File, Format, Vhost, Extension, Server

LEMMA Apart ==
    /\ \A w, s : Format(w) # Vhost(s) /\ Format(w) # Extension(s)
    /\ \A r, s : Vhost(r) # Extension(s)
    /\ \A r, s : Vhost(r) = Vhost(s) => r = s
    /\ \A r, s : Extension(r) = Extension(s) => r = s
    /\ \A v, w : Format(v) = Format(w) => v = w
  BY DEF Format, Vhost, Extension

LEMMA Servers ==
    /\ \A s \in Sites : Kind(s) \in Server
    /\ \A w : ServerOf(Format(w)) = w
    /\ \A s : ServerOf(Vhost(s)) = Kind(s) /\ ServerOf(Extension(s)) = Kind(s)
    /\ \A f \in File : ServerOf(f) \in Server
<1>1. \A s \in Sites : Kind(s) \in Server
  BY ConfigAssumption
<1>2. /\ \A w : ServerOf(Format(w)) = w
      /\ \A s : ServerOf(Vhost(s)) = Kind(s) /\ ServerOf(Extension(s)) = Kind(s)
  BY DEF ServerOf, Format, Vhost, Extension
<1> QED BY <1>1, <1>2, FileNames

LEMMA Contents ==
    /\ \A w : Content(Format(w)) = {"ours"}
    /\ \A s : Content(Vhost(s)) = VhostText /\ Content(Extension(s)) = Ids
  BY DEF Content, Format, Vhost, Extension

LEMMA CleanedNames ==
    /\ \A w : Cleaned(Format(w)) = IF enable THEN files[Format(w)] ELSE None
    /\ \A s : Cleaned(Extension(s)) =
                IF enable /\ known[s] # None THEN files[Extension(s)] ELSE None
    /\ \A s : Cleaned(Vhost(s)) =
                IF files[Vhost(s)] # None /\ ~(enable /\ known[s] # None)
                THEN StripBlocks(files[Vhost(s)]) ELSE files[Vhost(s)]
  BY DEF Cleaned, Format, Vhost, Extension

LEMMA ExtensionFirst ==
    \A s : Kind(s) \in Server => Precedes(Extension(s), Format(Kind(s)))
  BY Servers DEF Precedes, Rank, Extension, Format

LEMMA VhostBefore ==
    \A s : Kind(s) \in Server => Precedes(Vhost(s), Extension(s))
  BY Servers DEF Precedes, Rank, Extension, Vhost

-----------------------------------------------------------------------------
(* The inductive invariant, part by part.                                  *)

AnyContent == {"ours", None} \cup VhostText \cup Ids

FileTypes ==
    DOMAIN files = File /\ \A f \in File : files[f] \in Content(f) \cup {None}

SavedTypes ==
    /\ saved \in Seq(File \X AnyContent)
    /\ \A i \in DOMAIN saved : saved[i][2] \in Content(saved[i][1]) \cup {None}

WorldTypes ==
    /\ panel \in [Sites -> Ids \cup {None}]
    /\ loaded \in [Server -> SUBSET (Sites \X Ids)]
    /\ touched \subseteq File /\ reloaded \subseteq Server
    /\ installed \in {"no", "yes", "disabling", "disabled"}
    /\ ids \in 0 .. MaxIds /\ changes \in 0 .. MaxChanges /\ faults \in 0 .. MaxFaults

RunTypes ==
    /\ pc \in Phases /\ enable \in BOOLEAN
    /\ known \in [Sites -> Ids \cup {None}]
    /\ at \in Sites \cup {None}
    /\ buffer \in VhostText \cup {None}
    /\ changed \subseteq Server
    /\ outcome \in {"none", "running", "success", "failed", "killed"}

(* What remains to do, and the site at hand, in each phase.                *)
RunShape ==
    /\ outcome = "running" <=> pc # "idle"
    /\ todo \subseteq Sites \cup Server
    /\ pc \in {"format", "reload"} => todo \subseteq Server
    /\ pc = "format" /\ ~enable => todo = {}
    /\ pc \in {"sites", "vhost", "extension"} => todo \subseteq SitesOf(known)
    /\ pc \in {"vhost", "extension"} => at \in SitesOf(known)
    /\ pc = "vhost" => buffer \in VhostText \ {None}

TypeInv == FileTypes /\ SavedTypes /\ WorldTypes /\ RunTypes /\ RunShape

-----------------------------------------------------------------------------
(* What a write changes.                                                   *)

LEMMA PutEffect ==
    ASSUME FileTypes, NEW f \in File, NEW content, Put(f, content)
    PROVE  /\ DOMAIN files' = File
           /\ \A g \in File : files'[g] = IF g = f THEN content ELSE files[g]
           /\ changed \subseteq changed' /\ changed' \subseteq changed \cup {ServerOf(f)}
           /\ files[f] # content => ServerOf(f) \in changed'
           /\ saved' \in {saved, Append(saved, <<f, files[f]>>)}
  BY DEF FileTypes, Put

LEMMA AnyFile == FileTypes => \A f \in File : files[f] \in AnyContent
<1> SUFFICES ASSUME FileTypes, NEW f \in File PROVE files[f] \in AnyContent
  OBVIOUS
<1>1. files[f] \in Content(f) \cup {None}
  BY DEF FileTypes
<1> QED BY <1>1, FileNames, Contents DEF AnyContent

LEMMA PutTypes ==
    ASSUME FileTypes, SavedTypes, changed \subseteq Server,
           NEW f \in File, NEW content \in Content(f) \cup {None}, Put(f, content)
    PROVE  FileTypes' /\ SavedTypes' /\ changed' \subseteq Server
<1>1. FileTypes'
  BY PutEffect DEF FileTypes
<1>2. changed' \subseteq Server
  BY PutEffect, Servers
<1>3. SavedTypes'
  <2>1. CASE saved' = saved
    BY <2>1 DEF SavedTypes
  <2>2. CASE saved' = Append(saved, <<f, files[f]>>)
    <3>1. files[f] \in AnyContent /\ files[f] \in Content(f) \cup {None}
      BY AnyFile DEF FileTypes
    <3>2. <<f, files[f]>> \in File \X AnyContent
      BY <3>1
    <3>3. saved' \in Seq(File \X AnyContent)
      BY <2>2, <3>2 DEF SavedTypes
    <3>4. /\ DOMAIN saved' = 1 .. Len(saved) + 1 /\ DOMAIN saved = 1 .. Len(saved)
          /\ \A i \in 1 .. Len(saved) : saved'[i] = saved[i]
          /\ saved'[Len(saved) + 1] = <<f, files[f]>> /\ Len(saved) \in Nat
      BY <2>2, <3>2 DEF SavedTypes
    <3>5. ASSUME NEW i \in DOMAIN saved'
          PROVE  saved'[i][2] \in Content(saved'[i][1]) \cup {None}
      <4>1. CASE i \in 1 .. Len(saved)
        BY <3>4, <4>1 DEF SavedTypes
      <4>2. CASE i = Len(saved) + 1
        BY <3>1, <3>4, <4>2
      <4> QED BY <3>4, <4>1, <4>2
    <3> QED BY <3>3, <3>5 DEF SavedTypes
  <2> QED BY <2>1, <2>2, PutEffect
<1> QED BY <1>1, <1>2, <1>3

-----------------------------------------------------------------------------
(* The steps of the others that write, and what they write.                *)
OthersWrite ==
    \E s \in Sites, content \in VhostText \cup {None} : Write(Vhost(s), content)

LEMMA Steps ==
    ASSUME FileTypes, [Next]_vars
    PROVE  \/ UNCHANGED vars
           \/ OthersWrite
           \/ \E w \in Server : PanelReload(w)
           \/ ConfigureAll
<1>1. ASSUME NEW s \in Sites, NEW include \in {"none", "native"}, AddSite(s, include)
      PROVE  OthersWrite
  BY <1>1 DEF AddSite, OthersWrite, VhostText
<1>2. ASSUME NEW s \in Sites, RemoveSite(s) PROVE OthersWrite
  BY <1>2 DEF RemoveSite, OthersWrite
<1>3. ASSUME NEW s \in Sites, NEW shape \in {"ok", "bare", "broken"}, EditVhost(s, shape)
      PROVE  OthersWrite
  <2>1. files[Vhost(s)] \in VhostText
    BY <1>3, FileNames, Contents DEF FileTypes, EditVhost
  <2>2. [files[Vhost(s)] EXCEPT !.shape = shape] \in VhostText
    BY <2>1 DEF VhostText
  <2> QED BY <1>3, <2>2 DEF EditVhost, OthersWrite
<1> QED BY <1>1, <1>2, <1>3 DEF Next, Environment

LEMMA WorldStep ==
    ASSUME FileTypes, WorldTypes, [Next]_vars PROVE WorldTypes'
<1> USE ConfigAssumption
<1>1. \A w \in Server : Sends(w) \subseteq Sites \X Ids
  BY DEF Sends, SendsOf
<1>2. ASSUME NEW f \in File, NEW content, Write(f, content)
      PROVE  /\ loaded' = loaded /\ installed' = installed /\ faults' = faults
             /\ touched' \subseteq File /\ reloaded' \subseteq Server
             /\ changes' \in 0 .. MaxChanges
  BY <1>2, Servers DEF WorldTypes, Write, Others
<1>3. ASSUME NEW s \in Sites, NEW include \in {"none", "native"}, AddSite(s, include)
      PROVE  WorldTypes'
  <2>1. panel' \in [Sites -> Ids \cup {None}] /\ ids' \in 0 .. MaxIds
    BY <1>3 DEF AddSite, WorldTypes, Ids
  <2> QED BY <1>2, <1>3, <2>1, FileNames DEF AddSite, WorldTypes
<1>4. ASSUME NEW s \in Sites, RemoveSite(s) PROVE WorldTypes'
  BY <1>2, <1>4, FileNames DEF RemoveSite, WorldTypes
<1>5. ASSUME NEW s \in Sites, NEW shape \in {"ok", "bare", "broken"}, EditVhost(s, shape)
      PROVE  WorldTypes'
  BY <1>2, <1>5, FileNames DEF EditVhost, WorldTypes
<1>6. ASSUME NEW w \in Server, PanelReload(w) PROVE WorldTypes'
  <2>1. changes' \in 0 .. MaxChanges /\ reloaded' \subseteq Server
        /\ loaded' \in [Server -> SUBSET (Sites \X Ids)]
    BY <1>1, <1>6 DEF PanelReload, Others, WorldTypes
  <2> QED BY <1>6, <2>1 DEF PanelReload, Others, WorldTypes
<1>7. ASSUME NEW w \in Server, TestAndReload(w) PROVE WorldTypes'
  <2>1. loaded' \in [Server -> SUBSET (Sites \X Ids)]
    BY <1>1, <1>7 DEF TestAndReload, WorldTypes
  <2> QED BY <1>7, <2>1 DEF TestAndReload, WorldTypes, ghosts, bounds
<1>8. ASSUME ConfigureAll, ~ \E w \in Server : TestAndReload(w) PROVE WorldTypes'
  <2>1. /\ panel' = panel /\ loaded' = loaded /\ ids' = ids /\ changes' = changes
        /\ faults' \in {faults} \cup {faults + 1} /\ (faults' = faults \/ faults < MaxFaults)
        /\ touched' \in {touched, {}} /\ reloaded' \in {reloaded, {}}
        /\ installed' \in {installed, "no", "yes", "disabling", "disabled"}
    BY <1>8 DEF ConfigureAll, Begin, WriteFormat, FormatsWritten, ReadVhost, WriteVhost, TornVhost,
       WriteExtension, SitesWritten, CleanFile, CleanDone, Succeed, Raises, RestoreFile, Restored,
       Kill, Uninstall, Install, ghosts, bounds
  <2> QED BY <2>1 DEF WorldTypes
<1>9. CASE UNCHANGED vars
  BY <1>9 DEF vars, ghosts, bounds, WorldTypes
<1> QED BY <1>3, <1>4, <1>5, <1>6, <1>7, <1>8, <1>9 DEF Next, Environment

LEMMA RunStep ==
    ASSUME FileTypes, WorldTypes, RunTypes, RunShape, [Next]_vars
    PROVE  RunTypes' /\ RunShape'
<1> USE ConfigAssumption
<1>1. CASE UNCHANGED run
  BY <1>1 DEF run, RunTypes, RunShape, SitesOf
<1>2. ASSUME NEW e \in BOOLEAN, NEW sites \in {panel, [s \in Sites |-> None]}, Begin(e, sites)
      PROVE  RunTypes' /\ RunShape'
  <2>1. known' = sites /\ sites \in [Sites -> Ids \cup {None}]
    BY <1>2 DEF Begin, WorldTypes
  <2>2. todo' \subseteq Server /\ (~enable' => todo' = {})
    BY <1>2 DEF Begin, SitesOf
  <2> QED BY <1>2, <2>1, <2>2 DEF Begin, RunTypes, RunShape, Phases
<1>3. ASSUME NEW f \in File, NEW content, Put(f, content)
      PROVE  changed \subseteq Server => changed' \subseteq Server
  BY <1>3, PutEffect, Servers
<1>4. ASSUME NEW w \in Server, WriteFormat(w) PROVE RunTypes' /\ RunShape'
  BY <1>3, <1>4, FileNames DEF WriteFormat, RunTypes, RunShape
<1>5. CASE FormatsWritten
  BY <1>5 DEF FormatsWritten, RunTypes, RunShape, SitesOf, Phases
<1>6. ASSUME NEW s \in Sites, ReadVhost(s) PROVE RunTypes' /\ RunShape'
  <2>1. files[Vhost(s)] \in VhostText \cup {None}
    BY FileNames, Contents DEF FileTypes
  <2>2. s \in SitesOf(known) /\ todo' \subseteq SitesOf(known) /\ SitesOf(known) \subseteq Sites
        /\ SitesOf(known)' = SitesOf(known) /\ pc = "sites"
    BY <1>6 DEF ReadVhost, RunShape, SitesOf
  <2>3. \/ pc' \in {"sites", "restore"} /\ at' = at /\ buffer' = buffer
        \/ pc' = "vhost" /\ at' = s /\ buffer' = files[Vhost(s)] /\ files[Vhost(s)] # None
    BY <1>6 DEF ReadVhost
  <2>4. UNCHANGED <<enable, known, changed, outcome>>
    BY <1>6 DEF ReadVhost
  <2> QED BY <2>1, <2>2, <2>3, <2>4 DEF RunTypes, RunShape, Phases
<1>7. ASSUME pc = "vhost" PROVE at \in Sites /\ Vhost(at) \in File /\ Extension(at) \in File
  BY <1>7, FileNames DEF RunShape, SitesOf
<1>8. CASE WriteVhost
  BY <1>3, <1>7, <1>8 DEF WriteVhost, RunTypes, RunShape, SitesOf, Phases
<1>9. ASSUME NEW s \in Sites, TornVhost(s) PROVE RunTypes' /\ RunShape'
  BY <1>3, <1>9, FileNames DEF TornVhost, RunTypes, RunShape, SitesOf, Phases
<1>10. CASE WriteExtension
  <2>1. at \in Sites /\ Extension(at) \in File
    BY <1>10, FileNames DEF WriteExtension, RunShape, SitesOf
  <2> QED BY <1>3, <1>10, <2>1 DEF WriteExtension, RunTypes, RunShape, SitesOf, Phases
<1>11. CASE SitesWritten
  BY <1>11 DEF SitesWritten, RunTypes, RunShape, Phases
<1>12. ASSUME NEW f \in File, CleanFile(f) PROVE RunTypes' /\ RunShape'
  BY <1>3, <1>12 DEF CleanFile, RunTypes, RunShape
<1>13. CASE CleanDone
  BY <1>13 DEF CleanDone, RunTypes, RunShape, Phases
<1>14. ASSUME NEW w \in Server, TestAndReload(w) PROVE RunTypes' /\ RunShape'
  BY <1>14 DEF TestAndReload, RunTypes, RunShape, Phases
<1>15. CASE Succeed \/ Raises \/ Restored \/ Kill
  BY <1>15 DEF Succeed, Raises, Restored, Kill, RunTypes, RunShape, SitesOf, Phases
<1>16. CASE RestoreFile
  BY <1>16 DEF RestoreFile, RunTypes, RunShape, SitesOf, Phases
<1>17. CASE OthersWrite \/ \E w \in Server : PanelReload(w)
  BY <1>1, <1>17 DEF OthersWrite, Write, PanelReload, Others
<1>18. CASE UNCHANGED vars \/ Uninstall \/ Install
  BY <1>1, <1>18 DEF vars, Uninstall, Install
<1> QED
  BY <1>2, <1>4, <1>5, <1>6, <1>8, <1>9, <1>10, <1>11, <1>12, <1>13, <1>14, <1>15, <1>16, <1>17,
     <1>18, Steps DEF ConfigureAll

LEMMA ConfiguredIsText == pc = "vhost" /\ RunShape => Configured \in VhostText
  BY DEF RunShape, Configured, EnsureInclude, StripBlocks, VhostText

LEMMA CleanedIsContent ==
    ASSUME FileTypes, NEW f \in File PROVE Cleaned(f) \in Content(f) \cup {None}
<1>1. files[f] \in Content(f) \cup {None}
  BY DEF FileTypes
<1>2. ASSUME NEW v \in VhostText PROVE StripBlocks(v) \in VhostText
  BY DEF StripBlocks, VhostText
<1> QED BY <1>1, <1>2, FileNames, Contents, CleanedNames

LEMMA FileStep ==
    ASSUME TypeInv, [Next]_vars PROVE FileTypes' /\ SavedTypes'
<1> USE ConfigAssumption
<1>1. FileTypes /\ SavedTypes /\ WorldTypes /\ RunTypes /\ RunShape /\ changed \subseteq Server
  BY DEF TypeInv, RunTypes
<1>2. ASSUME NEW f \in File, NEW content \in Content(f) \cup {None}, Put(f, content)
      PROVE  FileTypes' /\ SavedTypes'
  BY <1>1, <1>2, PutTypes
<1>3. CASE UNCHANGED <<files, saved>>
  BY <1>1, <1>3 DEF FileTypes, SavedTypes
<1>4. CASE OthersWrite
  <2>1. PICK s \in Sites, content \in VhostText \cup {None} : Write(Vhost(s), content)
    BY <1>4 DEF OthersWrite
  <2>2. FileTypes'
    BY <1>1, <2>1, FileNames, Contents DEF Write, FileTypes
  <2> QED BY <1>1, <2>1, <2>2 DEF Write, Others, run, SavedTypes
<1>5. ASSUME NEW e, NEW sites, Begin(e, sites) PROVE FileTypes' /\ SavedTypes'
  BY <1>1, <1>5 DEF Begin, FileTypes, SavedTypes
<1>6. ASSUME NEW w \in Server, WriteFormat(w) PROVE FileTypes' /\ SavedTypes'
  BY <1>2, <1>6, FileNames, Contents DEF WriteFormat
<1>7. ASSUME pc \in {"vhost", "extension"}
      PROVE at \in SitesOf(known) /\ at \in Sites /\ known[at] \in Ids
            /\ Vhost(at) \in File /\ Extension(at) \in File
  BY <1>1, <1>7, FileNames DEF RunTypes, RunShape, SitesOf
<1>8. CASE WriteVhost
  BY <1>1, <1>2, <1>7, <1>8, ConfiguredIsText, Contents DEF WriteVhost
<1>9. ASSUME NEW s \in Sites, TornVhost(s) PROVE FileTypes' /\ SavedTypes'
  <2>1. PICK shape \in {"bare", "broken"} : Put(Vhost(s), [shape |-> shape, include |-> "none"])
    BY <1>9 DEF TornVhost
  <2>2. [shape |-> shape, include |-> "none"] \in VhostText
    BY DEF VhostText
  <2> QED BY <1>2, <2>1, <2>2, FileNames, Contents
<1>10. CASE WriteExtension
  BY <1>2, <1>7, <1>10, Contents DEF WriteExtension
<1>11. ASSUME NEW f \in File, CleanFile(f) PROVE FileTypes' /\ SavedTypes'
  BY <1>1, <1>2, <1>11, CleanedIsContent DEF CleanFile
<1>12. CASE RestoreFile
  <2>1. /\ saved \in Seq(File \X AnyContent) /\ saved # << >> /\ saved' = Tail(saved)
        /\ files' = [files EXCEPT ![Head(saved)[1]] = Head(saved)[2]]
    BY <1>1, <1>12 DEF RestoreFile, SavedTypes
  <2>2. /\ Head(saved) = saved[1] /\ 1 \in DOMAIN saved /\ saved[1] \in File \X AnyContent
        /\ Tail(saved) \in Seq(File \X AnyContent)
        /\ \A i \in DOMAIN Tail(saved) : i + 1 \in DOMAIN saved /\ Tail(saved)[i] = saved[i + 1]
    BY <2>1
  <2>3. saved[1][2] \in Content(saved[1][1]) \cup {None} /\ saved[1][1] \in File
    BY <1>1, <2>2 DEF SavedTypes
  <2>4. FileTypes'
    BY <1>1, <2>1, <2>2, <2>3 DEF FileTypes
  <2>5. SavedTypes'
    BY <1>1, <2>1, <2>2 DEF SavedTypes
  <2> QED BY <2>4, <2>5
<1>13. CASE \/ FormatsWritten \/ SitesWritten \/ CleanDone \/ Succeed \/ Raises \/ Restored
            \/ Kill \/ Uninstall \/ Install \/ UNCHANGED vars
            \/ \E s \in Sites : ReadVhost(s)
            \/ \E w \in Server : TestAndReload(w) \/ PanelReload(w)
  BY <1>3, <1>13 DEF FormatsWritten, SitesWritten, CleanDone, Succeed, Raises, Restored, Kill,
     Uninstall, Install, ReadVhost, TestAndReload, PanelReload, Others, run, vars
<1> QED
  BY <1>1, <1>4, <1>5, <1>6, <1>8, <1>9, <1>10, <1>11, <1>12, <1>13, Steps DEF ConfigureAll

LEMMA TypeStep == TypeInv /\ [Next]_vars => TypeInv'
  BY WorldStep, RunStep, FileStep DEF TypeInv

LEMMA TypeParts == TypeInv => TypeOK
  BY DEF TypeInv, FileTypes, SavedTypes, WorldTypes, RunTypes, RunShape, TypeOK, Phases

-----------------------------------------------------------------------------
(* Every file that is not as the run found it has its original saved,      *)
(* once.                                                                   *)
SavedOnce == \A i, j \in DOMAIN saved : saved[i][1] = saved[j][1] => i = j

Original(f) ==
    /\ \A i \in DOMAIN saved : saved[i][1] = f => saved[i][2] = before[f]
    /\ (\A i \in DOMAIN saved : saved[i][1] # f) => files[f] = before[f]

BackedUp == pc # "idle" => SavedOnce /\ \A f \in File \ touched : Original(f)

LEMMA PutBackup ==
    ASSUME TypeInv, BackedUp, pc # "idle", NEW f \in File, NEW content, Put(f, content),
           UNCHANGED <<before, touched>>
    PROVE  BackedUp'
<1>1. FileTypes /\ SavedTypes
  BY DEF TypeInv
<1>2. \A g \in File : files'[g] = IF g = f THEN content ELSE files[g]
  BY <1>1, PutEffect
<1>3. CASE UNCHANGED <<files, saved>>
  BY <1>3 DEF BackedUp, SavedOnce, Original
<1>4. CASE saved' = saved /\ \E i \in DOMAIN saved : saved[i][1] = f
  BY <1>2, <1>4 DEF BackedUp, SavedOnce, Original
<1>5. CASE saved' = Append(saved, <<f, files[f]>>) /\ ~ \E i \in DOMAIN saved : saved[i][1] = f
  <2>1. <<f, files[f]>> \in File \X AnyContent
    BY <1>1, AnyFile
  <2>2. /\ DOMAIN saved' = 1 .. Len(saved) + 1 /\ DOMAIN saved = 1 .. Len(saved)
        /\ \A i \in 1 .. Len(saved) : saved'[i] = saved[i]
        /\ saved'[Len(saved) + 1] = <<f, files[f]>> /\ Len(saved) \in Nat
    BY <1>1, <1>5, <2>1 DEF SavedTypes
  <2>3. \A i \in DOMAIN saved' : IF i = Len(saved) + 1 THEN saved'[i] = <<f, files[f]>>
                                 ELSE i \in DOMAIN saved /\ saved'[i] = saved[i]
    BY <2>2
  <2>4. SavedOnce'
    BY <1>5, <2>3 DEF BackedUp, SavedOnce
  <2>5. ASSUME NEW g \in File \ touched' PROVE Original(g)'
    <3>1. Original(g)
      BY <2>5 DEF BackedUp
    <3>2. CASE g = f
      <4>1. files[f] = before[f]
        BY <1>5, <3>1, <3>2 DEF Original
      <4>2. \A i \in DOMAIN saved' : saved'[i][1] = f => saved'[i][2] = before'[f]
        BY <1>5, <2>3, <4>1
      <4>3. Len(saved) + 1 \in DOMAIN saved' /\ saved'[Len(saved) + 1][1] = f
        BY <2>2
      <4> QED BY <3>2, <4>2, <4>3 DEF Original
    <3>3. CASE g # f
      <4>1. \A i \in DOMAIN saved' : saved'[i][1] = g => saved'[i][2] = before'[g]
        BY <2>3, <3>1, <3>3 DEF Original
      <4>2. (\A i \in DOMAIN saved' : saved'[i][1] # g) => \A i \in DOMAIN saved : saved[i][1] # g
        BY <2>2
      <4> QED BY <1>2, <3>1, <3>3, <4>1, <4>2 DEF Original
    <3> QED BY <3>2, <3>3
  <2> QED BY <2>4, <2>5 DEF BackedUp
<1> QED BY <1>3, <1>4, <1>5 DEF Put

LEMMA BackupStep ==
    ASSUME TypeInv, BackedUp, [Next]_vars PROVE BackedUp'
<1> USE ConfigAssumption
<1>1. FileTypes /\ SavedTypes /\ RunTypes /\ RunShape
  BY DEF TypeInv
<1>2. CASE UNCHANGED <<files, saved, before, touched>> /\ (pc' # "idle" => pc # "idle")
  BY <1>2 DEF BackedUp, SavedOnce, Original
<1>3. CASE OthersWrite
  <2>1. PICK s \in Sites : \E content : Write(Vhost(s), content)
    BY <1>3 DEF OthersWrite
  <2>2. /\ UNCHANGED <<saved, before, pc>> /\ touched' = touched \cup {Vhost(s)}
        /\ \A g \in File : g # Vhost(s) => files'[g] = files[g]
    BY <1>1, <2>1 DEF Write, Others, run, FileTypes
  <2>3. ASSUME NEW g \in File \ touched', pc # "idle" PROVE Original(g)'
    <3>1. Original(g) /\ files'[g] = files[g]
      BY <2>2, <2>3 DEF BackedUp
    <3> QED BY <2>2, <3>1 DEF Original
  <2> QED BY <2>2, <2>3 DEF BackedUp, SavedOnce
<1>4. ASSUME NEW e, NEW sites, Begin(e, sites) PROVE BackedUp'
  BY <1>4 DEF Begin, BackedUp, SavedOnce, Original
<1>5. ASSUME NEW f \in File, NEW content, Put(f, content), pc # "idle",
             UNCHANGED <<before, touched>>
      PROVE  BackedUp'
  BY <1>5, PutBackup
<1>6. ASSUME pc \in {"vhost", "extension"}
      PROVE  Vhost(at) \in File /\ Extension(at) \in File
  BY <1>1, <1>6, FileNames DEF RunShape, SitesOf
<1>7. ASSUME NEW w \in Server, WriteFormat(w) PROVE BackedUp'
  BY <1>5, <1>7, FileNames DEF WriteFormat, ghosts
<1>8. CASE WriteVhost
  BY <1>5, <1>6, <1>8 DEF WriteVhost, ghosts
<1>9. ASSUME NEW s \in Sites, TornVhost(s) PROVE BackedUp'
  BY <1>5, <1>9, FileNames DEF TornVhost, ghosts
<1>10. CASE WriteExtension
  BY <1>5, <1>6, <1>10 DEF WriteExtension, ghosts
<1>11. ASSUME NEW f \in File, CleanFile(f) PROVE BackedUp'
  BY <1>5, <1>11 DEF CleanFile, ghosts
<1>12. CASE RestoreFile
  <2>1. /\ saved \in Seq(File \X AnyContent) /\ saved # << >> /\ saved' = Tail(saved)
        /\ files' = [files EXCEPT ![Head(saved)[1]] = Head(saved)[2]]
        /\ UNCHANGED <<before, touched>> /\ pc # "idle"
    BY <1>1, <1>12 DEF RestoreFile, SavedTypes, ghosts
  <2>2. /\ Head(saved) = saved[1] /\ 1 \in DOMAIN saved /\ saved[1] \in File \X AnyContent
        /\ \A i \in DOMAIN Tail(saved) : i + 1 \in DOMAIN saved /\ Tail(saved)[i] = saved[i + 1]
        /\ \A i \in DOMAIN saved : i = 1 \/ (i - 1 \in DOMAIN Tail(saved)
                                             /\ Tail(saved)[i - 1] = saved[i])
        /\ DOMAIN saved \subseteq Nat /\ DOMAIN Tail(saved) \subseteq Nat \ {0}
    BY <2>1
  <2>3. SavedOnce'
    <3> SUFFICES ASSUME NEW i \in DOMAIN saved', NEW j \in DOMAIN saved',
                        saved'[i][1] = saved'[j][1]
                 PROVE  i = j
      BY DEF SavedOnce
    <3>1. i + 1 = j + 1
      BY <2>1, <2>2 DEF BackedUp, SavedOnce
    <3> QED BY <2>1, <2>2, <3>1
  <2>4. ASSUME NEW g \in File \ touched' PROVE Original(g)'
    <3>1. Original(g)
      BY <2>1, <2>4 DEF BackedUp
    <3>2. \A i \in DOMAIN saved' : saved'[i][1] = g => saved'[i][2] = before'[g]
      BY <2>1, <2>2, <3>1 DEF Original
    <3>3. CASE saved[1][1] = g
      <4>1. files'[g] = before'[g]
        BY <1>1, <2>1, <2>2, <3>1, <3>3 DEF Original, FileTypes
      <4> QED BY <3>2, <4>1 DEF Original
    <3>4. CASE saved[1][1] # g
      <4>1. files'[g] = files[g]
        BY <1>1, <2>1, <2>2, <3>4 DEF FileTypes
      <4>2. (\A i \in DOMAIN saved' : saved'[i][1] # g) => \A i \in DOMAIN saved : saved[i][1] # g
        BY <2>1, <2>2, <3>4
      <4> QED BY <2>1, <3>1, <3>2, <4>1, <4>2 DEF Original
    <3> QED BY <3>3, <3>4
  <2> QED BY <2>3, <2>4 DEF BackedUp
<1>13. CASE \/ FormatsWritten \/ SitesWritten \/ CleanDone \/ Succeed \/ Raises \/ Restored
            \/ Kill \/ Uninstall \/ Install \/ UNCHANGED vars
            \/ \E s \in Sites : ReadVhost(s)
            \/ \E w \in Server : TestAndReload(w) \/ PanelReload(w)
  BY <1>2, <1>13 DEF FormatsWritten, SitesWritten, CleanDone, Succeed, Raises, Restored, Kill,
     Uninstall, Install, ReadVhost, TestAndReload, PanelReload, Others, run, vars, ghosts
<1> QED
  BY <1>1, <1>3, <1>4, <1>7, <1>8, <1>9, <1>10, <1>11, <1>12, <1>13, Steps DEF ConfigureAll

LEMMA RollbackStep ==
    ASSUME TypeInv, BackedUp, RollbackRestores, [Next]_vars PROVE RollbackRestores'
<1>1. FileTypes /\ RunShape
  BY DEF TypeInv
<1>2. CASE OthersWrite
  <2>1. PICK s \in Sites : \E content : Write(Vhost(s), content)
    BY <1>2 DEF OthersWrite
  <2>2. /\ UNCHANGED <<before, outcome>> /\ touched' = touched \cup {Vhost(s)}
        /\ \A g \in File : g # Vhost(s) => files'[g] = files[g]
    BY <1>1, <2>1 DEF Write, Others, run, FileTypes
  <2> QED BY <2>2 DEF RollbackRestores
<1>3. CASE Restored
  <2>1. \A f \in File \ touched : files[f] = before[f]
    BY <1>3 DEF Restored, BackedUp, Original
  <2> QED BY <1>3, <2>1 DEF Restored, RollbackRestores, ghosts
<1>4. CASE UNCHANGED vars \/ Uninstall \/ Install \/ \E w \in Server : PanelReload(w)
  BY <1>4 DEF vars, ghosts, run, Uninstall, Install, PanelReload, Others, RollbackRestores
<1>5. ASSUME ConfigureAll, ~Restored, ~Uninstall, ~Install PROVE outcome' # "failed"
  BY <1>1, <1>5 DEF ConfigureAll, Begin, WriteFormat, FormatsWritten, ReadVhost, WriteVhost,
     TornVhost, WriteExtension, SitesWritten, CleanFile, CleanDone, TestAndReload, Succeed, Raises,
     RestoreFile, Kill, RunShape
<1> QED BY <1>1, <1>2, <1>3, <1>4, <1>5, Steps DEF RollbackRestores

-----------------------------------------------------------------------------
(* How far a run has come with each site.                                  *)
Linked(s) ==
    files[Vhost(s)] # None =>
        files[Vhost(s)].include # "none" /\ files[Extension(s)] = known[s]

Unlinked(s) ==
    /\ files[Extension(s)] = None
    /\ files[Vhost(s)] # None => files[Vhost(s)].include # "block"

Visiting == {"sites", "vhost", "extension"}
Working == Visiting \cup {"clean", "reload"}

FormatsThere ==
    pc \in Working \cup {"format"} /\ enable =>
        \A s \in SitesOf(known) : \/ files[Format(Kind(s))] = "ours"
                                  \/ pc = "format" /\ Kind(s) \in todo

VhostRead == pc = "vhost" /\ ~Touched(at) => buffer = files[Vhost(at)]

VhostWritten ==
    pc = "extension" /\ enable /\ ~Touched(at) => files[Vhost(at)].include # "none"

SitesDone ==
    pc \in Working /\ enable =>
        \A s \in SitesOf(known) : \/ Touched(s)
                                  \/ pc \in Visiting /\ s \in todo
                                  \/ pc \in {"vhost", "extension"} /\ s = at
                                  \/ Linked(s)

AllClean ==
    pc = "reload" =>
        /\ \A s \in Sites : Touched(s) \/ (enable /\ known[s] # None) \/ Unlinked(s)
        /\ ~enable => \A w \in Server : files[Format(w)] = None

SiteInv == FormatsThere /\ VhostRead /\ VhostWritten /\ SitesDone /\ AllClean

(* What the others write is of a site they touch, no format among it.      *)
LEMMA OthersLeave ==
    ASSUME FileTypes, OthersWrite
    PROVE  /\ UNCHANGED <<run, before, loaded, installed, faults>>
           /\ \E s \in Sites :
                /\ touched' = touched \cup {Vhost(s)} /\ reloaded' = reloaded \cup {Kind(s)}
                /\ \A f \in File : f # Vhost(s) => files'[f] = files[f]
<1>1. PICK s \in Sites : \E content : Write(Vhost(s), content)
  BY DEF OthersWrite
<1> QED BY <1>1, Servers DEF Write, Others, run, FileTypes

LEMMA OthersTouch ==
    ASSUME FileTypes, OthersWrite
    PROVE  /\ \A w \in Server : files'[Format(w)] = files[Format(w)]
           /\ \A s \in Sites : Touched(s)' \/ ( /\ ~Touched(s)
                                                /\ files'[Vhost(s)] = files[Vhost(s)]
                                                /\ files'[Extension(s)] = files[Extension(s)])
<1>1. PICK s \in Sites :
             /\ touched' = touched \cup {Vhost(s)}
             /\ \A f \in File : f # Vhost(s) => files'[f] = files[f]
  BY OthersLeave
<1> QED BY <1>1, FileNames, Apart DEF Touched

LEMMA SiteStep ==
    ASSUME TypeInv, SiteInv, [Next]_vars PROVE SiteInv'
<1> USE ConfigAssumption
<1>1. FileTypes /\ RunTypes /\ RunShape
  BY DEF TypeInv
<1>2. FormatsThere /\ VhostRead /\ VhostWritten /\ SitesDone /\ AllClean
  BY DEF SiteInv
<1>3. SitesOf(known) \subseteq Sites /\ \A s \in Sites : s \in SitesOf(known) <=> known[s] # None
  BY DEF SitesOf
<1>4. CASE pc' \in {"idle", "restore"}
  BY <1>4 DEF SiteInv, FormatsThere, VhostRead, VhostWritten, SitesDone, AllClean, Working, Visiting
<1>5. ASSUME pc \in {"vhost", "extension"}
      PROVE  /\ at \in SitesOf(known) /\ at \in Sites /\ known[at] # None
             /\ Vhost(at) \in File /\ Extension(at) \in File
  BY <1>1, <1>3, <1>5, FileNames DEF RunShape
<1>6. CASE OthersWrite
  <2>1. UNCHANGED <<pc, enable, known, todo, at, buffer>>
    BY <1>1, <1>6, OthersLeave DEF run
  <2>2. FormatsThere'
    BY <1>1, <1>2, <1>3, <1>6, <2>1, OthersTouch, Servers DEF FormatsThere, SitesOf
  <2>3. VhostRead' /\ VhostWritten'
    BY <1>1, <1>2, <1>5, <1>6, <2>1, OthersTouch DEF VhostRead, VhostWritten
  <2>4. SitesDone'
    BY <1>1, <1>2, <1>3, <1>6, <2>1, OthersTouch DEF SitesDone, Linked, SitesOf
  <2>5. AllClean'
    BY <1>1, <1>2, <1>6, <2>1, OthersTouch DEF AllClean, Unlinked
  <2> QED BY <2>2, <2>3, <2>4, <2>5 DEF SiteInv
<1>7. CASE UNCHANGED <<files, touched, run>>
  BY <1>2, <1>7 DEF run, SiteInv, FormatsThere, VhostRead, VhostWritten, SitesDone, AllClean,
     Linked, Unlinked, Touched, SitesOf
<1>8. ASSUME NEW e \in BOOLEAN, NEW sites, Begin(e, sites) PROVE SiteInv'
  <2>1. FormatsThere'
    BY <1>8 DEF Begin, FormatsThere, SitesOf, Working, Visiting
  <2> QED BY <1>8, <2>1
          DEF Begin, SiteInv, VhostRead, VhostWritten, SitesDone, AllClean, Working, Visiting
<1>9. ASSUME NEW w \in Server, WriteFormat(w) PROVE SiteInv'
  <2>1. /\ pc = "format" /\ pc' = "format" /\ todo' = todo \ {w}
        /\ UNCHANGED <<enable, known>>
        /\ \A g \in File : files'[g] = IF g = Format(w) THEN "ours" ELSE files[g]
    BY <1>1, <1>9, FileNames, PutEffect DEF WriteFormat
  <2>2. FormatsThere'
    BY <1>2, <1>3, <2>1, FileNames, Servers DEF FormatsThere, SitesOf
  <2> QED BY <2>1, <2>2
          DEF SiteInv, VhostRead, VhostWritten, SitesDone, AllClean, Working, Visiting
<1>10. CASE FormatsWritten
  <2>1. /\ pc = "format" /\ pc' = "sites" /\ todo = {} /\ todo' = SitesOf(known)
        /\ UNCHANGED <<enable, known, files>>
    BY <1>10 DEF FormatsWritten
  <2>2. FormatsThere' /\ SitesDone'
    BY <1>2, <2>1 DEF FormatsThere, SitesDone, SitesOf, Working, Visiting
  <2> QED BY <2>1, <2>2 DEF SiteInv, VhostRead, VhostWritten, AllClean
<1>11. ASSUME NEW s \in Sites, ReadVhost(s), pc' # "restore" PROVE SiteInv'
  <2>1. /\ pc = "sites" /\ s \in todo /\ todo' = todo \ {s}
        /\ UNCHANGED <<files, enable, known, touched>>
        /\ \/ pc' = "sites" /\ files[Vhost(s)] = None
           \/ pc' = "vhost" /\ at' = s /\ buffer' = files[Vhost(s)]
    BY <1>11 DEF ReadVhost, ghosts
  <2>2. FormatsThere'
    BY <1>2, <2>1 DEF FormatsThere, SitesOf, Working, Visiting
  <2>3. SitesDone'
    BY <1>2, <2>1 DEF SitesDone, Linked, Touched, SitesOf, Working, Visiting
  <2> QED BY <2>1, <2>2, <2>3 DEF SiteInv, VhostRead, VhostWritten, AllClean
<1>12. CASE WriteVhost
  <2>1. /\ pc = "vhost" /\ pc' = "extension" /\ UNCHANGED <<enable, known, todo, at, touched>>
        /\ \A g \in File : files'[g] = IF g = Vhost(at) THEN Configured ELSE files[g]
    BY <1>1, <1>5, <1>12, PutEffect DEF WriteVhost, ghosts
  <2>2. FormatsThere'
    BY <1>2, <1>3, <2>1, Servers, FileNames, Apart DEF FormatsThere, SitesOf, Working, Visiting
  <2>3. SitesDone'
    BY <1>2, <1>3, <1>5, <2>1, FileNames, Apart
    DEF SitesDone, Linked, Touched, SitesOf, Working, Visiting
  <2>4. enable => Configured.include # "none"
    BY <1>1, <2>1 DEF RunShape, VhostText, Configured, EnsureInclude
  <2>5. VhostWritten'
    BY <1>5, <2>1, <2>4 DEF VhostWritten
  <2> QED BY <2>1, <2>2, <2>3, <2>5 DEF SiteInv, VhostRead, AllClean
<1>13. CASE WriteExtension
  <2>1. /\ pc = "extension" /\ pc' = "sites" /\ UNCHANGED <<enable, known, todo, touched>>
        /\ \A g \in File : files'[g] = IF g = Extension(at)
                                       THEN (IF enable THEN known[at] ELSE None) ELSE files[g]
    BY <1>1, <1>5, <1>13, PutEffect DEF WriteExtension, ghosts
  <2>2. FormatsThere'
    BY <1>2, <1>3, <2>1, Servers, FileNames, Apart DEF FormatsThere, SitesOf, Working, Visiting
  <2>3. enable /\ ~Touched(at) => files'[Vhost(at)].include # "none"
                                  /\ files'[Extension(at)] = known[at]
    BY <1>2, <1>5, <2>1, Apart DEF VhostWritten
  <2>4. SitesDone'
    BY <1>2, <1>3, <1>5, <2>1, <2>3, FileNames, Apart
    DEF SitesDone, Linked, Touched, SitesOf, Working, Visiting
  <2> QED BY <2>1, <2>2, <2>4 DEF SiteInv, VhostRead, VhostWritten, AllClean
<1>14. CASE SitesWritten
  <2>1. /\ pc = "sites" /\ todo = {} /\ pc' = "clean"
        /\ UNCHANGED <<files, enable, known, touched>>
    BY <1>14 DEF SitesWritten, ghosts
  <2>2. FormatsThere' /\ SitesDone'
    BY <1>2, <2>1 DEF FormatsThere, SitesDone, Linked, Touched, SitesOf, Working, Visiting
  <2> QED BY <2>1, <2>2 DEF SiteInv, VhostRead, VhostWritten, AllClean
<1>15. ASSUME NEW f \in File, CleanFile(f) PROVE SiteInv'
  <2>1. /\ pc = "clean" /\ pc' = "clean" /\ UNCHANGED <<enable, known, touched>>
        /\ files[f] # Cleaned(f)
        /\ \A g \in File : g # f => files'[g] = files[g]
    BY <1>1, <1>15, PutEffect DEF CleanFile, NextToClean, Stale, ghosts
  <2>2. enable => \A s \in SitesOf(known) : f # Format(Kind(s)) /\ f # Vhost(s) /\ f # Extension(s)
    BY <1>3, <2>1, CleanedNames
  <2>3. FormatsThere'
    BY <1>2, <1>3, <2>1, <2>2, Servers, FileNames DEF FormatsThere, SitesOf, Working, Visiting
  <2>4. SitesDone'
    BY <1>2, <1>3, <2>1, <2>2, FileNames
    DEF SitesDone, Linked, Touched, SitesOf, Working, Visiting
  <2> QED BY <2>1, <2>3, <2>4 DEF SiteInv, VhostRead, VhostWritten, AllClean
<1>16. CASE CleanDone
  <2>1. /\ pc = "clean" /\ pc' = "reload" /\ UNCHANGED <<files, enable, known, touched>>
        /\ \A f \in File : files[f] = Cleaned(f)
    BY <1>16 DEF CleanDone, Stale, ghosts
  <2>2. FormatsThere' /\ SitesDone'
    BY <1>2, <2>1 DEF FormatsThere, SitesDone, Linked, Touched, SitesOf, Working, Visiting
  <2>3. ASSUME NEW s \in Sites, ~(enable /\ known[s] # None) PROVE Unlinked(s)
    <3>1. files[Extension(s)] = None
      BY <2>1, <2>3, FileNames, CleanedNames
    <3>2. ASSUME files[Vhost(s)] # None PROVE files[Vhost(s)].include # "block"
      <4>1. files[Vhost(s)] = StripBlocks(files[Vhost(s)])
        BY <2>1, <2>3, <3>2, FileNames, CleanedNames
      <4>2. files[Vhost(s)] \in VhostText
        BY <1>1, <3>2, FileNames, Contents DEF FileTypes
      <4> QED BY <4>1, <4>2 DEF StripBlocks, VhostText
    <3> QED BY <3>1, <3>2 DEF Unlinked
  <2>4. ~enable => \A w \in Server : files[Format(w)] = None
    BY <2>1, FileNames, CleanedNames
  <2>5. AllClean'
    BY <2>1, <2>3, <2>4 DEF AllClean, Unlinked, Touched
  <2> QED BY <2>1, <2>2, <2>5 DEF SiteInv, VhostRead, VhostWritten
<1>17. ASSUME NEW w \in Server, TestAndReload(w), pc' # "restore" PROVE SiteInv'
  <2>1. pc = "reload" /\ pc' = "reload" /\ UNCHANGED <<files, enable, known, touched>>
    BY <1>17 DEF TestAndReload, ghosts
  <2> QED BY <1>2, <2>1 DEF SiteInv, FormatsThere, VhostRead, VhostWritten, SitesDone, AllClean,
       Linked, Unlinked, Touched, SitesOf, Working, Visiting
<1>18. CASE Succeed \/ Raises \/ RestoreFile \/ Restored \/ Kill \/ \E s \in Sites : TornVhost(s)
  BY <1>4, <1>18 DEF Succeed, Raises, RestoreFile, Restored, Kill, TornVhost
<1>19. CASE UNCHANGED vars \/ Uninstall \/ Install \/ \E w \in Server : PanelReload(w)
  BY <1>7, <1>19 DEF vars, ghosts, Uninstall, Install, PanelReload, Others
<1>20. ASSUME pc' = "restore" PROVE SiteInv'
  BY <1>4, <1>20
<1> QED
  BY <1>1, <1>6, <1>8, <1>9, <1>10, <1>11, <1>12, <1>13, <1>14, <1>15, <1>16, <1>17, <1>18,
     <1>19, <1>20, Steps DEF ConfigureAll

LEMMA SuccessStep ==
    ASSUME TypeInv, SiteInv, SuccessMeansConfigured, [Next]_vars PROVE SuccessMeansConfigured'
<1>1. FileTypes /\ RunTypes /\ RunShape
  BY DEF TypeInv
<1>2. CASE OthersWrite
  <2>1. UNCHANGED <<outcome, enable, known>>
    BY <1>1, <1>2, OthersLeave DEF run
  <2> QED BY <1>1, <1>2, <2>1, OthersTouch, Servers DEF SuccessMeansConfigured
<1>3. CASE Succeed
  <2>1. pc = "reload" /\ todo = {} /\ UNCHANGED <<files, enable, known, touched>>
    BY <1>3 DEF Succeed, ghosts
  <2>2. SitesDone /\ FormatsThere /\ AllClean
    BY DEF SiteInv
  <2>3. ASSUME NEW s \in Sites, ~Touched(s), enable, known[s] # None, files[Vhost(s)] # None
        PROVE  /\ files[Vhost(s)].include # "none"
               /\ files[Extension(s)] = known[s]
               /\ files[Format(Kind(s))] = "ours"
    <3>1. s \in SitesOf(known)
      BY <2>3 DEF SitesOf
    <3> QED BY <2>1, <2>2, <2>3, <3>1 DEF SitesDone, FormatsThere, Linked, Working, Visiting
  <2>4. ASSUME NEW s \in Sites, ~Touched(s), ~(enable /\ known[s] # None)
        PROVE  /\ files[Extension(s)] = None
               /\ files[Vhost(s)] # None => files[Vhost(s)].include # "block"
    BY <2>1, <2>2, <2>4 DEF AllClean, Unlinked
  <2>5. ~enable => \A w \in Server : files[Format(w)] = None
    BY <2>1, <2>2 DEF AllClean
  <2>6. SuccessMeansConfigured
    BY <2>3, <2>4, <2>5 DEF SuccessMeansConfigured
  <2>7. \A s \in Sites : Touched(s)' <=> Touched(s)
    BY <2>1 DEF Touched
  <2> QED BY <2>1, <2>3, <2>4, <2>5, <2>7 DEF SuccessMeansConfigured
<1>4. CASE UNCHANGED vars \/ Uninstall \/ Install \/ \E w \in Server : PanelReload(w)
  BY <1>4 DEF vars, ghosts, run, Uninstall, Install, PanelReload, Others, SuccessMeansConfigured,
     Touched
<1>5. ASSUME ConfigureAll, ~Succeed, ~Uninstall, ~Install PROVE outcome' # "success"
  BY <1>1, <1>5 DEF ConfigureAll, Begin, WriteFormat, FormatsWritten, ReadVhost, WriteVhost,
     TornVhost, WriteExtension, SitesWritten, CleanFile, CleanDone, TestAndReload, Restored, Raises,
     RestoreFile, Kill, RunShape
<1>6. outcome' # "success" => SuccessMeansConfigured'
  BY DEF SuccessMeansConfigured
<1> QED BY <1>1, <1>2, <1>3, <1>4, <1>5, <1>6, Steps

-----------------------------------------------------------------------------
(* The servers that a run has to reload.                                   *)
TouchedReloaded == \A f \in touched : ServerOf(f) \in reloaded

Differs(w) == \E f \in File : ServerOf(f) = w /\ files[f] # before[f]

ChangesKnown ==
    /\ pc \in {"format", "sites", "vhost", "extension", "clean"} =>
         \A w \in Server \ reloaded : Differs(w) => w \in changed
    /\ pc = "reload" =>
         \A w \in Server \ reloaded : Differs(w) => w \in todo \/ loaded[w] = Sends(w)

Loads == outcome = "success" =>
             \A w \in Server \ reloaded : Differs(w) => loaded[w] = Sends(w)

ReloadInv == TouchedReloaded /\ ChangesKnown /\ Loads

LEMMA LoadsMeansReloads == TypeInv /\ Loads => SuccessReloads
  BY Servers DEF TypeInv, Loads, Differs, SuccessReloads

(* A server sends on, and accepts, what its own files say.                 *)
LEMMA OwnFiles ==
    ASSUME NEW w \in Server,
           \A f \in File : ServerOf(f) = w => files'[f] = files[f]
    PROVE  /\ Sends(w)' = Sends(w)
           /\ Valid(w)' <=> Valid(w)
           /\ UNCHANGED before => (Differs(w)' <=> Differs(w))
<1>1. /\ files'[Format(w)] = files[Format(w)]
      /\ \A s \in Sites : Kind(s) = w => /\ files'[Vhost(s)] = files[Vhost(s)]
                                         /\ files'[Extension(s)] = files[Extension(s)]
  BY FileNames, Servers
<1>2. Sends(w)' = Sends(w)
  BY <1>1 DEF Sends, SendsOf
<1>3. Valid(w)' <=> Valid(w)
  BY <1>1, <1>2 DEF Valid, Accepts, Sends
<1> QED BY <1>2, <1>3 DEF Differs

LEMMA ReloadStep ==
    ASSUME TypeInv, ReloadInv, [Next]_vars PROVE ReloadInv'
<1>1. FileTypes /\ WorldTypes /\ RunTypes /\ RunShape
  BY DEF TypeInv
<1>2. TouchedReloaded /\ ChangesKnown /\ Loads
  BY DEF ReloadInv
<1>3. CASE OthersWrite
  <2>1. PICK s \in Sites :
             /\ touched' = touched \cup {Vhost(s)} /\ reloaded' = reloaded \cup {Kind(s)}
             /\ \A f \in File : f # Vhost(s) => files'[f] = files[f]
    BY <1>1, <1>3, OthersLeave
  <2>2. UNCHANGED <<pc, todo, changed, outcome, before, loaded>>
    BY <1>1, <1>3, OthersLeave DEF run
  <2>3. TouchedReloaded'
    BY <1>2, <2>1, Servers DEF TouchedReloaded
  <2>4. ASSUME NEW w \in Server \ reloaded'
        PROVE  w \in Server \ reloaded /\ Sends(w)' = Sends(w) /\ (Differs(w)' <=> Differs(w))
    <3>1. \A f \in File : ServerOf(f) = w => f # Vhost(s)
      BY <2>1, <2>4, Servers
    <3> QED BY <2>1, <2>2, <2>4, <3>1, OwnFiles
  <2>5. ChangesKnown'
    BY <1>2, <2>2, <2>4 DEF ChangesKnown
  <2>6. Loads'
    BY <1>2, <2>2, <2>4 DEF Loads
  <2> QED BY <2>3, <2>5, <2>6 DEF ReloadInv
<1>4. ASSUME NEW w \in Server, PanelReload(w) PROVE ReloadInv'
  <2>1. /\ reloaded' = reloaded \cup {w} /\ UNCHANGED <<files, touched, before>>
        /\ UNCHANGED <<pc, todo, changed, outcome>>
        /\ \A v \in Server : v # w => loaded'[v] = loaded[v]
    BY <1>1, <1>4 DEF PanelReload, Others, run, WorldTypes
  <2>2. \A v \in Server : Sends(v)' = Sends(v) /\ (Differs(v)' <=> Differs(v))
    BY <2>1, OwnFiles
  <2>3. TouchedReloaded' /\ ChangesKnown'
    BY <1>2, <2>1, <2>2 DEF TouchedReloaded, ChangesKnown
  <2>4. Loads'
    BY <1>2, <2>1, <2>2 DEF Loads
  <2> QED BY <2>3, <2>4 DEF ReloadInv
<1>5. ASSUME UNCHANGED <<files, loaded, touched, reloaded, before, outcome>>,
             \/ UNCHANGED <<pc, todo, changed>>
             \/ /\ UNCHANGED changed
                /\ pc' \in {"format", "sites", "vhost", "extension", "clean"}
                      => pc \in {"format", "sites", "vhost", "extension", "clean"}
                /\ pc' = "reload" => pc = "clean" /\ todo' = changed
      PROVE  ReloadInv'
  <2>1. \A v \in Server : Sends(v)' = Sends(v) /\ (Differs(v)' <=> Differs(v))
    BY <1>5, OwnFiles
  <2>2. TouchedReloaded' /\ Loads'
    BY <1>2, <1>5, <2>1 DEF TouchedReloaded, Loads
  <2>3. ChangesKnown'
    BY <1>2, <1>5, <2>1 DEF ChangesKnown
  <2> QED BY <2>2, <2>3 DEF ReloadInv
<1>6. CASE \/ FormatsWritten \/ (\E s \in Sites : ReadVhost(s)) \/ SitesWritten \/ CleanDone
           \/ Raises \/ Uninstall \/ Install \/ UNCHANGED vars
  BY <1>5, <1>6 DEF FormatsWritten, ReadVhost, SitesWritten, CleanDone, Raises, Uninstall, Install,
     vars, run, ghosts
<1>7. ASSUME NEW e, NEW sites, Begin(e, sites) PROVE ReloadInv'
  <2>1. before' = files' /\ pc' = "format" /\ outcome' = "running" /\ touched' = {}
    BY <1>7 DEF Begin
  <2> QED BY <2>1 DEF ReloadInv, TouchedReloaded, ChangesKnown, Loads, Differs
<1>8. ASSUME NEW f \in File, NEW content, Put(f, content), UNCHANGED <<touched, reloaded, before>>,
             pc \in {"format", "sites", "vhost", "extension", "clean"},
             pc' \in {"format", "sites", "vhost", "extension", "clean", "idle", "restore"},
             outcome' \in {"running", "killed"}
      PROVE  ReloadInv'
  <2>1. /\ changed \subseteq changed'
        /\ files[f] # content => ServerOf(f) \in changed'
        /\ \A g \in File : files'[g] = IF g = f THEN content ELSE files[g]
    BY <1>1, <1>8, PutEffect
  <2>2. ASSUME NEW w \in Server \ reloaded', Differs(w)' PROVE w \in changed'
    <3>1. CASE w \in changed'
      BY <3>1
    <3>2. CASE w \notin changed'
      <4>1. \A g \in File : ServerOf(g) = w => files'[g] = files[g]
        BY <2>1, <3>2
      <4>2. Differs(w)
        BY <1>8, <2>2, <4>1, OwnFiles
      <4> QED BY <1>2, <1>8, <2>1, <2>2, <4>2 DEF ChangesKnown
    <3> QED BY <3>1, <3>2
  <2>3. ChangesKnown'
    BY <1>8, <2>2 DEF ChangesKnown
  <2>4. TouchedReloaded' /\ Loads'
    BY <1>2, <1>8 DEF TouchedReloaded, Loads
  <2> QED BY <2>3, <2>4 DEF ReloadInv
<1>9. ASSUME pc \in {"vhost", "extension"}
      PROVE  Vhost(at) \in File /\ Extension(at) \in File /\ outcome = "running"
  BY <1>1, <1>9, FileNames DEF RunShape, SitesOf
<1>10. ASSUME NEW w \in Server, WriteFormat(w) PROVE ReloadInv'
  BY <1>1, <1>8, <1>10, FileNames DEF WriteFormat, ghosts, RunShape
<1>11. CASE WriteVhost
  BY <1>8, <1>9, <1>11 DEF WriteVhost, ghosts
<1>12. ASSUME NEW s \in Sites, TornVhost(s) PROVE ReloadInv'
  BY <1>1, <1>8, <1>12, FileNames DEF TornVhost, ghosts, RunShape
<1>13. CASE WriteExtension
  BY <1>8, <1>9, <1>13 DEF WriteExtension, ghosts
<1>14. ASSUME NEW f \in File, CleanFile(f) PROVE ReloadInv'
  BY <1>1, <1>8, <1>14 DEF CleanFile, ghosts, RunShape
<1>15. ASSUME NEW w \in Server, TestAndReload(w) PROVE ReloadInv'
  <2>1. pc = "reload" /\ UNCHANGED <<files, touched, reloaded, before, outcome, changed>>
    BY <1>15 DEF TestAndReload, ghosts
  <2>2. \A v \in Server : Sends(v)' = Sends(v) /\ (Differs(v)' <=> Differs(v))
    BY <2>1, OwnFiles
  <2>3. outcome' = "running"
    BY <1>1, <2>1 DEF RunShape
  <2>4. CASE ~Valid(w)
    BY <1>2, <1>15, <2>1, <2>3, <2>4
    DEF TestAndReload, ReloadInv, TouchedReloaded, ChangesKnown, Loads
  <2>5. CASE Valid(w)
    <3>1. /\ pc' = "reload" /\ todo' = todo \ {w} /\ loaded'[w] = Sends(w)
          /\ \A v \in Server : v # w => loaded'[v] = loaded[v]
      BY <1>1, <1>15, <2>1, <2>5 DEF TestAndReload, WorldTypes
    <3> QED BY <1>2, <2>1, <2>2, <2>3, <3>1 DEF ReloadInv, TouchedReloaded, ChangesKnown, Loads
  <2> QED BY <2>4, <2>5
<1>16. CASE Succeed
  <2>1. /\ pc = "reload" /\ todo = {} /\ pc' = "idle"
        /\ UNCHANGED <<files, loaded, touched, reloaded, before>>
    BY <1>16 DEF Succeed, ghosts
  <2>2. \A v \in Server : Sends(v)' = Sends(v) /\ (Differs(v)' <=> Differs(v))
    BY <2>1, OwnFiles
  <2> QED BY <1>2, <2>1, <2>2 DEF ReloadInv, TouchedReloaded, ChangesKnown, Loads
<1>17. CASE Restored \/ Kill \/ RestoreFile
  <2>1. pc' \in {"idle", "restore"} /\ outcome' # "success" /\ UNCHANGED <<touched, reloaded>>
    BY <1>1, <1>17 DEF Restored, Kill, RestoreFile, ghosts, RunShape
  <2> QED BY <1>2, <2>1 DEF ReloadInv, TouchedReloaded, ChangesKnown, Loads
<1> QED
  BY <1>1, <1>3, <1>4, <1>6, <1>7, <1>10, <1>11, <1>12, <1>13, <1>14, <1>15, <1>16, <1>17, Steps
  DEF ConfigureAll

-----------------------------------------------------------------------------
(* What the rollback may come upon: of a site that nobody else touched.    *)
IsSaved(f) == \E i \in DOMAIN saved : saved[i][1] = f

Unvisited(s) == \/ pc = "format"
                \/ pc \in Visiting /\ s \in todo
                \/ pc \in {"vhost", "extension"} /\ s = at

Configures(s) == enable /\ known[s] # None

(* Only a visited site that the run configures has another extension than  *)
(* it had, and none was there for a virtual host the run stripped.         *)
ExtensionOnce(s) ==
    /\ files[Extension(s)] \in {None, before[Extension(s)]} \/ (Configures(s) /\ ~Unvisited(s))
    /\ /\ IsSaved(Vhost(s)) /\ before[Vhost(s)] # None /\ before[Vhost(s)].include # "none"
       /\ before[Extension(s)] = None
       => files[Extension(s)] = None

(* An include line that was there keeps the run from writing the file.     *)
VhostKept(s) ==
    /\ pc # "restore" /\ Configures(s)
    /\ before[Vhost(s)] # None /\ before[Vhost(s)].include # "none"
    => ~IsSaved(Vhost(s))

(* The virtual host of a site is written before its extension, and after   *)
(* the extension not again.                                                *)
VhostFirst(s) ==
    /\ \A i, j \in DOMAIN saved :
           saved[i][1] = Vhost(s) /\ saved[j][1] = Extension(s) => i < j
    /\ IsSaved(Extension(s)) =>
           /\ ~Unvisited(s)
           /\ \/ pc = "restore" \/ Configures(s)
              \/ files[Vhost(s)] = None \/ files[Vhost(s)].include # "block"

StrippedFirst ==
    pc = "extension" /\ ~enable /\ ~Touched(at) =>
        files[Vhost(at)] = None \/ files[Vhost(at)].include # "block"

SiteOrder(s) == ExtensionOnce(s) /\ VhostKept(s) /\ VhostFirst(s)

Order == /\ pc \in {"vhost", "extension"} => at \notin todo
         /\ StrippedFirst
         /\ pc # "idle" => \A s \in Sites : Touched(s) \/ SiteOrder(s)

(* What a write adds to the originals.                                     *)
LEMMA PutSaves ==
    ASSUME FileTypes, SavedTypes, NEW f \in File, NEW content, Put(f, content)
    PROVE  /\ \A g \in File : IsSaved(g)' => IsSaved(g) \/ (g = f /\ files[f] # content)
           /\ \A s \in Sites :
                /\ \A i, j \in DOMAIN saved :
                     saved[i][1] = Vhost(s) /\ saved[j][1] = Extension(s) => i < j
                /\ f = Vhost(s) => files[f] = content \/ ~IsSaved(Extension(s))
                => \A i, j \in DOMAIN saved' :
                     saved'[i][1] = Vhost(s) /\ saved'[j][1] = Extension(s) => i < j
<1>1. CASE saved' = saved
  BY <1>1 DEF IsSaved, Put
<1>2. CASE saved' = Append(saved, <<f, files[f]>>) /\ files[f] # content
  <2>1. <<f, files[f]>> \in File \X AnyContent
    BY AnyFile
  <2>2. /\ DOMAIN saved' = 1 .. Len(saved) + 1 /\ DOMAIN saved = 1 .. Len(saved)
        /\ \A i \in 1 .. Len(saved) : saved'[i] = saved[i]
        /\ saved'[Len(saved) + 1] = <<f, files[f]>> /\ Len(saved) \in Nat
    BY <1>2, <2>1 DEF SavedTypes
  <2>3. \A i \in DOMAIN saved' : IF i = Len(saved) + 1 THEN saved'[i][1] = f
                                 ELSE i \in DOMAIN saved /\ saved'[i] = saved[i] /\ i <= Len(saved)
    BY <2>2
  <2>4. \A g \in File : IsSaved(g)' => IsSaved(g) \/ g = f
    BY <2>3 DEF IsSaved
  <2>5. ASSUME NEW s \in Sites,
               \A i, j \in DOMAIN saved :
                   saved[i][1] = Vhost(s) /\ saved[j][1] = Extension(s) => i < j,
               f = Vhost(s) => files[f] = content \/ ~IsSaved(Extension(s)),
               NEW i \in DOMAIN saved', NEW j \in DOMAIN saved',
               saved'[i][1] = Vhost(s), saved'[j][1] = Extension(s)
        PROVE  i < j
    <3>1. CASE i = Len(saved) + 1
      <4>1. f = Vhost(s) /\ ~IsSaved(Extension(s))
        BY <1>2, <2>3, <2>5, <3>1
      <4>2. j # Len(saved) + 1
        BY <2>3, <2>5, <4>1, Apart
      <4> QED BY <2>3, <2>5, <4>1, <4>2 DEF IsSaved
    <3>2. CASE i # Len(saved) + 1 /\ j = Len(saved) + 1
      BY <2>2, <2>3, <3>2
    <3>3. CASE i # Len(saved) + 1 /\ j # Len(saved) + 1
      BY <2>3, <2>5, <3>3
    <3> QED BY <3>1, <3>2, <3>3
  <2> QED BY <1>2, <2>4, <2>5
<1> QED BY <1>1, <1>2 DEF Put

LEMMA OrderStep ==
    ASSUME TypeInv, BackedUp, SiteInv, Order, [Next]_vars PROVE Order'
<1> USE ConfigAssumption
<1>1. FileTypes /\ SavedTypes /\ RunTypes /\ RunShape
  BY DEF TypeInv
<1>2. CASE pc' = "idle"
  BY <1>2 DEF Order, StrippedFirst
<1>3. ASSUME pc # "idle", NEW s \in Sites, ~Touched(s)
      PROVE  /\ SiteOrder(s) /\ ExtensionOnce(s) /\ VhostKept(s) /\ VhostFirst(s)
             /\ Original(Vhost(s)) /\ Original(Extension(s))
             /\ Vhost(s) \in File /\ Extension(s) \in File
  BY <1>3, FileNames DEF Order, SiteOrder, BackedUp, Touched
<1>4. ASSUME pc \in {"vhost", "extension"}
      PROVE  /\ at \in SitesOf(known) /\ at \in Sites /\ known[at] # None /\ at \notin todo
             /\ Vhost(at) \in File /\ Extension(at) \in File
  BY <1>1, <1>4, FileNames DEF RunShape, SitesOf, Order
(* A step that writes nothing of a site and does not go back to it.        *)
<1>5. ASSUME pc # "idle", UNCHANGED <<before, touched, enable, known, saved>>,
             NEW s \in Sites, ~Touched(s)',
             files'[Vhost(s)] = files[Vhost(s)], files'[Extension(s)] = files[Extension(s)],
             Unvisited(s)' => Unvisited(s), pc = "restore" => pc' = "restore"
      PROVE  SiteOrder(s)'
  <2>1. ExtensionOnce(s) /\ VhostKept(s) /\ VhostFirst(s)
    BY <1>3, <1>5 DEF Touched
  <2>2. ExtensionOnce(s)'
    BY <1>5, <2>1 DEF ExtensionOnce, IsSaved, Configures
  <2>3. VhostFirst(s)'
    BY <1>5, <2>1 DEF VhostFirst, IsSaved, Configures
  <2>4. VhostKept(s)'
    BY <1>5, <2>1 DEF VhostKept, IsSaved, Configures
  <2> QED BY <2>2, <2>3, <2>4 DEF SiteOrder
<1>6. CASE OthersWrite
  <2>1. UNCHANGED <<run, before>>
    BY <1>1, <1>6, OthersLeave
  <2>2. ASSUME NEW s \in Sites, pc # "idle", ~Touched(s)' PROVE SiteOrder(s)'
    <3>1. /\ ~Touched(s) /\ files'[Vhost(s)] = files[Vhost(s)]
          /\ files'[Extension(s)] = files[Extension(s)]
      BY <1>1, <1>6, <2>2, OthersTouch
    <3>2. ExtensionOnce(s) /\ VhostKept(s) /\ VhostFirst(s)
      BY <1>3, <2>2, <3>1
    <3>3. ExtensionOnce(s)'
      BY <2>1, <3>1, <3>2 DEF run, ExtensionOnce, IsSaved, Configures, Unvisited
    <3>4. VhostFirst(s)'
      BY <2>1, <3>1, <3>2 DEF run, VhostFirst, IsSaved, Configures, Unvisited
    <3>5. VhostKept(s)'
      BY <2>1, <3>1, <3>2 DEF run, VhostKept, IsSaved, Configures
    <3> QED BY <3>3, <3>4, <3>5 DEF SiteOrder
  <2>3. StrippedFirst'
    BY <1>1, <1>4, <1>6, <2>1, OthersTouch DEF Order, StrippedFirst, run
  <2> QED BY <2>1, <2>2, <2>3 DEF Order, run
<1>7. ASSUME NEW e \in BOOLEAN, NEW sites, Begin(e, sites) PROVE Order'
  <2>1. saved' = << >> /\ before' = files /\ files' = files /\ pc' = "format"
    BY <1>7 DEF Begin
  <2>2. \A f : ~IsSaved(f)'
    BY <2>1 DEF IsSaved
  <2>3. \A s \in Sites : SiteOrder(s)'
    BY <2>1, <2>2 DEF SiteOrder, ExtensionOnce, VhostKept, VhostFirst
  <2> QED BY <2>1, <2>3 DEF Order, StrippedFirst
(* A write to another file than those of a site.                           *)
<1>8. ASSUME pc # "idle", NEW f \in File, NEW content, Put(f, content),
             UNCHANGED <<before, touched, enable, known>>,
             NEW s \in Sites, ~Touched(s)', f # Vhost(s), f # Extension(s),
             Unvisited(s)' => Unvisited(s), pc # "restore"
      PROVE  SiteOrder(s)'
  <2>1. /\ ExtensionOnce(s) /\ VhostKept(s) /\ VhostFirst(s)
        /\ Vhost(s) \in File /\ Extension(s) \in File
    BY <1>3, <1>8 DEF Touched
  <2>2. files'[Vhost(s)] = files[Vhost(s)] /\ files'[Extension(s)] = files[Extension(s)]
    BY <1>1, <1>8, <2>1, PutEffect
  <2>3. /\ IsSaved(Vhost(s))' => IsSaved(Vhost(s))
        /\ IsSaved(Extension(s))' => IsSaved(Extension(s))
    BY <1>1, <1>8, <2>1, PutSaves
  <2>4. \A i, j \in DOMAIN saved' :
            saved'[i][1] = Vhost(s) /\ saved'[j][1] = Extension(s) => i < j
    BY <1>1, <1>8, <2>1, PutSaves DEF VhostFirst
  <2>5. ExtensionOnce(s)'
    BY <1>8, <2>1, <2>2, <2>3 DEF ExtensionOnce, Configures
  <2>6. VhostFirst(s)'
    BY <1>8, <2>1, <2>2, <2>3, <2>4 DEF VhostFirst, Configures
  <2>7. VhostKept(s)'
    BY <1>8, <2>1, <2>3 DEF VhostKept, Configures
  <2> QED BY <2>5, <2>6, <2>7 DEF SiteOrder
(* A write to its virtual host: no extension is saved yet, nor written.    *)
<1>9. ASSUME pc # "idle", NEW s \in Sites, NEW content, Put(Vhost(s), content),
             files[Vhost(s)] # content,
             UNCHANGED <<before, touched, enable, known>>, ~Touched(s)',
             pc # "restore", Unvisited(s) \/ (pc = "clean" /\ files[Vhost(s)] # None
                              /\ files[Vhost(s)].include = "block" /\ ~Configures(s)),
             \/ pc' = "restore" \/ ~Configures(s)
             \/ before[Vhost(s)] = None \/ before[Vhost(s)].include = "none"
      PROVE  SiteOrder(s)'
  <2>1. /\ ExtensionOnce(s) /\ VhostKept(s) /\ VhostFirst(s)
        /\ Vhost(s) \in File /\ Extension(s) \in File
    BY <1>3, <1>9 DEF Touched
  <2>2. files'[Extension(s)] = files[Extension(s)]
    BY <1>1, <1>9, <2>1, Apart, PutEffect
  <2>3. ~IsSaved(Extension(s))
    BY <1>9, <2>1 DEF VhostFirst
  <2>4. ~IsSaved(Extension(s))'
    BY <1>1, <1>9, <2>1, <2>3, Apart, PutSaves
  <2>5. \A i, j \in DOMAIN saved' :
            saved'[i][1] = Vhost(s) /\ saved'[j][1] = Extension(s) => i < j
    BY <1>1, <1>9, <2>1, <2>3, PutSaves DEF VhostFirst
  <2>6. files[Extension(s)] \in {None, before[Extension(s)]}
    BY <1>9, <2>1 DEF ExtensionOnce
  <2>7. ExtensionOnce(s)'
    BY <1>9, <2>2, <2>6 DEF ExtensionOnce
  <2>8. VhostFirst(s)'
    BY <2>4, <2>5 DEF VhostFirst
  <2>9. VhostKept(s)'
    BY <1>9 DEF VhostKept, Configures
  <2> QED BY <2>7, <2>8, <2>9 DEF SiteOrder
<1>10. ASSUME NEW w \in Server, WriteFormat(w) PROVE Order'
  <2>1. /\ pc = "format" /\ pc' = "format" /\ Put(Format(w), "ours")
        /\ UNCHANGED <<before, touched, enable, known, at>>
    BY <1>10 DEF WriteFormat, ghosts
  <2>2. ASSUME NEW s \in Sites, ~Touched(s)' PROVE SiteOrder(s)'
    BY <1>8, <2>1, <2>2, FileNames, Apart DEF Unvisited
  <2> QED BY <2>1, <2>2 DEF Order, StrippedFirst
<1>11. CASE FormatsWritten \/ SitesWritten \/ CleanDone
  <2>1. /\ pc # "idle" /\ UNCHANGED <<files, before, touched, enable, known, saved, at>>
        /\ pc' \in {"sites", "clean", "reload"} /\ pc # "restore"
        /\ pc' = "sites" => pc = "format"
    BY <1>11 DEF FormatsWritten, SitesWritten, CleanDone, ghosts
  <2>2. ASSUME NEW s \in Sites, ~Touched(s)' PROVE SiteOrder(s)'
    BY <1>5, <2>1, <2>2 DEF Unvisited, Visiting
  <2> QED BY <2>1, <2>2 DEF Order, StrippedFirst
<1>12. ASSUME NEW r \in Sites, ReadVhost(r) PROVE Order'
  <2>1. /\ pc = "sites" /\ r \in todo /\ todo' = todo \ {r}
        /\ UNCHANGED <<files, before, touched, enable, known, saved>>
        /\ pc' \in {"sites", "vhost", "restore"} /\ (pc' = "vhost" => at' = r)
    BY <1>12 DEF ReadVhost, ghosts
  <2>2. ASSUME NEW s \in Sites, ~Touched(s)' PROVE SiteOrder(s)'
    BY <1>5, <2>1, <2>2 DEF Unvisited, Visiting
  <2> QED BY <2>1, <2>2 DEF Order, StrippedFirst
<1>13. CASE WriteVhost
  <2>1. /\ pc = "vhost" /\ pc' = "extension" /\ Put(Vhost(at), Configured)
        /\ UNCHANGED <<before, touched, enable, known, todo, at>>
    BY <1>13 DEF WriteVhost, ghosts
  <2>2. ASSUME NEW s \in Sites, ~Touched(s)' PROVE SiteOrder(s)'
    <3>1. Unvisited(s)' => Unvisited(s)
      BY <2>1 DEF Unvisited, Visiting
    <3>2. CASE s # at
      BY <1>4, <1>8, <2>1, <2>2, <3>1, <3>2, Apart
    <3>3. CASE s = at /\ files[Vhost(at)] # Configured
      <4>1. Unvisited(at) /\ ~Touched(at)
        BY <2>1, <2>2, <3>3 DEF Unvisited, Touched
      <4>2. VhostKept(at) /\ Original(Vhost(at)) /\ buffer = files[Vhost(at)]
        BY <1>3, <1>4, <2>1, <4>1 DEF SiteInv, VhostRead
      <4>3. enable /\ ~IsSaved(Vhost(at)) => before[Vhost(at)].include = "none"
        BY <3>3, <4>2 DEF Original, IsSaved, Configured, EnsureInclude
      <4>4. \/ ~Configures(at) \/ before[Vhost(at)] = None
            \/ before[Vhost(at)].include = "none"
        BY <2>1, <4>2, <4>3 DEF VhostKept, Configures
      <4> QED BY <1>4, <1>9, <2>1, <2>2, <3>3, <4>1, <4>4
    <3>4. CASE files[Vhost(at)] = Configured
      BY <1>5, <2>1, <2>2, <3>1, <3>4 DEF Put
    <3> QED BY <3>2, <3>3, <3>4
  <2>3. StrippedFirst'
    <3>1. files'[Vhost(at)] = Configured /\ buffer \in VhostText
      BY <1>1, <1>4, <2>1, PutEffect DEF RunShape
    <3>2. ~enable => Configured.include # "block"
      BY <3>1 DEF Configured, StripBlocks, VhostText
    <3> QED BY <2>1, <3>1, <3>2 DEF StrippedFirst
  <2> QED BY <1>4, <2>1, <2>2, <2>3 DEF Order
<1>14. CASE WriteExtension
  <2> DEFINE id == IF enable THEN known[at] ELSE None
  <2>1. /\ pc = "extension" /\ pc' = "sites" /\ Put(Extension(at), id)
        /\ UNCHANGED <<before, touched, enable, known, todo>>
    BY <1>14 DEF WriteExtension, ghosts
  <2>2. ASSUME NEW s \in Sites, ~Touched(s)' PROVE SiteOrder(s)'
    <3>1. Unvisited(s)' => Unvisited(s)
      BY <2>1 DEF Unvisited, Visiting
    <3>2. CASE s # at
      BY <1>4, <1>8, <2>1, <2>2, <3>1, <3>2, Apart
    <3>3. CASE s = at
      <4>1. /\ ~Touched(s) /\ ExtensionOnce(s) /\ VhostKept(s) /\ VhostFirst(s)
            /\ Original(Vhost(s)) /\ Original(Extension(s))
            /\ Vhost(s) \in File /\ Extension(s) \in File /\ Unvisited(s)
        BY <1>3, <2>1, <2>2, <3>3 DEF Touched, Unvisited
      <4>2. /\ files'[Extension(s)] = id /\ files'[Vhost(s)] = files[Vhost(s)]
        BY <1>1, <2>1, <3>3, <4>1, Apart, PutEffect
      <4>3. ~Unvisited(s)'
        BY <1>4, <2>1, <3>3 DEF Unvisited, Visiting
      <4>4. IsSaved(Vhost(s))' => IsSaved(Vhost(s))
        BY <1>1, <2>1, <3>3, <4>1, Apart, PutSaves
      <4>5. \A i, j \in DOMAIN saved' :
                saved'[i][1] = Vhost(s) /\ saved'[j][1] = Extension(s) => i < j
        BY <1>1, <2>1, <3>3, <4>1, Apart, PutSaves DEF VhostFirst
      <4>6. ~enable => files[Vhost(s)] = None \/ files[Vhost(s)].include # "block"
        BY <2>1, <3>3, <4>1 DEF Order, StrippedFirst
      <4>7. VhostFirst(s)'
        BY <1>4, <2>1, <3>3, <4>2, <4>3, <4>5, <4>6 DEF VhostFirst, Configures
      <4>8. ASSUME enable, before[Vhost(s)] # None, before[Vhost(s)].include # "none"
            PROVE  ~IsSaved(Vhost(s))
        BY <1>4, <2>1, <3>3, <4>1, <4>8 DEF VhostKept, Configures
      <4>9. ExtensionOnce(s)'
        BY <1>4, <2>1, <3>3, <4>2, <4>3, <4>4, <4>8 DEF ExtensionOnce, Configures
      <4>10. VhostKept(s)'
        BY <2>1, <4>1, <4>4 DEF VhostKept, Configures
      <4> QED BY <4>7, <4>9, <4>10 DEF SiteOrder
    <3> QED BY <3>2, <3>3
  <2> QED BY <2>1, <2>2 DEF Order, StrippedFirst
<1>15. ASSUME NEW r \in Sites, TornVhost(r), pc' = "restore" PROVE Order'
  <2>1. PICK torn : Put(Vhost(r), torn)
    BY <1>15 DEF TornVhost
  <2>2. /\ UNCHANGED <<before, touched, enable, known, todo, at>> /\ pc \in {"vhost", "clean"}
        /\ pc = "vhost" => r = at
        /\ pc = "clean" => files[Vhost(r)] # Cleaned(Vhost(r))
    BY <1>15 DEF TornVhost, NextToClean, Stale, ghosts
  <2>3. ASSUME NEW s \in Sites, ~Touched(s)' PROVE SiteOrder(s)'
    <3>1. ~Unvisited(s)'
      BY <1>15 DEF Unvisited, Visiting
    <3>2. CASE s # r
      BY <1>8, <1>15, <2>1, <2>2, <2>3, <3>1, <3>2, FileNames, Apart
    <3>3. CASE s = r /\ files[Vhost(r)] # torn
      <4>1. pc = "clean" => files[Vhost(r)].include = "block" /\ ~Configures(r)
                           /\ files[Vhost(r)] # None
        BY <2>2, CleanedNames DEF StripBlocks, Configures
      <4>2. pc = "vhost" => Unvisited(r)
        BY <2>2 DEF Unvisited
      <4> QED BY <1>9, <1>15, <2>1, <2>2, <2>3, <3>3, <4>1, <4>2
    <3>4. CASE files[Vhost(r)] = torn
      BY <1>5, <1>15, <2>1, <2>2, <2>3, <3>1, <3>4 DEF Put
    <3> QED BY <3>2, <3>3, <3>4
  <2> QED BY <1>15, <2>3 DEF Order, StrippedFirst
<1>16. ASSUME NEW f \in File, CleanFile(f) PROVE Order'
  <2>1. /\ pc = "clean" /\ pc' = "clean" /\ Put(f, Cleaned(f)) /\ files[f] # Cleaned(f)
        /\ ~\E g \in Stale : Precedes(g, f)
        /\ UNCHANGED <<before, touched, enable, known>>
    BY <1>16 DEF CleanFile, NextToClean, Stale, ghosts
  <2>2. ASSUME NEW s \in Sites, ~Touched(s)' PROVE SiteOrder(s)'
    <3>1. ~Unvisited(s)' /\ ~Unvisited(s)
      BY <2>1 DEF Unvisited, Visiting
    <3>2. CASE f # Vhost(s) /\ f # Extension(s)
      BY <1>8, <2>1, <2>2, <3>1, <3>2
    <3>3. CASE f = Vhost(s)
      <4>1. files[Vhost(s)].include = "block" /\ ~Configures(s) /\ files[Vhost(s)] # None
        BY <2>1, <3>3, CleanedNames DEF StripBlocks, Configures
      <4> QED BY <1>9, <2>1, <2>2, <3>1, <3>3, <4>1
    <3>4. CASE f = Extension(s)
      <4>1. /\ ExtensionOnce(s) /\ VhostKept(s) /\ VhostFirst(s)
            /\ Vhost(s) \in File /\ Extension(s) \in File
        BY <1>3, <2>1, <2>2 DEF Touched
      <4>2. ~Configures(s) /\ Cleaned(f) = None
        BY <2>1, <3>4, CleanedNames DEF Configures
      <4>3. files'[Extension(s)] = None /\ files'[Vhost(s)] = files[Vhost(s)]
        BY <1>1, <2>1, <3>4, <4>1, <4>2, Apart, PutEffect
      <4>4. files[Vhost(s)] = Cleaned(Vhost(s))
        BY <2>1, <3>4, <4>1, VhostBefore DEF Stale
      <4>5. files[Vhost(s)] = None \/ files[Vhost(s)].include # "block"
        <5>1. files[Vhost(s)] \in VhostText \cup {None}
          BY <1>1, <4>1, Contents DEF FileTypes
        <5> QED BY <4>2, <4>4, <5>1, CleanedNames DEF StripBlocks, VhostText, Configures
      <4>6. \A i, j \in DOMAIN saved' :
                saved'[i][1] = Vhost(s) /\ saved'[j][1] = Extension(s) => i < j
        BY <1>1, <2>1, <3>4, <4>1, Apart, PutSaves DEF VhostFirst
      <4>7. VhostFirst(s)' /\ ExtensionOnce(s)'
        BY <3>1, <4>3, <4>5, <4>6 DEF VhostFirst, ExtensionOnce
      <4>8. VhostKept(s)'
        BY <2>1, <4>2 DEF VhostKept, Configures
      <4> QED BY <4>7, <4>8 DEF SiteOrder
    <3> QED BY <3>2, <3>3, <3>4
  <2> QED BY <2>1, <2>2 DEF Order, StrippedFirst
<1>17. CASE Raises \/ (\E w \in Server : TestAndReload(w))
  <2>1. /\ pc # "idle" /\ UNCHANGED <<files, before, touched, enable, known, saved, at>>
        /\ pc' \in {"restore", "reload"} /\ pc # "restore"
    BY <1>17 DEF Raises, TestAndReload, ghosts
  <2>2. ASSUME NEW s \in Sites, ~Touched(s)' PROVE SiteOrder(s)'
    BY <1>5, <2>1, <2>2 DEF Unvisited, Visiting
  <2> QED BY <2>1, <2>2 DEF Order, StrippedFirst
<1>18. CASE RestoreFile
  <2>1. /\ saved \in Seq(File \X AnyContent) /\ saved # << >> /\ saved' = Tail(saved)
        /\ files' = [files EXCEPT ![Head(saved)[1]] = Head(saved)[2]]
        /\ UNCHANGED <<before, touched, enable, known>> /\ pc = "restore" /\ pc' = "restore"
    BY <1>1, <1>18 DEF RestoreFile, SavedTypes, ghosts
  <2>2. /\ Head(saved) = saved[1] /\ 1 \in DOMAIN saved /\ saved[1] \in File \X AnyContent
        /\ \A i \in DOMAIN Tail(saved) : i + 1 \in DOMAIN saved /\ Tail(saved)[i] = saved[i + 1]
        /\ DOMAIN Tail(saved) \subseteq Nat \ {0}
    BY <2>1
  <2>3. \A f : IsSaved(f)' => IsSaved(f)
    BY <2>1, <2>2 DEF IsSaved
  <2>4. ASSUME NEW s \in Sites, ~Touched(s)' PROVE SiteOrder(s)'
    <3>1. /\ ExtensionOnce(s) /\ VhostFirst(s) /\ Original(Extension(s))
          /\ Extension(s) \in File
      BY <1>3, <2>1, <2>4 DEF Touched
    <3>2. files'[Extension(s)] \in {files[Extension(s)], before[Extension(s)]}
      BY <1>1, <2>1, <2>2, <3>1 DEF Original, FileTypes
    <3>3. ~Unvisited(s)'
      BY <2>1 DEF Unvisited, Visiting
    <3>4. ExtensionOnce(s)'
      BY <2>1, <2>3, <3>1, <3>2, <3>3 DEF ExtensionOnce, Configures
    <3>5. ASSUME NEW i \in DOMAIN saved', NEW j \in DOMAIN saved',
                 saved'[i][1] = Vhost(s), saved'[j][1] = Extension(s)
          PROVE  i < j
      <4>1. i + 1 < j + 1
        BY <2>1, <2>2, <3>1, <3>5 DEF VhostFirst
      <4> QED BY <2>1, <2>2, <3>5, <4>1
    <3>6. VhostFirst(s)'
      BY <2>1, <3>3, <3>5 DEF VhostFirst
    <3>7. VhostKept(s)'
      BY <2>1 DEF VhostKept
    <3> QED BY <3>4, <3>6, <3>7 DEF SiteOrder
  <2> QED BY <2>1, <2>4 DEF Order, StrippedFirst
<1>19. CASE UNCHANGED <<files, run, before, touched>>
  BY <1>19 DEF run, Order, StrippedFirst, SiteOrder, ExtensionOnce, VhostKept, VhostFirst,
     IsSaved, Configures, Unvisited, Touched
<1>20. CASE UNCHANGED vars \/ Uninstall \/ Install \/ \E w \in Server : PanelReload(w)
  BY <1>19, <1>20 DEF vars, ghosts, Uninstall, Install, PanelReload, Others
<1>21. CASE Succeed \/ Restored \/ Kill
  BY <1>2, <1>21 DEF Succeed, Restored, Kill
<1>22. \A s \in Sites : TornVhost(s) => pc' \in {"restore", "idle"}
  BY DEF TornVhost
<1> QED
  BY <1>1, <1>2, <1>6, <1>7, <1>10, <1>11, <1>12, <1>13, <1>14, <1>15, <1>16, <1>17, <1>18,
     <1>20, <1>21, <1>22, Steps DEF ConfigureAll

-----------------------------------------------------------------------------
(* A step of the run other than the restoring keeps a server's             *)
(* configuration acceptable.                                               *)

(* A server whose sites keep a parsable text, or nothing, sends on no      *)
(* more, or has its format.                                                *)
LEMMA StillValid ==
    ASSUME NEW w \in Server, Valid(w),
           \A s \in Sites : Kind(s) = w /\ files'[Vhost(s)] # None =>
                \/ files'[Vhost(s)].shape # "broken"
                \/ files[Vhost(s)] # None
                   /\ files'[Vhost(s)].shape = files[Vhost(s)].shape,
           w = "nginx" =>
                \/ files'[Format(w)] # None
                \/ Sends(w)' = {}
                \/ Sends(w)' \subseteq Sends(w) /\ files'[Format(w)] = files[Format(w)]
    PROVE  Valid(w)'
  BY DEF Valid, Accepts, Sends

LEMMA ValidStep ==
    ASSUME TypeInv, SiteInv, TouchedReloaded, [Next]_vars,
           pc \notin {"idle", "restore"}, faults' = faults,
           NEW w \in Server \ reloaded', Valid(w)
    PROVE  Valid(w)'
<1> USE ConfigAssumption
<1>1. FileTypes /\ RunTypes /\ RunShape
  BY DEF TypeInv
<1>2. FormatsThere /\ VhostRead
  BY DEF SiteInv
<1>3. CASE \A f \in File : ServerOf(f) = w => files'[f] = files[f]
  BY <1>3, OwnFiles
<1>4. CASE OthersWrite
  <2>1. PICK s \in Sites :
             /\ reloaded' = reloaded \cup {Kind(s)}
             /\ \A f \in File : f # Vhost(s) => files'[f] = files[f]
    BY <1>1, <1>4, OthersLeave
  <2>2. \A f \in File : ServerOf(f) = w => f # Vhost(s)
    BY <2>1, Servers
  <2> QED BY <1>3, <2>1, <2>2
<1>5. CASE UNCHANGED files
  BY <1>3, <1>5
<1>6. ASSUME NEW f \in File, NEW content, Put(f, content), ServerOf(f) # w PROVE Valid(w)'
  <2>1. \A g \in File : g # f => files'[g] = files[g]
    BY <1>1, <1>6, PutEffect
  <2> QED BY <1>3, <1>6, <2>1
<1>7. \A s \in Sites : files[Extension(s)] \in Ids \cup {None} /\ files[Vhost(s)] \in VhostText \cup {None}
  BY <1>1, FileNames, Contents DEF FileTypes
<1>8. ASSUME NEW v \in Server, WriteFormat(v) PROVE Valid(w)'
  <2>1. \A g \in File : files'[g] = IF g = Format(v) THEN "ours" ELSE files[g]
    BY <1>1, <1>8, FileNames, PutEffect DEF WriteFormat
  <2>2. CASE v = w
    <3>1. files'[Format(w)] # None
      BY <2>1, <2>2, FileNames
    <3>2. \A s \in Sites : files'[Vhost(s)] = files[Vhost(s)]
      BY <2>1, FileNames, Apart
    <3> QED BY <3>1, <3>2, StillValid
  <2>3. CASE v # w
    BY <1>6, <1>8, <2>3, FileNames, Servers DEF WriteFormat
  <2> QED BY <2>2, <2>3
<1>9. ASSUME pc \in {"vhost", "extension"}
      PROVE  /\ at \in SitesOf(known) /\ at \in Sites
             /\ Vhost(at) \in File /\ Extension(at) \in File
  BY <1>1, <1>9, FileNames DEF RunShape, SitesOf
<1>10. ASSUME pc \in {"vhost", "extension"}, enable, Kind(at) = w PROVE files[Format(w)] # None
  BY <1>2, <1>9, <1>10 DEF FormatsThere, Working, Visiting
<1>11. CASE WriteVhost
  <2>1. pc = "vhost" /\ reloaded' = reloaded /\ Put(Vhost(at), Configured)
    BY <1>11 DEF WriteVhost, ghosts
  <2>2. \A g \in File : files'[g] = IF g = Vhost(at) THEN Configured ELSE files[g]
    BY <1>1, <1>9, <2>1, PutEffect
  <2>3. CASE Kind(at) = w
    <3>1. ~Touched(at)
      BY <2>1, <2>3, Servers DEF Touched, TouchedReloaded
    <3>2. buffer = files[Vhost(at)] /\ buffer \in VhostText \ {None}
      BY <1>1, <1>2, <2>1, <3>1 DEF VhostRead, RunShape
    <3>3. Configured.shape = buffer.shape
      BY <3>2 DEF Configured, EnsureInclude, StripBlocks, VhostText
    <3>4. /\ files'[Vhost(at)] = Configured
          /\ \A s \in Sites : s # at => files'[Vhost(s)] = files[Vhost(s)]
          /\ \A s \in Sites : files'[Extension(s)] = files[Extension(s)]
          /\ files'[Format(w)] = files[Format(w)]
      BY <1>9, <2>1, <2>2, FileNames, Apart
    <3>5. \A s \in Sites : Kind(s) = w /\ files'[Vhost(s)] # None =>
                \/ files'[Vhost(s)].shape # "broken"
                \/ files[Vhost(s)] # None /\ files'[Vhost(s)].shape = files[Vhost(s)].shape
      BY <3>2, <3>3, <3>4
    <3>6. CASE enable
      BY <1>10, <2>1, <2>3, <3>4, <3>5, <3>6, StillValid
    <3>7. CASE ~enable
      <4>1. Configured.include # "none" => buffer.include # "none"
        BY <3>2, <3>7 DEF Configured, StripBlocks, VhostText
      <4>2. Sends(w)' \subseteq Sends(w)
        BY <3>2, <3>4, <4>1 DEF Sends, SendsOf
      <4> QED BY <3>4, <3>5, <4>2, StillValid
    <3> QED BY <3>6, <3>7
  <2>4. CASE Kind(at) # w
    BY <1>6, <1>9, <2>1, <2>4, Servers
  <2> QED BY <2>3, <2>4
<1>12. CASE WriteExtension
  <2>1. pc = "extension" /\ Put(Extension(at), IF enable THEN known[at] ELSE None)
    BY <1>12 DEF WriteExtension
  <2>2. \A g \in File : files'[g] = IF g = Extension(at)
                                    THEN (IF enable THEN known[at] ELSE None) ELSE files[g]
    BY <1>1, <1>9, <2>1, PutEffect
  <2>3. CASE Kind(at) = w
    <3>1. /\ \A s \in Sites : files'[Vhost(s)] = files[Vhost(s)]
          /\ files'[Format(w)] = files[Format(w)]
          /\ \A s \in Sites : s # at => files'[Extension(s)] = files[Extension(s)]
          /\ ~enable => files'[Extension(at)] = None
      BY <1>9, <2>1, <2>2, FileNames, Apart
    <3>2. CASE enable
      BY <1>10, <2>1, <2>3, <3>1, <3>2, StillValid
    <3>3. CASE ~enable
      <4>1. Sends(w)' \subseteq Sends(w)
        BY <3>1, <3>3 DEF Sends, SendsOf, Ids
      <4> QED BY <3>1, <4>1, StillValid
    <3> QED BY <3>2, <3>3
  <2>4. CASE Kind(at) # w
    BY <1>6, <1>9, <2>1, <2>4, Servers
  <2> QED BY <2>3, <2>4
<1>13. ASSUME NEW f \in File, CleanFile(f) PROVE Valid(w)'
  <2>1. Put(f, Cleaned(f)) /\ f \in Stale /\ ~\E g \in Stale : Precedes(g, f)
    BY <1>13 DEF CleanFile, NextToClean
  <2>2. \A g \in File : files'[g] = IF g = f THEN Cleaned(f) ELSE files[g]
    BY <1>1, <2>1, PutEffect
  <2>3. CASE ServerOf(f) # w
    BY <1>6, <2>1, <2>3
  <2>4. CASE f = Format(w)
    <3>1. Cleaned(f) = None \/ Cleaned(f) = files[f]
      BY <2>4, CleanedNames
    <3>2. \A s \in Sites : /\ files'[Vhost(s)] = files[Vhost(s)]
                           /\ files'[Extension(s)] = files[Extension(s)]
      BY <2>2, <2>4, FileNames, Apart
    <3>3. ~enable
      BY <2>1, <2>4, CleanedNames DEF Stale
    <3>4. \A s \in Sites : Kind(s) = w => files[Extension(s)] = None
      <4> SUFFICES ASSUME NEW s \in Sites, Kind(s) = w PROVE files[Extension(s)] = None
        OBVIOUS
      <4>1. Precedes(Extension(s), f)
        BY <2>4, ExtensionFirst
      <4>2. Extension(s) \notin Stale
        BY <2>1, <4>1
      <4> QED BY <3>3, <4>2, FileNames, CleanedNames DEF Stale
    <3>5. Sends(w)' = {}
      BY <3>2, <3>4 DEF Sends, SendsOf, Ids
    <3> QED BY <3>2, <3>5, StillValid
  <2>5. ASSUME NEW s \in Sites, Kind(s) = w, f = Extension(s) PROVE Valid(w)'
    <3>1. Cleaned(f) = None
      BY <2>1, <2>5, CleanedNames DEF Stale
    <3>2. /\ \A r \in Sites : files'[Vhost(r)] = files[Vhost(r)]
          /\ files'[Format(w)] = files[Format(w)]
          /\ \A r \in Sites : r # s => files'[Extension(r)] = files[Extension(r)]
          /\ files'[Extension(s)] = None
      BY <2>2, <2>5, <3>1, FileNames, Apart
    <3>3. Sends(w)' \subseteq Sends(w)
      BY <3>2 DEF Sends, SendsOf, Ids
    <3> QED BY <3>2, <3>3, StillValid
  <2>6. ASSUME NEW s \in Sites, Kind(s) = w, f = Vhost(s) PROVE Valid(w)'
    <3>1. files[f] # None /\ Cleaned(f) = StripBlocks(files[f])
      BY <2>1, <2>6, CleanedNames DEF Stale
    <3>2. /\ Cleaned(f).shape = files[f].shape
          /\ Cleaned(f).include # "none" => files[f].include # "none"
      BY <1>7, <2>6, <3>1 DEF StripBlocks, VhostText
    <3>3. /\ \A r \in Sites : r # s => files'[Vhost(r)] = files[Vhost(r)]
          /\ files'[Vhost(s)] = Cleaned(f)
          /\ files'[Format(w)] = files[Format(w)]
          /\ \A r \in Sites : files'[Extension(r)] = files[Extension(r)]
      BY <2>2, <2>6, FileNames, Apart
    <3>4. Sends(w)' \subseteq Sends(w)
      BY <2>6, <3>1, <3>2, <3>3 DEF Sends, SendsOf
    <3> QED BY <2>6, <3>1, <3>2, <3>3, <3>4, StillValid
  <2> QED BY <2>3, <2>4, <2>5, <2>6, FileNames, Servers
<1>14. CASE \/ FormatsWritten \/ (\E s \in Sites : ReadVhost(s)) \/ SitesWritten \/ CleanDone
            \/ Uninstall \/ Install \/ UNCHANGED vars \/ Succeed
            \/ (\E v \in Server : TestAndReload(v) \/ PanelReload(v))
  BY <1>5, <1>14 DEF FormatsWritten, ReadVhost, SitesWritten, CleanDone, Succeed, TestAndReload,
     PanelReload, Uninstall, Install, vars
<1>15. /\ \A s \in Sites : ~TornVhost(s)
       /\ ~Raises /\ ~Kill /\ ~Restored /\ ~RestoreFile
       /\ \A e, sites : ~Begin(e, sites)
  <2>1. faults \in Nat
    BY DEF TypeInv, WorldTypes
  <2> QED BY <2>1 DEF TornVhost, Raises, Kill, Restored, RestoreFile, Begin
<1> QED
  BY <1>1, <1>4, <1>8, <1>11, <1>12, <1>13, <1>14, <1>15, Steps DEF ConfigureAll

-----------------------------------------------------------------------------
(* When a server sends nothing on.                                         *)
LEMMA SendsNothing ==
    ASSUME NEW fs, NEW w
    PROVE  SendsOf(fs, w) = {} <=>
              \A s \in Sites : Kind(s) = w /\ fs[Vhost(s)] # None /\ fs[Vhost(s)].include # "none"
                                  => fs[Extension(s)] \notin Ids
<1>1. ASSUME SendsOf(fs, w) = {}, NEW s \in Sites, Kind(s) = w, fs[Vhost(s)] # None,
             fs[Vhost(s)].include # "none", fs[Extension(s)] \in Ids
      PROVE  FALSE
  <2> DEFINE p == <<s, fs[Extension(s)]>>
  <2>1. p \in Sites \X Ids /\ p[1] = s /\ p[2] = fs[Extension(s)]
    BY <1>1
  <2>2. p \in SendsOf(fs, w)
    BY <1>1, <2>1 DEF SendsOf
  <2> QED BY <1>1, <2>2
<1>2. ASSUME NEW p \in SendsOf(fs, w)
      PROVE  \E s \in Sites : /\ Kind(s) = w /\ fs[Vhost(s)] # None
                              /\ fs[Vhost(s)].include # "none" /\ fs[Extension(s)] \in Ids
  <2>1. p[1] \in Sites /\ p[2] \in Ids
    BY DEF SendsOf
  <2> QED BY <2>1 DEF SendsOf
<1> QED BY <1>1, <1>2

(* A step of the rollback keeps acceptable what was when the run began,    *)
(* except for the nginx format.                                            *)
LEMMA RestoreValid ==
    ASSUME TypeInv, BackedUp, Order, TouchedReloaded, RestoreFile,
           NEW w \in Server \ reloaded', Valid(w), Accepts(w, before),
           w = "nginx" => ~FormatPending
    PROVE  Valid(w)'
<1> USE ConfigAssumption
<1>1. FileTypes /\ SavedTypes
  BY DEF TypeInv
<1>2. /\ saved \in Seq(File \X AnyContent) /\ saved # << >>
      /\ files' = [files EXCEPT ![Head(saved)[1]] = Head(saved)[2]]
      /\ reloaded' = reloaded /\ pc = "restore"
  BY <1>1 DEF RestoreFile, SavedTypes, ghosts
<1>3. /\ Head(saved) = saved[1] /\ 1 \in DOMAIN saved /\ saved[1] \in File \X AnyContent
  BY <1>2
<1> DEFINE f == saved[1][1]
<1>4. f \in File /\ \A g \in File : files'[g] = IF g = f THEN saved[1][2] ELSE files[g]
  BY <1>1, <1>2, <1>3 DEF FileTypes
<1>5. CASE ServerOf(f) # w
  BY <1>4, <1>5, OwnFiles
<1>6. ASSUME NEW g \in File, ServerOf(g) = w PROVE g \notin touched /\ Original(g)
  BY <1>2, <1>6 DEF TouchedReloaded, BackedUp
<1>7. ServerOf(f) = w => files'[f] = before[f]
  BY <1>3, <1>4, <1>6 DEF Original
<1>8. CASE f = Format(w)
  <2>1. w # "nginx"
    BY <1>3, <1>8 DEF FormatPending
  <2>2. \A s \in Sites : files'[Vhost(s)] = files[Vhost(s)]
    BY <1>4, <1>8, FileNames, Apart
  <2> QED BY <2>1, <2>2, StillValid
<1>9. ASSUME w = "nginx", files[Format(w)] = None, f # Format(w)
      PROVE  SendsOf(before, w) = {} /\ Sends(w) = {}
  <2>1. before[Format(w)] = None
    <3>1. Original(Format(w)) /\ \A i \in DOMAIN saved : saved[i][1] # Format(w)
      BY <1>6, <1>9, FileNames, Servers DEF FormatPending
    <3> QED BY <1>9, <3>1 DEF Original
  <2> QED BY <1>9, <2>1 DEF Valid, Accepts, Sends
<1>10. ASSUME NEW s \in Sites, Kind(s) = w, f = Vhost(s) \/ f = Extension(s)
       PROVE  Valid(w)'
  <2>1. /\ ~Touched(s) /\ ExtensionOnce(s) /\ VhostFirst(s)
        /\ Original(Vhost(s)) /\ Original(Extension(s))
        /\ Vhost(s) \in File /\ Extension(s) \in File /\ ServerOf(f) = w
    BY <1>2, <1>6, <1>10, FileNames, Servers DEF Touched, Order, SiteOrder
  <2>2. /\ \A r \in Sites : r # s => /\ files'[Vhost(r)] = files[Vhost(r)]
                                     /\ files'[Extension(r)] = files[Extension(r)]
        /\ files'[Format(w)] = files[Format(w)] /\ f # Format(w)
    BY <1>4, <1>10, FileNames, Apart
  <2>3. \A r \in Sites : Kind(r) = w /\ files'[Vhost(r)] # None =>
            files'[Vhost(r)].shape # "broken"
    <3>1. files'[Vhost(s)] \in {files[Vhost(s)], before[Vhost(s)]}
      BY <1>4, <1>7, <2>1
    <3> QED BY <1>10, <2>2, <3>1 DEF Valid, Accepts
  <2>4. CASE w = "nginx" /\ files[Format(w)] = None
    <3>1. SendsOf(before, w) = {} /\ Sends(w) = {}
      BY <1>9, <2>2, <2>4
    <3>2. /\ files[Extension(s)] \in Ids \cup {None}
          /\ before[Extension(s)] = files'[Extension(s)] \/ f # Extension(s)
      BY <1>1, <1>7, <2>1, Contents DEF FileTypes
    <3>3. /\ files[Vhost(s)] # None /\ files[Vhost(s)].include # "none"
               => files[Extension(s)] = None
      BY <1>10, <3>1, <3>2, SendsNothing DEF Sends
    <3>4. before[Vhost(s)] # None /\ before[Vhost(s)].include # "none"
               => before[Extension(s)] \notin Ids
      BY <1>10, <3>1, SendsNothing
    <3>7. before[Extension(s)] \in Ids \cup {None}
      <4>1. CASE \E i \in DOMAIN saved : saved[i][1] = Extension(s)
        BY <1>1, <2>1, <4>1, Contents DEF Original, SavedTypes
      <4>2. CASE \A i \in DOMAIN saved : saved[i][1] # Extension(s)
        BY <2>1, <3>2, <4>2 DEF Original
      <4> QED BY <4>1, <4>2
    <3>5. files'[Vhost(s)] # None /\ files'[Vhost(s)].include # "none"
               => files'[Extension(s)] \notin Ids
      <4>1. CASE f = Vhost(s)
        <5>1. /\ files'[Vhost(s)] = before[Vhost(s)] /\ files'[Extension(s)] = files[Extension(s)]
              /\ IsSaved(Vhost(s))
          BY <1>3, <1>4, <1>7, <2>1, <4>1, Apart DEF IsSaved
        <5>2. ASSUME before[Extension(s)] \notin Ids, before[Vhost(s)] # None,
                     before[Vhost(s)].include # "none"
              PROVE  files[Extension(s)] \notin Ids
          <6>1. before[Extension(s)] = None
            BY <3>7, <5>2
          <6> QED BY <2>1, <5>1, <5>2, <6>1 DEF ExtensionOnce, Ids
        <5> QED BY <3>4, <5>1, <5>2
      <4>2. CASE f = Extension(s)
        <5>1. /\ files'[Extension(s)] = before[Extension(s)] /\ files'[Vhost(s)] = files[Vhost(s)]
          BY <1>4, <1>7, <2>1, <4>2, Apart
        <5>2. ~IsSaved(Vhost(s))
          <6> SUFFICES ASSUME NEW i \in DOMAIN saved, saved[i][1] = Vhost(s) PROVE FALSE
            BY DEF IsSaved
          <6>1. i < 1
            BY <1>3, <2>1, <4>2 DEF VhostFirst
          <6> QED BY <1>2, <6>1
        <5>3. files[Vhost(s)] = before[Vhost(s)]
          BY <2>1, <5>2 DEF Original, IsSaved
        <5> QED BY <3>4, <5>1, <5>3
      <4> QED BY <1>10, <4>1, <4>2
    <3>6. Sends(w)' = {}
      <4>1. \A r \in Sites : Kind(r) = w /\ files'[Vhost(r)] # None
                              /\ files'[Vhost(r)].include # "none"
                                => files'[Extension(r)] \notin Ids
        BY <2>2, <3>1, <3>5, SendsNothing DEF Sends
      <4> QED BY <4>1, SendsNothing DEF Sends
    <3> QED BY <2>3, <3>6 DEF Valid, Accepts, Sends
  <2>5. CASE w = "nginx" => files[Format(w)] # None
    BY <2>2, <2>3, <2>5 DEF Valid, Accepts
  <2> QED BY <2>4, <2>5
<1>11. \/ f = Format(w) \/ ServerOf(f) # w
       \/ \E s \in Sites : Kind(s) = w /\ (f = Vhost(s) \/ f = Extension(s))
  BY <1>4, FileNames, Servers
<1> QED BY <1>5, <1>8, <1>10, <1>11

(* What else happens meanwhile writes no file of a server it leaves alone. *)
LEMMA RestoringLeaves ==
    ASSUME TypeInv, [Next]_vars, pc = "restore", ~RestoreFile, faults' = faults,
           NEW w \in Server \ reloaded', Valid(w)
    PROVE  Valid(w)'
<1>1. FileTypes /\ faults \in Nat
  BY ConfigAssumption DEF TypeInv, WorldTypes
<1>2. CASE OthersWrite
  <2>1. PICK s \in Sites :
             /\ reloaded' = reloaded \cup {Kind(s)}
             /\ \A f \in File : f # Vhost(s) => files'[f] = files[f]
    BY <1>1, <1>2, OthersLeave
  <2>2. \A f \in File : ServerOf(f) = w => f # Vhost(s)
    BY <2>1, Servers
  <2> QED BY <2>1, <2>2, OwnFiles
<1>3. CASE UNCHANGED files
  BY <1>3, OwnFiles
<1>4. CASE UNCHANGED vars \/ \E v \in Server : PanelReload(v)
  BY <1>3, <1>4 DEF vars, PanelReload
<1>5. CASE ConfigureAll
  <2>1. UNCHANGED files
    BY <1>1, <1>5 DEF ConfigureAll, Begin, WriteFormat, FormatsWritten, ReadVhost, WriteVhost,
       TornVhost, WriteExtension, SitesWritten, CleanFile, CleanDone, TestAndReload, Succeed,
       Restored, Raises, Kill, Uninstall, Install
  <2> QED BY <1>3, <2>1
<1> QED BY <1>1, <1>2, <1>4, <1>5, Steps

-----------------------------------------------------------------------------
ConfigInv ==
    /\ TypeInv /\ BackedUp /\ RollbackRestores /\ SiteInv /\ SuccessMeansConfigured
    /\ ReloadInv /\ Order

LEMMA InitInv == Init => ConfigInv
<1> SUFFICES ASSUME Init PROVE ConfigInv
  OBVIOUS
<1> USE ConfigAssumption
<1>1. FileTypes
  BY DEF Init, FileTypes
<1>2. SavedTypes
  BY DEF Init, SavedTypes
<1>3. WorldTypes /\ RunTypes /\ RunShape
  <2>1. panel = [s \in Sites |-> None] /\ known = panel /\ panel \in [Sites -> Ids \cup {None}]
    BY DEF Init
  <2>2. loaded \in [Server -> SUBSET (Sites \X Ids)]
    BY DEF Init
  <2>3. WorldTypes
    BY <2>1, <2>2 DEF Init, WorldTypes
  <2>4. RunTypes
    BY <2>1 DEF Init, RunTypes, Phases
  <2>5. RunShape
    BY DEF Init, RunShape
  <2> QED BY <2>3, <2>4, <2>5
<1>4. BackedUp /\ RollbackRestores
  BY DEF Init, BackedUp, RollbackRestores
<1>5. SiteInv
  BY DEF Init, SiteInv, FormatsThere, VhostRead, VhostWritten, SitesDone, AllClean, Working,
     Visiting
<1>6. SuccessMeansConfigured
  BY DEF Init, SuccessMeansConfigured
<1>7. ReloadInv
  BY DEF Init, ReloadInv, TouchedReloaded, ChangesKnown, Loads
<1>8. Order
  BY DEF Init, Order, StrippedFirst
<1> QED BY <1>1, <1>2, <1>3, <1>4, <1>5, <1>6, <1>7, <1>8 DEF ConfigInv, TypeInv

LEMMA StepInv == ConfigInv /\ [Next]_vars => ConfigInv'
  BY TypeStep, BackupStep, RollbackStep, SiteStep, SuccessStep, ReloadStep, OrderStep
  DEF ConfigInv

(* The inductive invariant: the originals of all changed files are saved,  *)
(* each site a run is done with is configured or cleaned, and each server  *)
(* whose files differ is known to be changed.                              *)
THEOREM ConfigInvariant == Spec => []ConfigInv
  BY InitInv, StepInv, PTL DEF Spec

(* The files, the originals and the state of a run keep their types.       *)
THEOREM TypeCorrect == Spec => []TypeOK
<1>1. ConfigInv => TypeOK
  BY TypeParts DEF ConfigInv
<1> QED BY <1>1, ConfigInvariant, PTL

(* A run that failed left every file that nobody else wrote as it found    *)
(* it, whichever step failed and whatever others wrote meanwhile.          *)
THEOREM Rollback == Spec => []RollbackRestores
<1>1. ConfigInv => RollbackRestores
  BY DEF ConfigInv
<1> QED BY <1>1, ConfigInvariant, PTL

(* A run that succeeded left the sites it knows configured and no trace of *)
(* the others.                                                             *)
THEOREM SuccessConfigures == Spec => []SuccessMeansConfigured
<1>1. ConfigInv => SuccessMeansConfigured
  BY DEF ConfigInv
<1> QED BY <1>1, ConfigInvariant, PTL

(* A run that succeeded has every server it changed serve what it wrote.   *)
THEOREM SuccessServes == Spec => []SuccessReloads
<1>1. ConfigInv => SuccessReloads
  BY LoadsMeansReloads DEF ConfigInv, ReloadInv
<1> QED BY <1>1, ConfigInvariant, PTL

(* Neither a write nor the rollback of a run makes a server reject a       *)
(* configuration it accepted, in whatever order the sites come; the two    *)
(* exceptions are a write that fails halfway and the rollback of the nginx *)
(* format.                                                                 *)
THEOREM WritesKeepValid == Spec => StepsKeepValid
<1> DEFINE Keeps(w) ==
        /\ Valid(w)
        /\ pc = "restore" => Accepts(w, before) /\ (w = "nginx" => ~FormatPending)
        => Valid(w)'
<1>1. ASSUME ConfigInv, [Next]_vars, pc # "idle", faults' = faults, NEW w \in Server \ reloaded'
      PROVE  Keeps(w)
  <2>1. CASE pc # "restore"
    BY <1>1, <2>1, ValidStep DEF ConfigInv, ReloadInv
  <2>2. CASE pc = "restore" /\ RestoreFile
    BY <1>1, <2>2, RestoreValid DEF ConfigInv, ReloadInv
  <2>3. CASE pc = "restore" /\ ~RestoreFile
    BY <1>1, <2>3, RestoringLeaves DEF ConfigInv
  <2> QED BY <2>1, <2>2, <2>3
<1>2. ASSUME ConfigInv, [Next]_vars
      PROVE  [pc # "idle" /\ faults' = faults => \A w \in Server \ reloaded' : Keeps(w)]_vars
  BY <1>1, <1>2
<1> QED BY <1>2, ConfigInvariant, PTL DEF Spec, StepsKeepValid

=============================================================================
