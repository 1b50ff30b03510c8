---------------------------- MODULE LibraryProofs ----------------------------
(***************************************************************************)
(* Proofs about the components of MCLibrary, for any sets of contents,     *)
(* disks, snapshots, shards, versions, templates and hooks: the types of   *)
(* all of them, and what each of them promises.                            *)
(*                                                                         *)
(* Every component has an inductive invariant of its own, in the order of  *)
(* MCLibrary; the last part puts them together.  Sharing's is that of      *)
(* SharingProofs.                                                          *)
(***************************************************************************)
EXTENDS MCLibrary, SharingProofs, FiniteSetTheorems, SequenceTheorems, WellFoundedInduction,
        TLAPS

-----------------------------------------------------------------------------
(* Templates: a builder that is alone with a content answers for its image, *)
(* and what it has made is what the phase it is in cleans up after.         *)

Parts == {"dir", "tag", "container", "mountpoint", "mount"}
ImageStates == {"absent", "raw", "empty", "partial", "whole"}
Early == {"docker", "container", "allocate", "format", "mount", "export"}
Late == {"install", "unmount", "clean"}

BuildRec == [pc : Early \cup Late \cup {"idle"}, content : Contents \cup {"none"},
             made : SUBSET Parts, exported : BOOLEAN]

\* What a build has made when it comes to a phase, if nothing went wrong unanswered.
MadeBy(pc) ==
    CASE pc = "idle" -> {}
      [] pc = "docker" -> {"dir"}
      [] pc = "container" -> {"dir", "tag"}
      [] pc \in {"allocate", "format", "clean"} -> {"dir", "tag", "container"}
      [] pc = "mount" -> {"dir", "tag", "container", "mountpoint"}
      [] OTHER -> Parts

AtPhase(k, n) ==
    /\ k.pc # "idle" => k.content \in Contents
    /\ k.pc \in Early => k.exported
    /\ k.made \subseteq MadeBy(k.pc) \/ n > 0

\* The image of a build that is through with an export that succeeded.
Answers(k, img) == k.pc \in Late /\ k.exported => img[k.content] = "whole"

\* From the second command on a build there is an image, of some sort.
HasImage(k, img) == k.pc \in Late \cup {"format", "mount", "export"} => img[k.content] # "absent"

\* The contents whose image the code does not answer for.
Exempt == doubted \cup doubled

\* Nobody rebuilds what a record still has the image of.
Rebuilds(k, rec, out, ex) == k.pc # "idle" /\ k.content \in rec => k.content \in out \cup ex

TemplatesInv ==
    /\ recorded \subseteq Contents /\ doubted \subseteq Contents
    /\ doubled \subseteq Contents /\ outlived \subseteq Contents
    /\ image \in [Contents -> ImageStates]
    /\ build \in [Builders -> BuildRec]
    /\ mishaps \in 0 .. BuildFaults
    /\ left # {} => mishaps > 0
    /\ \A b \in Builders : AtPhase(build[b], mishaps) /\ HasImage(build[b], image)
    /\ \A b, d \in Builders :
          build[b].pc # "idle" /\ build[d].pc # "idle" /\ build[b].content = build[d].content =>
              b = d \/ build[b].content \in doubled
    /\ \A b \in Builders : build[b].content \notin Exempt => Answers(build[b], image)
    /\ \A b \in Builders : Rebuilds(build[b], recorded, outlived, Exempt)
    /\ \A c \in recorded : image[c] = "absent" => c \in outlived
    /\ \A c \in recorded \ (Exempt \cup outlived) : image[c] = "whole"

LEMMA TemplatesInitially == TemplatesInit => TemplatesInv
<1> SUFFICES ASSUME TemplatesInit PROVE TemplatesInv
  OBVIOUS
<1>1. \A b \in Builders : build[b] = NoBuild
  BY DEF TemplatesInit
<1>2. NoBuild \in BuildRec
  BY DEF NoBuild, BuildRec
<1>3. /\ recorded = {} /\ doubted = {} /\ doubled = {} /\ outlived = {} /\ left = {}
      /\ mishaps = 0
      /\ image \in [Contents -> ImageStates] /\ build \in [Builders -> BuildRec]
      /\ mishaps \in 0 .. BuildFaults
  BY <1>2, TemplateAssumption DEF TemplatesInit, ImageStates
<1>4. /\ AtPhase(NoBuild, 0) /\ NoBuild.pc = "idle" /\ Answers(NoBuild, image)
      /\ HasImage(NoBuild, image) /\ \A ex : Rebuilds(NoBuild, recorded, outlived, ex)
  BY DEF NoBuild, AtPhase, MadeBy, Answers, HasImage, Rebuilds, Early, Late
<1> QED BY <1>1, <1>3, <1>4 DEF TemplatesInv

\* What the invariant says of the properties.
LEMMA TemplatesImplied == TemplatesInv => TemplatesTypeOK /\ TemplatesSound
<1> SUFFICES ASSUME TemplatesInv PROVE TemplatesTypeOK /\ TemplatesSound
  OBVIOUS
<1>1. DOMAIN After = {"docker", "container", "allocate", "format", "mount", "export"}
  BY DEF After
<1>2. TemplatesTypeOK
  BY <1>1 DEF TemplatesInv, TemplatesTypeOK, BuildRec, Early, Late, ImageStates
<1>3. TemplatesSound
  BY DEF TemplatesInv, TemplatesSound, Exempt
<1> QED BY <1>2, <1>3

\* A step of one builder, whose build is of c before it, and of c or over after it,
\* and publishes the record of c or leaves the records alone.
LEMMA BuilderStep ==
    ASSUME TemplatesInv, NEW b \in Builders, NEW c, c = build[b].content, build[b].pc # "idle",
           NEW k \in BuildRec, k.pc = "idle" \/ k.content = c,
           build' = [build EXCEPT ![b] = k],
           NEW i \in ImageStates, image' = [image EXCEPT ![c] = i],
           i = "absent" => image[c] = "absent",
           doubted \subseteq doubted', doubted' \subseteq doubted \cup {c}, doubled' = doubled,
           \/ recorded' = recorded /\ outlived' = outlived
           \/ /\ recorded' = recorded \cup {c} /\ outlived' = outlived \ {c}
              /\ k.pc = "idle" /\ i # "absent" /\ (c \notin Exempt' => i = "whole"),
           mishaps' \in 0 .. BuildFaults, mishaps <= mishaps',
           left' # {} => mishaps' > 0,
           AtPhase(k, mishaps'), HasImage(k, [image EXCEPT ![c] = i]),
           c \notin Exempt' => Answers(k, [image EXCEPT ![c] = i])
    PROVE  TemplatesInv'
<1>0. c \in Contents
  BY DEF TemplatesInv, AtPhase
<1>1. /\ recorded' \subseteq Contents /\ doubted' \subseteq Contents
      /\ doubled' \subseteq Contents /\ outlived' \subseteq Contents
      /\ image' \in [Contents -> ImageStates] /\ build' \in [Builders -> BuildRec]
  BY <1>0 DEF TemplatesInv
<1>2. \A d \in Builders : build'[d] = IF d = b THEN k ELSE build[d]
  BY DEF TemplatesInv
<1>3. \A e \in Contents : image'[e] = IF e = c THEN i ELSE image[e]
  BY DEF TemplatesInv
<1>x. Exempt \subseteq Exempt' /\ Exempt' \subseteq Exempt \cup {c}
  BY DEF Exempt
<1>4. ASSUME NEW d \in Builders PROVE AtPhase(build'[d], mishaps') /\ HasImage(build'[d], image')
  <2>1. mishaps \in Int /\ mishaps' \in Int
    BY DEF TemplatesInv
  <2>2. AtPhase(build[d], mishaps) /\ HasImage(build[d], image)
    BY DEF TemplatesInv
  <2>3. AtPhase(build'[d], mishaps')
    BY <1>2, <2>1, <2>2 DEF AtPhase
  <2>4. CASE d = b
    BY <2>3, <2>4, <1>2
  <2>5. CASE d # b
    <3>1. build[d].pc # "idle" => build[d].content \in Contents
      BY <2>2 DEF AtPhase
    <3>2. HasImage(build[d], image')
      BY <2>2, <3>1, <1>3 DEF HasImage, Late
    <3> QED BY <2>3, <2>5, <3>2, <1>2
  <2> QED BY <2>4, <2>5
\* Another builder of c doubles it.
<1>5. ASSUME NEW d \in Builders, d # b, build[d].pc # "idle", c \notin doubled
      PROVE  build[d].content # c
  BY <1>5 DEF TemplatesInv
<1>6. ASSUME NEW d \in Builders, NEW e \in Builders, build'[d].pc # "idle", build'[e].pc # "idle",
             build'[d].content = build'[e].content
      PROVE  d = e \/ build'[d].content \in doubled'
  <2>1. CASE d # b /\ e # b
    BY <2>1, <1>2, <1>6 DEF TemplatesInv
  <2>2. CASE d = b /\ e # b
    BY <2>2, <1>2, <1>5, <1>6
  <2>3. CASE d # b /\ e = b
    BY <2>3, <1>2, <1>5, <1>6
  <2> QED BY <2>1, <2>2, <2>3
<1>7. ASSUME NEW d \in Builders, build'[d].content \notin Exempt'
      PROVE  Answers(build'[d], image')
  <2>1. CASE d = b
    <3>1. CASE k.pc = "idle"
      BY <3>1, <2>1, <1>2 DEF Answers, Late
    <3>2. CASE k.content = c
      BY <3>2, <2>1, <1>2, <1>7
    <3> QED BY <3>1, <3>2
  <2>2. CASE d # b /\ build[d].pc # "idle"
    <3>1. build'[d] = build[d] /\ build[d].content \notin Exempt
      BY <2>2, <1>2, <1>7, <1>x
    <3>2. build[d].content \in Contents /\ build[d].content # c
      <4>1. CASE build[d].content = c
        BY <4>1, <2>2, <1>5, <3>1 DEF Exempt
      <4> QED BY <4>1, <2>2 DEF TemplatesInv, AtPhase
    <3>3. image'[build[d].content] = image[build[d].content]
      BY <3>2, <1>3
    <3>5. Answers(build[d], image)
      BY <3>1 DEF TemplatesInv
    <3> QED BY <3>1, <3>3, <3>5 DEF Answers
  <2>3. CASE d # b /\ build[d].pc = "idle"
    BY <2>3, <1>2 DEF Answers, Late
  <2> QED BY <2>1, <2>2, <2>3
<1>8. ASSUME NEW d \in Builders
      PROVE  Rebuilds(build'[d], recorded', outlived', Exempt')
  <2>0. Rebuilds(build[d], recorded, outlived, Exempt) /\ Rebuilds(build[b], recorded, outlived, Exempt)
    BY DEF TemplatesInv
  <2>1. CASE d = b
    BY <2>0, <2>1, <1>2, <1>x DEF Rebuilds
  <2>2. CASE d # b /\ recorded' = recorded /\ outlived' = outlived
    BY <2>0, <2>2, <1>2, <1>x DEF Rebuilds
  <2>3. CASE d # b /\ recorded' = recorded \cup {c} /\ outlived' = outlived \ {c}
    <3>1. build[d].pc # "idle" /\ build[d].content = c => c \in Exempt
      BY <2>3, <1>5 DEF Exempt
    <3> QED BY <2>0, <2>3, <3>1, <1>2, <1>x DEF Rebuilds
  <2> QED BY <2>1, <2>2, <2>3
<1>9. ASSUME NEW e \in recorded'
      PROVE  /\ image'[e] = "absent" => e \in outlived'
             /\ e \notin Exempt' \cup outlived' => image'[e] = "whole"
  <2>0. e \in Contents
    BY <1>1
  <2>1. CASE e # c
    BY <2>0, <2>1, <1>3, <1>x DEF TemplatesInv
  <2>2. CASE e = c /\ recorded' = recorded /\ outlived' = outlived
    <3>1. c \in outlived \cup Exempt
      BY <2>2, <1>9 DEF TemplatesInv, Rebuilds
    <3> QED BY <2>0, <2>2, <3>1, <1>3, <1>x, <1>9 DEF TemplatesInv
  <2>3. CASE e = c /\ i # "absent" /\ (c \notin Exempt' => i = "whole")
    BY <2>0, <2>3, <1>3
  <2> QED BY <2>1, <2>2, <2>3
<1> QED BY <1>1, <1>4, <1>6, <1>7, <1>8, <1>9 DEF TemplatesInv

LEMMA MishapCounts ==
    ASSUME TemplatesInv, NEW c, Mishap(c)
    PROVE  mishaps' \in 0 .. BuildFaults /\ mishaps <= mishaps' /\ mishaps' > 0
BY TemplateAssumption DEF TemplatesInv, Mishap

LEMMA CreateTemplateStep ==
    ASSUME TemplatesInv, NEW b \in Builders, NEW c \in Contents, CreateTemplate(b, c)
    PROVE  TemplatesInv'
<1> DEFINE k == [NoBuild EXCEPT !.pc = "docker", !.content = c, !.made = {"dir"}]
<1>1. /\ build[b].pc = "idle" /\ build' = [build EXCEPT ![b] = k]
      /\ c \notin recorded \/ image[c] = "absent"
      /\ doubled' = IF Building(c) THEN doubled \cup {c} ELSE doubled \ {c}
      /\ recorded' = recorded /\ image' = image /\ left' = left /\ mishaps' = mishaps
      /\ doubted' = doubted /\ outlived' = outlived
  BY DEF CreateTemplate
<1>2. k \in BuildRec /\ k.pc = "docker" /\ k.content = c /\ k.made = {"dir"} /\ k.exported = TRUE
  BY DEF NoBuild, BuildRec, Early, Parts
<1> HIDE DEF k
<1>3. /\ recorded' \subseteq Contents /\ doubted' \subseteq Contents
      /\ doubled' \subseteq Contents /\ outlived' \subseteq Contents
      /\ image' \in [Contents -> ImageStates] /\ build' \in [Builders -> BuildRec]
      /\ mishaps' \in 0 .. BuildFaults /\ (left' # {} => mishaps' > 0)
  BY <1>1, <1>2 DEF TemplatesInv
<1>4. \A d \in Builders : build'[d] = IF d = b THEN k ELSE build[d]
  BY <1>1 DEF TemplatesInv
<1>x. \A e : e # c => (e \in Exempt' <=> e \in Exempt)
  BY <1>1 DEF Exempt
<1>5. ASSUME NEW d \in Builders PROVE AtPhase(build'[d], mishaps') /\ HasImage(build'[d], image')
  <2>1. AtPhase(k, mishaps') /\ HasImage(k, image')
    BY <1>2 DEF AtPhase, HasImage, MadeBy, Early, Late
  <2> QED BY <2>1, <1>1, <1>4 DEF TemplatesInv
<1>6. ASSUME NEW d \in Builders, d # b, build[d].pc # "idle", build[d].content = c
      PROVE  c \in doubled'
  BY <1>1, <1>6 DEF Building
<1>7. ASSUME NEW d \in Builders, NEW e \in Builders, build'[d].pc # "idle", build'[e].pc # "idle",
             build'[d].content = build'[e].content
      PROVE  d = e \/ build'[d].content \in doubled'
  <2>1. CASE d # b /\ e # b
    BY <2>1, <1>1, <1>4, <1>6, <1>7 DEF TemplatesInv
  <2>2. CASE d = b /\ e # b
    BY <2>2, <1>2, <1>4, <1>6, <1>7
  <2>3. CASE d # b /\ e = b
    BY <2>3, <1>2, <1>4, <1>6, <1>7
  <2> QED BY <2>1, <2>2, <2>3
<1>8. ASSUME NEW d \in Builders, build'[d].content \notin Exempt'
      PROVE  Answers(build'[d], image')
  <2>1. CASE d = b
    BY <2>1, <1>2, <1>4 DEF Answers, Late
  <2>2. CASE d # b /\ build[d].pc = "idle"
    BY <2>2, <1>4 DEF Answers, Late
  <2>3. CASE d # b /\ build[d].pc # "idle"
    <3>1. build[d].content # c
      BY <2>3, <1>4, <1>6, <1>8 DEF Exempt
    <3> QED BY <2>3, <3>1, <1>1, <1>4, <1>8, <1>x DEF TemplatesInv
  <2> QED BY <2>1, <2>2, <2>3
<1>9. ASSUME NEW d \in Builders
      PROVE  Rebuilds(build'[d], recorded', outlived', Exempt')
  <2>1. c \in recorded => c \in outlived
    BY <1>1 DEF TemplatesInv
  <2>2. CASE d = b
    BY <2>1, <2>2, <1>1, <1>2, <1>4 DEF Rebuilds
  <2>3. CASE d # b
    <3>1. Rebuilds(build[d], recorded, outlived, Exempt)
      BY DEF TemplatesInv
    <3> QED BY <2>1, <2>3, <3>1, <1>1, <1>4, <1>x DEF Rebuilds
  <2> QED BY <2>2, <2>3
<1>10. ASSUME NEW e \in recorded'
       PROVE  /\ image'[e] = "absent" => e \in outlived'
              /\ e \notin Exempt' \cup outlived' => image'[e] = "whole"
  BY <1>1, <1>x, <1>10 DEF TemplatesInv
<1> QED BY <1>3, <1>5, <1>7, <1>8, <1>9, <1>10 DEF TemplatesInv

\* The commands, and what a build has made after and cleans up.
LEMMA Commands ==
    ASSUME NEW p \in DOMAIN After
    PROVE  /\ p \in Early /\ After[p] \in Early \cup {"install"}
           /\ (After[p] = "install") = (p = "export")
           /\ Makes[p] \subseteq Parts
           /\ MadeBy(p) \cup Makes[p] \cup (IF p = "format" THEN {"mountpoint"} ELSE {})
                \subseteq MadeBy(After[p])
           /\ p \in DOMAIN Cleans => MadeBy(p) \subseteq Cleans[p] /\ p # "export"
           /\ p \in DOMAIN Written => Written[p] \in ImageStates \ {"absent"}
           /\ After[p] \in {"install", "format", "mount", "export"} =>
                 p \in DOMAIN Written \cup {"mount"}
           /\ p = "export" => p \in DOMAIN Written /\ Written[p] = "whole"
           /\ p \in DOMAIN Spoiled => Spoiled[p] \subseteq ImageStates \ {"absent"}
<1>1. DOMAIN After = {"docker", "container", "allocate", "format", "mount", "export"}
  BY DEF After
<1>2. DOMAIN Cleans = {"docker", "container", "allocate", "format", "mount"}
  BY DEF Cleans
<1>3. DOMAIN Written = {"allocate", "format", "export"} /\ DOMAIN Spoiled = DOMAIN Written
  BY DEF Written, Spoiled
<1>4. CASE p = "docker"
  BY <1>2, <1>3, <1>4 DEF After, Makes, MadeBy, Cleans, Early, Parts
<1>5. CASE p = "container"
  BY <1>2, <1>3, <1>5 DEF After, Makes, MadeBy, Cleans, Early, Parts
<1>6. CASE p = "allocate"
  BY <1>2, <1>3, <1>6 DEF After, Makes, MadeBy, Cleans, Early, Parts, Written, Spoiled, ImageStates
<1>7. CASE p = "format"
  BY <1>2, <1>3, <1>7 DEF After, Makes, MadeBy, Cleans, Early, Parts, Written, Spoiled, ImageStates
<1>8. CASE p = "mount"
  BY <1>2, <1>3, <1>8 DEF After, Makes, MadeBy, Cleans, Early, Parts
<1>9. CASE p = "export"
  BY <1>2, <1>3, <1>9 DEF After, Makes, MadeBy, Cleans, Early, Parts, Written, Spoiled, ImageStates
<1> QED BY <1>1, <1>4, <1>5, <1>6, <1>7, <1>8, <1>9

\* What is known of a builder that is at work.
LEMMA AtWork ==
    ASSUME TemplatesInv, NEW b \in Builders, build[b].pc # "idle"
    PROVE  /\ build[b] \in BuildRec /\ AtPhase(build[b], mishaps)
           /\ build[b].content \in Contents /\ image[build[b].content] \in ImageStates
           /\ image = [image EXCEPT ![build[b].content] = image[build[b].content]]
           /\ HasImage(build[b], image)
           /\ build[b].content \notin Exempt => Answers(build[b], image)
           /\ mishaps \in 0 .. BuildFaults /\ mishaps <= mishaps /\ (left # {} => mishaps > 0)
BY DEF TemplatesInv, AtPhase

LEMMA RunCommandStep ==
    ASSUME TemplatesInv, NEW b \in Builders, NEW p \in DOMAIN After, RunCommand(b, p)
    PROVE  TemplatesInv'
<1> DEFINE c == build[b].content
           made == build[b].made \cup Makes[p] \cup (IF p = "format" THEN {"mountpoint"} ELSE {})
           k == [build[b] EXCEPT !.pc = After[p], !.made = made]
           i == IF p \in DOMAIN Written THEN Written[p] ELSE image[c]
<1>1. /\ build[b].pc = p /\ build' = [build EXCEPT ![b] = k]
      /\ image' = IF p \in DOMAIN Written THEN [image EXCEPT ![c] = Written[p]] ELSE image
      /\ recorded' = recorded /\ left' = left /\ mishaps' = mishaps
      /\ doubted' = doubted /\ doubled' = doubled /\ outlived' = outlived
  BY DEF RunCommand, templateHistory
<1>2. build[b].pc \in Early /\ build[b].pc # "idle"
  BY <1>1, Commands DEF Early
<1>3. /\ build[b] \in BuildRec /\ AtPhase(build[b], mishaps) /\ HasImage(build[b], image)
      /\ c \in Contents /\ image[c] \in ImageStates
      /\ image = [image EXCEPT ![c] = image[c]]
      /\ mishaps \in 0 .. BuildFaults /\ mishaps <= mishaps /\ (left # {} => mishaps > 0)
  BY <1>2, AtWork
<1>4. /\ image' = [image EXCEPT ![c] = i] /\ i \in ImageStates
      /\ i = "absent" => image[c] = "absent"
  BY <1>1, <1>3, Commands
<1>5. /\ k \in BuildRec /\ k.pc = After[p] /\ k.content = c /\ k.made = made
      /\ k.exported = build[b].exported /\ k.pc # "idle"
  BY <1>3, Commands DEF BuildRec, Parts, Early, Late
<1>6. build[b].exported
  BY <1>2, <1>3 DEF AtPhase
<1>7. AtPhase(k, mishaps)
  <2>1. build[b].made \subseteq MadeBy(p) \/ mishaps > 0
    BY <1>1, <1>3 DEF AtPhase
  <2>2. made \subseteq MadeBy(After[p]) \/ mishaps > 0
    BY <2>1, Commands
  <2> QED BY <2>2, <1>3, <1>5, <1>6 DEF AtPhase
<1>x. HasImage(k, [image EXCEPT ![c] = i])
  <2>1. [image EXCEPT ![c] = i][c] = i
    BY <1>3 DEF TemplatesInv
  <2>2. CASE p \in DOMAIN Written
    BY <2>1, <2>2, <1>5, Commands DEF HasImage
  <2>3. CASE p \notin DOMAIN Written
    <3>1. k.pc \in Late \cup {"format", "mount", "export"} => p = "mount"
      BY <2>3, <1>5, Commands DEF Early, Late
    <3>2. i = image[c]
      BY <2>3
    <3> QED BY <2>1, <3>1, <3>2, <1>1, <1>3, <1>5 DEF HasImage
  <2> QED BY <2>2, <2>3
<1>8. Answers(k, [image EXCEPT ![c] = i])
  <2>1. CASE p = "export"
    <3>1. i = "whole"
      BY <2>1, Commands
    <3>2. [image EXCEPT ![c] = i][c] = i
      BY <1>3 DEF TemplatesInv
    <3> QED BY <3>1, <3>2, <1>5, <1>6 DEF Answers
  <2>2. CASE p # "export"
    <3>1. k.pc \in Early
      BY <2>2, <1>5, Commands
    <3> QED BY <3>1 DEF Answers, Early, Late
  <2> QED BY <2>1, <2>2
<1> HIDE DEF c, made, k, i
<1>9. /\ doubted \subseteq doubted' /\ doubted' \subseteq doubted \cup {c} /\ doubled' = doubled
      /\ recorded' = recorded /\ outlived' = outlived
      /\ mishaps' \in 0 .. BuildFaults /\ mishaps <= mishaps' /\ (left' # {} => mishaps' > 0)
      /\ AtPhase(k, mishaps') /\ HasImage(k, [image EXCEPT ![c] = i])
      /\ Answers(k, [image EXCEPT ![c] = i])
  BY <1>1, <1>3, <1>7, <1>8, <1>x
<1>10. c = build[b].content
  BY DEF c
<1> QED BY <1>1, <1>2, <1>4, <1>5, <1>9, <1>10, BuilderStep

LEMMA Ended ==
    ASSUME NEW n
    PROVE  /\ NoBuild \in BuildRec /\ NoBuild.pc = "idle" /\ AtPhase(NoBuild, n)
           /\ \A img : Answers(NoBuild, img) /\ HasImage(NoBuild, img)
BY DEF NoBuild, BuildRec, AtPhase, MadeBy, Answers, HasImage, Early, Late

LEMMA CommandFailsStep ==
    ASSUME TemplatesInv, NEW b \in Builders, NEW p \in DOMAIN After, CommandFails(b, p)
    PROVE  TemplatesInv'
<1> DEFINE c == build[b].content
<1>1. /\ p \in DOMAIN Cleans /\ build[b].pc = p /\ build' = [build EXCEPT ![b] = NoBuild]
      /\ left' = left \cup (build[b].made \ Cleans[p])
      /\ doubted' = doubted /\ doubled' = doubled /\ outlived' = outlived
      /\ recorded' = recorded /\ mishaps' = mishaps
  BY DEF CommandFails, EndBuild, templateHistory
<1>2. build[b].pc # "idle"
  BY <1>1, Commands DEF Early
<1>3. /\ build[b] \in BuildRec /\ AtPhase(build[b], mishaps)
      /\ c \in Contents /\ image[c] \in ImageStates
      /\ mishaps \in 0 .. BuildFaults /\ mishaps <= mishaps /\ (left # {} => mishaps > 0)
  BY <1>2, AtWork
<1>4. PICK i \in (IF p \in DOMAIN Spoiled THEN Spoiled[p] ELSE {image[c]}) :
          image' = [image EXCEPT ![c] = i]
  BY DEF CommandFails
<1>5. i \in ImageStates /\ (i = "absent" => image[c] = "absent")
  BY <1>3, <1>4, Commands
<1>6. left' # {} => mishaps' > 0
  <2>1. build[b].made \subseteq MadeBy(p) \/ mishaps > 0
    BY <1>1, <1>3 DEF AtPhase
  <2>2. MadeBy(p) \subseteq Cleans[p]
    BY <1>1, Commands
  <2> QED BY <2>1, <2>2, <1>1, <1>3
<1>7. /\ doubted \subseteq doubted' /\ doubted' \subseteq doubted \cup {c}
      /\ mishaps' \in 0 .. BuildFaults /\ mishaps <= mishaps'
  BY <1>1, <1>3
<1> QED BY <1>1, <1>2, <1>4, <1>5, <1>6, <1>7, Ended, BuilderStep

LEMMA ExportFailsStep ==
    ASSUME TemplatesInv, NEW b \in Builders, ExportFails(b)
    PROVE  TemplatesInv'
<1> DEFINE c == build[b].content
<1>1. /\ build[b].pc = "export" /\ build[b].pc # "idle" /\ recorded' = recorded /\ left' = left
      /\ doubled' = doubled /\ outlived' = outlived
      /\ \/ /\ build' = [build EXCEPT ![b].pc = "install", ![b].exported = FALSE]
            /\ doubted' = doubted /\ mishaps' = mishaps
         \/ build' = [build EXCEPT ![b].pc = "install"] /\ Mishap(c)
  BY DEF ExportFails
<1>2. /\ build[b] \in BuildRec /\ AtPhase(build[b], mishaps)
      /\ c \in Contents
      /\ mishaps \in 0 .. BuildFaults /\ mishaps <= mishaps /\ (left # {} => mishaps > 0)
  BY <1>1, AtWork
<1>3. PICK i \in Spoiled["export"] : image' = [image EXCEPT ![c] = i]
  BY DEF ExportFails
<1>4. i \in ImageStates /\ i # "absent" /\ [image EXCEPT ![c] = i][c] = i
  BY <1>2, <1>3 DEF Spoiled, ImageStates, TemplatesInv
<1>5. CASE /\ build' = [build EXCEPT ![b].pc = "install", ![b].exported = FALSE]
           /\ doubted' = doubted /\ mishaps' = mishaps
  <2> DEFINE k == [build[b] EXCEPT !.pc = "install", !.exported = FALSE]
  <2>1. build' = [build EXCEPT ![b] = k]
    BY <1>5
  <2>2. k \in BuildRec /\ k.pc = "install" /\ k.content = c /\ k.exported = FALSE
    BY <1>2 DEF BuildRec, Late
  <2> HIDE DEF k
  <2>3. AtPhase(k, mishaps')
    BY <1>2, <2>2 DEF AtPhase, MadeBy, BuildRec, Early
  <2>4. Answers(k, [image EXCEPT ![c] = i]) /\ HasImage(k, [image EXCEPT ![c] = i])
    BY <1>4, <2>2 DEF Answers, HasImage
  <2> QED BY <1>1, <1>2, <1>3, <1>4, <1>5, <2>1, <2>2, <2>3, <2>4, BuilderStep
<1>6. CASE build' = [build EXCEPT ![b].pc = "install"] /\ Mishap(c)
  <2> DEFINE k == [build[b] EXCEPT !.pc = "install"]
  <2>1. build' = [build EXCEPT ![b] = k]
    BY <1>6
  <2>2. k \in BuildRec /\ k.pc = "install" /\ k.content = c
    BY <1>2 DEF BuildRec, Late
  <2> HIDE DEF k
  <2>3. mishaps' \in 0 .. BuildFaults /\ mishaps <= mishaps' /\ mishaps' > 0
        /\ doubted' = doubted \cup {c}
    BY <1>6, MishapCounts DEF Mishap
  <2>4. AtPhase(k, mishaps') /\ HasImage(k, [image EXCEPT ![c] = i]) /\ c \in Exempt'
    BY <1>2, <1>4, <2>2, <2>3 DEF AtPhase, HasImage, Early, Exempt
  <2> QED BY <1>1, <1>2, <1>3, <1>4, <2>1, <2>2, <2>3, <2>4, BuilderStep
<1> QED BY <1>1, <1>5, <1>6

LEMMA InstallStep ==
    ASSUME TemplatesInv, NEW b \in Builders, Install(b)
    PROVE  TemplatesInv'
<1> DEFINE c == build[b].content
           k == [build[b] EXCEPT !.pc = "unmount"]
<1>1. /\ build[b].pc = "install" /\ build[b].pc # "idle" /\ build' = [build EXCEPT ![b] = k]
      /\ recorded' = recorded /\ left' = left /\ doubled' = doubled /\ outlived' = outlived
      /\ \/ image' = image /\ doubted' = doubted /\ mishaps' = mishaps
         \/ image' = [image EXCEPT ![c] = "partial"] /\ Mishap(c)
  BY DEF Install
<1>2. /\ build[b] \in BuildRec /\ AtPhase(build[b], mishaps)
      /\ c \in Contents /\ image[c] \in ImageStates
      /\ image = [image EXCEPT ![c] = image[c]]
      /\ HasImage(build[b], image) /\ (c \notin Exempt => Answers(build[b], image))
      /\ mishaps \in 0 .. BuildFaults /\ mishaps <= mishaps /\ (left # {} => mishaps > 0)
  BY <1>1, AtWork
<1>3. /\ k \in BuildRec /\ k.pc = "unmount" /\ k.content = c /\ k.made = build[b].made
      /\ k.exported = build[b].exported
  BY <1>2 DEF BuildRec, Late
<1> HIDE DEF k
<1>4. \A n : AtPhase(k, n)
  BY <1>2, <1>3 DEF AtPhase, MadeBy, BuildRec, Early
<1>5. CASE image' = image /\ doubted' = doubted /\ mishaps' = mishaps
  <2>6. PICK i \in ImageStates : i = image[c]
    BY <1>2
  <2>7. image' = [image EXCEPT ![c] = i] /\ (i = "absent" => image[c] = "absent")
    BY <1>2, <1>5, <2>6
  <2>8. /\ HasImage(k, [image EXCEPT ![c] = i])
        /\ c \notin Exempt' => Answers(k, [image EXCEPT ![c] = i])
    BY <1>1, <1>2, <1>5, <2>6, <1>3 DEF Answers, HasImage, Late, Exempt
  <2>9. /\ doubted \subseteq doubted' /\ doubted' \subseteq doubted \cup {c}
        /\ recorded' = recorded /\ outlived' = outlived /\ doubled' = doubled
        /\ mishaps' \in 0 .. BuildFaults /\ mishaps <= mishaps' /\ (left' # {} => mishaps' > 0)
        /\ AtPhase(k, mishaps') /\ k.pc # "idle" /\ k \in BuildRec /\ k.content = c
        /\ build[b].pc # "idle" /\ build' = [build EXCEPT ![b] = k]
    BY <1>1, <1>2, <1>3, <1>4, <1>5
  <2>10. c = build[b].content
    OBVIOUS
  <2> HIDE DEF c
  <2> QED BY <2>7, <2>8, <2>9, <2>10, BuilderStep
<1>6. CASE image' = [image EXCEPT ![c] = "partial"] /\ Mishap(c)
  <2>1. mishaps' \in 0 .. BuildFaults /\ mishaps <= mishaps' /\ mishaps' > 0
        /\ doubted' = doubted \cup {c}
    BY <1>6, MishapCounts DEF Mishap
  <2>2. /\ "partial" \in ImageStates /\ c \in Exempt'
        /\ HasImage(k, [image EXCEPT ![c] = "partial"])
    BY <1>2, <1>3, <2>1 DEF ImageStates, Exempt, HasImage, TemplatesInv
  <2> QED BY <1>1, <1>2, <1>3, <1>4, <1>6, <2>1, <2>2, BuilderStep
<1> QED BY <1>1, <1>5, <1>6

LEMMA UnmountStep ==
    ASSUME TemplatesInv, NEW b \in Builders, Unmount(b)
    PROVE  TemplatesInv'
<1> DEFINE c == build[b].content
<1>1. /\ build[b].pc = "unmount" /\ build[b].pc # "idle" /\ recorded' = recorded /\ left' = left
      /\ doubled' = doubled /\ outlived' = outlived
      /\ \/ /\ build' = [build EXCEPT ![b].pc = "clean", ![b].made = @ \ {"mount", "mountpoint"}]
            /\ image' = image /\ doubted' = doubted /\ mishaps' = mishaps
         \/ /\ build' = [build EXCEPT ![b].pc = "clean"]
            /\ \E i \in {image[c], "partial"} : image' = [image EXCEPT ![c] = i]
            /\ Mishap(c)
  BY DEF Unmount
<1>2. /\ build[b] \in BuildRec /\ AtPhase(build[b], mishaps)
      /\ c \in Contents /\ image[c] \in ImageStates
      /\ image = [image EXCEPT ![c] = image[c]]
      /\ HasImage(build[b], image) /\ (c \notin Exempt => Answers(build[b], image))
      /\ mishaps \in 0 .. BuildFaults /\ mishaps <= mishaps /\ (left # {} => mishaps > 0)
  BY <1>1, AtWork
<1>3. CASE /\ build' = [build EXCEPT ![b].pc = "clean", ![b].made = @ \ {"mount", "mountpoint"}]
           /\ image' = image /\ doubted' = doubted /\ mishaps' = mishaps
  <2> DEFINE made == build[b].made \ {"mount", "mountpoint"}
             k == [build[b] EXCEPT !.pc = "clean", !.made = made]
  <2>1. build' = [build EXCEPT ![b] = k]
    BY <1>3
  <2>2. /\ k \in BuildRec /\ k.pc = "clean" /\ k.content = c /\ k.made = made
        /\ k.exported = build[b].exported
    BY <1>2 DEF BuildRec, Late
  <2>3. made \subseteq {"dir", "tag", "container"}
    BY <1>2 DEF BuildRec, Parts
  <2> HIDE DEF k, made
  <2>4. AtPhase(k, mishaps')
    BY <1>2, <2>2, <2>3 DEF AtPhase, MadeBy, Early
  <2>6. PICK i \in ImageStates : i = image[c]
    BY <1>2
  <2>7. image' = [image EXCEPT ![c] = i] /\ (i = "absent" => image[c] = "absent")
    BY <1>2, <1>3, <2>6
  <2>8. /\ HasImage(k, [image EXCEPT ![c] = i])
        /\ c \notin Exempt' => Answers(k, [image EXCEPT ![c] = i])
    BY <1>1, <1>2, <1>3, <2>2, <2>6 DEF Answers, HasImage, Late, Exempt
  <2>9. /\ doubted \subseteq doubted' /\ doubted' \subseteq doubted \cup {c}
        /\ recorded' = recorded /\ outlived' = outlived /\ doubled' = doubled
        /\ mishaps' \in 0 .. BuildFaults /\ mishaps <= mishaps' /\ (left' # {} => mishaps' > 0)
        /\ AtPhase(k, mishaps') /\ k.pc # "idle" /\ k \in BuildRec /\ k.content = c
        /\ build[b].pc # "idle" /\ build' = [build EXCEPT ![b] = k]
    BY <1>1, <1>2, <1>3, <2>1, <2>2, <2>4
  <2>10. c = build[b].content
    OBVIOUS
  <2> HIDE DEF c
  <2> QED BY <2>7, <2>8, <2>9, <2>10, BuilderStep
<1>4. CASE /\ build' = [build EXCEPT ![b].pc = "clean"]
           /\ \E i \in {image[c], "partial"} : image' = [image EXCEPT ![c] = i]
           /\ Mishap(c)
  <2> DEFINE k == [build[b] EXCEPT !.pc = "clean"]
  <2>1. build' = [build EXCEPT ![b] = k]
    BY <1>4
  <2>2. k \in BuildRec /\ k.pc = "clean" /\ k.content = c
    BY <1>2 DEF BuildRec, Late
  <2> HIDE DEF k
  <2>3. PICK i \in {image[c], "partial"} : image' = [image EXCEPT ![c] = i]
    BY <1>4
  <2>4. /\ i \in ImageStates /\ i # "absent" /\ [image EXCEPT ![c] = i][c] = i
    BY <1>1, <1>2, <2>3 DEF ImageStates, HasImage, Late, TemplatesInv
  <2>5. mishaps' \in 0 .. BuildFaults /\ mishaps <= mishaps' /\ mishaps' > 0
        /\ doubted' = doubted \cup {c}
    BY <1>4, MishapCounts DEF Mishap
  <2>6. AtPhase(k, mishaps') /\ HasImage(k, [image EXCEPT ![c] = i]) /\ c \in Exempt'
    BY <1>2, <2>2, <2>4, <2>5 DEF AtPhase, HasImage, Early, Exempt
  <2> QED BY <1>1, <1>2, <2>1, <2>2, <2>3, <2>4, <2>5, <2>6, BuilderStep
<1> QED BY <1>1, <1>3, <1>4

LEMMA PublishStep ==
    ASSUME TemplatesInv, NEW b \in Builders, Publish(b)
    PROVE  TemplatesInv'
<1> DEFINE c == build[b].content
<1>1. /\ build[b].pc = "clean" /\ build[b].pc # "idle" /\ build' = [build EXCEPT ![b] = NoBuild]
      /\ left' = left \cup (build[b].made \ Cleans["format"])
      /\ image' = image /\ doubted' = doubted /\ doubled' = doubled /\ mishaps' = mishaps
      /\ IF build[b].exported
           THEN recorded' = recorded \cup {c} /\ outlived' = outlived \ {c}
           ELSE recorded' = recorded /\ outlived' = outlived
  BY DEF Publish, EndBuild
<1>2. /\ build[b] \in BuildRec /\ AtPhase(build[b], mishaps)
      /\ c \in Contents /\ image[c] \in ImageStates
      /\ image = [image EXCEPT ![c] = image[c]]
      /\ HasImage(build[b], image) /\ (c \notin Exempt => Answers(build[b], image))
      /\ mishaps \in 0 .. BuildFaults /\ mishaps <= mishaps /\ (left # {} => mishaps > 0)
  BY <1>1, AtWork
<1>3. left' # {} => mishaps' > 0
  <2>1. MadeBy("clean") \subseteq Cleans["format"]
    BY DEF MadeBy, Cleans
  <2> QED BY <2>1, <1>1, <1>2 DEF AtPhase
<1>4. PICK i \in ImageStates : i = image[c]
  BY <1>2
<1>5. image' = [image EXCEPT ![c] = i] /\ (i = "absent" => image[c] = "absent")
  BY <1>1, <1>2, <1>4
<1>6. \/ recorded' = recorded /\ outlived' = outlived
      \/ /\ recorded' = recorded \cup {c} /\ outlived' = outlived \ {c}
         /\ NoBuild.pc = "idle" /\ i # "absent" /\ (c \notin Exempt' => i = "whole")
  BY <1>1, <1>2, <1>4, Ended DEF Answers, HasImage, Late, Exempt
<1>7. /\ doubted \subseteq doubted' /\ doubted' \subseteq doubted \cup {c} /\ doubled' = doubled
      /\ mishaps' \in 0 .. BuildFaults /\ mishaps <= mishaps'
      /\ build[b].pc # "idle" /\ build' = [build EXCEPT ![b] = NoBuild] /\ c = build[b].content
  BY <1>1, <1>2
<1> HIDE DEF c
<1> QED BY <1>3, <1>5, <1>6, <1>7, Ended, BuilderStep

LEMMA AbandonBuildStep ==
    ASSUME TemplatesInv, NEW b \in Builders, AbandonBuild(b)
    PROVE  TemplatesInv'
<1> DEFINE c == build[b].content
<1>1. /\ build[b].pc # "idle" /\ build' = [build EXCEPT ![b] = NoBuild] /\ Mishap(c)
      /\ recorded' = recorded /\ image' = image /\ doubled' = doubled /\ outlived' = outlived
  BY DEF AbandonBuild, EndBuild
<1>2. /\ image[c] \in ImageStates /\ image = [image EXCEPT ![c] = image[c]]
  BY <1>1, AtWork
<1>3. mishaps' \in 0 .. BuildFaults /\ mishaps <= mishaps' /\ mishaps' > 0
      /\ doubted' = doubted \cup {c}
  BY <1>1, MishapCounts DEF Mishap
<1> QED BY <1>1, <1>2, <1>3, Ended, BuilderStep

LEMMA DeleteTemplateStep ==
    ASSUME TemplatesInv, NEW c \in Contents, DeleteTemplate(c)
    PROVE  TemplatesInv'
<1>1. /\ recorded' = recorded \ {c} /\ outlived' = outlived \ {c}
      /\ image' = image /\ build' = build /\ left' = left /\ mishaps' = mishaps
      /\ doubted' = doubted /\ doubled' = doubled
  BY DEF DeleteTemplate
<1>2. ASSUME NEW b \in Builders PROVE Rebuilds(build[b], recorded', outlived', Exempt)
  BY <1>1 DEF TemplatesInv, Rebuilds
<1>3. Exempt' = Exempt
  BY <1>1 DEF Exempt
<1> QED BY <1>1, <1>2, <1>3 DEF TemplatesInv

LEMMA ImageVanishesStep ==
    ASSUME TemplatesInv, NEW c \in Contents, ImageVanishes(c)
    PROVE  TemplatesInv'
<1>1. /\ ~ Building(c) /\ image' = [image EXCEPT ![c] = "absent"]
      /\ outlived' = outlived \cup ({c} \cap recorded)
      /\ recorded' = recorded /\ build' = build /\ left' = left /\ mishaps' = mishaps
      /\ doubted' = doubted /\ doubled' = doubled
  BY DEF ImageVanishes
<1>2. \A e \in Contents : image'[e] = IF e = c THEN "absent" ELSE image[e]
  BY <1>1 DEF TemplatesInv
<1>3. ASSUME NEW b \in Builders
      PROVE  /\ HasImage(build[b], image')
             /\ build[b].content \notin Exempt => Answers(build[b], image')
             /\ Rebuilds(build[b], recorded, outlived', Exempt)
  <2>1. CASE build[b].pc = "idle"
    BY <2>1 DEF Answers, HasImage, Rebuilds, Late
  <2>2. CASE build[b].pc # "idle"
    <3>1. build[b].content # c /\ build[b].content \in Contents
      BY <1>1, <2>2 DEF Building, TemplatesInv, AtPhase
    <3> QED BY <3>1, <1>1, <1>2 DEF TemplatesInv, Answers, HasImage, Rebuilds
  <2> QED BY <2>1, <2>2
<1>4. Exempt' = Exempt
  BY <1>1 DEF Exempt
<1>5. image' \in [Contents -> ImageStates] /\ outlived' \subseteq Contents
  BY <1>1 DEF TemplatesInv, ImageStates
<1>6. ASSUME NEW e \in recorded'
      PROVE  /\ image'[e] = "absent" => e \in outlived'
             /\ e \notin Exempt \cup outlived' => image'[e] = "whole"
  BY <1>1, <1>2 DEF TemplatesInv
<1> QED BY <1>1, <1>3, <1>4, <1>5, <1>6 DEF TemplatesInv

LEMMA TemplatesPreserved ==
    ASSUME TemplatesInv, [TemplatesNext]_templateVars
    PROVE  TemplatesInv'
<1>1. CASE UNCHANGED templateVars
  <2>1. /\ recorded' = recorded /\ image' = image /\ build' = build /\ left' = left
        /\ mishaps' = mishaps /\ doubted' = doubted /\ doubled' = doubled /\ outlived' = outlived
        /\ Exempt' = Exempt
    BY <1>1 DEF templateVars, templateHistory, Exempt
  <2> QED BY <2>1 DEF TemplatesInv
<1> QED BY <1>1, CreateTemplateStep, RunCommandStep, CommandFailsStep, ExportFailsStep, InstallStep,
      UnmountStep, PublishStep, AbandonBuildStep, DeleteTemplateStep, ImageVanishesStep
      DEF TemplatesNext

-----------------------------------------------------------------------------
(* Disks: what could come to be a stray is somebody's failure already.      *)

VolumeRec == [image : BOOLEAN, meta : {"none", "torn", "good"}, used : BOOLEAN]
Holding == {"describe", "look", "remove"}
ClerkRec == [pc : Holding \cup {"idle", "unlist"}, volume : Volumes \cup {"none"}]

BusyClerks == {k \in Clerks : clerk[k].pc # "idle"}

\* Images that nobody holds who will describe or remove them, and disks nobody has.
Adrift == {v \in Volumes : /\ volume[v].image /\ volume[v].meta # "good"
                           /\ \A k \in Clerks : clerk[k].pc \in Holding => clerk[k].volume # v}
Unclaimed == {o \in Owners : disk[o] # {} /\ o \notin handed}

\* What a clerk that is at work knows of its volume.
Knows(k) ==
    clerk[k].pc # "idle" =>
        /\ clerk[k].volume \in Volumes /\ volume[clerk[k].volume].used
        /\ clerk[k].pc = "describe" => volume[clerk[k].volume].image
        /\ clerk[k].pc \in {"look", "remove"} => volume[clerk[k].volume].meta = "none"

DiskTypes ==
    /\ volume \in [Volumes -> VolumeRec]
    /\ clerk \in [Clerks -> ClerkRec]
    /\ disk \in [Owners -> SUBSET {"file", "dirs", "mount"}]
    /\ handed \subseteq Owners
    /\ breakages \in 0 .. DiskFaults

DisksInv ==
    /\ DiskTypes
    /\ IsFiniteSet(BusyClerks)
    /\ \A v \in Volumes : volume[v].meta # "none" => volume[v].image /\ volume[v].used
    /\ \A k \in Clerks : Knows(k)
    /\ \A k, l \in Clerks :
          /\ clerk[k].pc = "describe" /\ clerk[l].pc # "idle"
          /\ clerk[l].volume = clerk[k].volume
          => k = l
    /\ Cardinality(Adrift \cup Unclaimed) <= breakages

LEMMA DiskSetsFinite == IsFiniteSet(Adrift \cup Unclaimed) /\ Cardinality(Adrift \cup Unclaimed) \in Nat
<1>1. Adrift \cup Unclaimed \subseteq Volumes \cup Owners
  BY DEF Adrift, Unclaimed
<1>2. IsFiniteSet(Volumes \cup Owners)
  BY DiskAssumption, FS_Union
<1>3. IsFiniteSet(Adrift \cup Unclaimed)
  BY <1>1, <1>2, FS_Subset
<1> QED BY <1>3, FS_CardinalityType

\* A set grows by no more than what is added to it.
LEMMA GrowsBy ==
    ASSUME NEW P, NEW Q, NEW X, IsFiniteSet(P), IsFiniteSet(X), Q \subseteq P \cup X,
           NEW m \in Nat, NEW n \in Nat, Cardinality(P) <= m, Cardinality(X) <= n
    PROVE  Cardinality(Q) <= m + n
<1>1. IsFiniteSet(P \cup X) /\ Cardinality(P \cup X) = Cardinality(P) + Cardinality(X) - Cardinality(P \cap X)
  BY FS_Union
<1>2. IsFiniteSet(P \cap X)
  BY FS_Subset
<1>3. Cardinality(P) \in Nat /\ Cardinality(X) \in Nat /\ Cardinality(P \cap X) \in Nat
  BY <1>2, FS_CardinalityType
<1>4. IsFiniteSet(Q) /\ Cardinality(Q) <= Cardinality(P \cup X)
  BY <1>1, FS_Subset
<1>5. Cardinality(Q) \in Nat
  BY <1>4, FS_CardinalityType
<1> QED BY <1>1, <1>3, <1>4, <1>5

LEMMA DisksInitially == DisksInit => DisksInv
<1> SUFFICES ASSUME DisksInit PROVE DisksInv
  OBVIOUS
<1>1. DiskTypes
  BY DiskAssumption DEF DisksInit, DiskTypes, VolumeRec, ClerkRec, NoWork
<1>2. \A k \in Clerks : clerk[k].pc = "idle"
  BY DEF DisksInit, NoWork
<1>3. BusyClerks = {}
  BY <1>2 DEF BusyClerks
<1>4. \A v \in Volumes : volume[v].meta = "none" /\ ~ volume[v].image
  BY DEF DisksInit
<1>5. Adrift \cup Unclaimed = {}
  BY <1>4 DEF DisksInit, Adrift, Unclaimed
<1>6. Cardinality(Adrift \cup Unclaimed) <= breakages
  BY <1>5, FS_EmptySet DEF DisksInit
<1> QED BY <1>1, <1>2, <1>3, <1>4, <1>6, FS_EmptySet DEF DisksInv, Knows

LEMMA DisksImplied == DisksInv => DisksTypeOK /\ DisksAccountedFor
<1> SUFFICES ASSUME DisksInv PROVE DisksTypeOK /\ DisksAccountedFor
  OBVIOUS
<1>1. DisksTypeOK
  BY DEF DisksInv, DiskTypes, DisksTypeOK, VolumeRec, ClerkRec, Holding
<1>2. Strays \subseteq Adrift \cup Unclaimed
  BY DEF Strays, Adrift, Unclaimed
<1>3. Cardinality(Strays) <= Cardinality(Adrift \cup Unclaimed) /\ Cardinality(Strays) \in Nat
  BY <1>2, DiskSetsFinite, FS_Subset, FS_CardinalityType
<1>4. Cardinality(Strays) <= breakages
  BY <1>3, DiskSetsFinite DEF DisksInv, DiskTypes
<1> QED BY <1>1, <1>4 DEF DisksInv, DisksAccountedFor

\* A clerk leaves room for the others that are at work on its volume.
Suits(j, r, w) ==
    /\ r.pc # "describe"
    /\ j.pc = "describe" => w.image /\ r.pc = "idle"
    /\ j.pc \in {"look", "remove"} => w.meta = "none"

\* A step of one clerk, on one volume, which they leave as r and w.
ClerkMoves(k, v, r, w) ==
    /\ k \in Clerks /\ v \in Volumes /\ r \in ClerkRec /\ w \in VolumeRec
    /\ clerk' = [clerk EXCEPT ![k] = r] /\ volume' = [volume EXCEPT ![v] = w]
    /\ r.pc # "idle" => r.volume = v /\ w.used
    /\ clerk[k].pc # "idle" => clerk[k].volume = v
    /\ w.meta # "none" => w.image /\ w.used
    /\ volume[v].used => w.used
    /\ r.pc = "describe" => w.image
    /\ r.pc \in {"look", "remove"} => w.meta = "none"
    /\ \A l \in Clerks : l # k /\ clerk[l].pc # "idle" /\ clerk[l].volume = v =>
          Suits(clerk[l], r, w)
    /\ breakages' \in {breakages, breakages + 1} /\ breakages' \in 0 .. DiskFaults
    /\ \/ breakages' = breakages + 1
       \/ r.pc \in Holding
       \/ ~ (w.image /\ w.meta # "good")
       \/ w = volume[v] /\ clerk[k].pc \notin Holding
    /\ disk' = disk /\ handed' = handed

LEMMA ClerkStep ==
    ASSUME DisksInv, NEW k, NEW v, NEW r, NEW w, ClerkMoves(k, v, r, w)
    PROVE  DisksInv'
<1> USE DEF ClerkMoves
<1>1. /\ \A l \in Clerks : clerk'[l] = IF l = k THEN r ELSE clerk[l]
      /\ \A u \in Volumes : volume'[u] = IF u = v THEN w ELSE volume[u]
  BY DEF DisksInv, DiskTypes
<1>2. DiskTypes'
  BY DiskAssumption DEF DisksInv, DiskTypes
<1>3. IsFiniteSet(BusyClerks')
  <2>1. BusyClerks' \subseteq BusyClerks \cup {k}
    BY <1>1 DEF BusyClerks
  <2>2. IsFiniteSet(BusyClerks \cup {k})
    BY FS_AddElement DEF DisksInv
  <2> QED BY <2>1, <2>2, FS_Subset
<1>4. \A u \in Volumes : volume'[u].meta # "none" => volume'[u].image /\ volume'[u].used
  BY <1>1 DEF DisksInv
<1>5. ASSUME NEW l \in Clerks PROVE Knows(l)'
  <2>1. CASE l = k
    BY <2>1, <1>1 DEF Knows, Holding
  <2>2. CASE l # k /\ clerk[l].pc = "idle"
    BY <2>2, <1>1 DEF Knows
  <2>3. CASE l # k /\ clerk[l].pc # "idle"
    <3>1. clerk'[l] = clerk[l] /\ clerk[l].volume \in Volumes /\ Knows(l)
      BY <2>3, <1>1 DEF DisksInv, Knows
    <3>2. CASE clerk[l].volume = v
      <4>1. Suits(clerk[l], r, w)
        BY <2>3, <3>2
      <4> QED BY <2>3, <3>1, <3>2, <4>1, <1>1 DEF Knows, Suits
    <3>3. CASE clerk[l].volume # v
      BY <3>1, <3>3, <1>1 DEF Knows
    <3> QED BY <3>2, <3>3
  <2> QED BY <2>1, <2>2, <2>3
<1>6. ASSUME NEW l \in Clerks, NEW m \in Clerks, clerk'[l].pc = "describe", clerk'[m].pc # "idle",
             clerk'[m].volume = clerk'[l].volume
      PROVE  l = m
  <2>1. CASE l # k /\ m # k
    BY <2>1, <1>1, <1>6 DEF DisksInv
  <2>2. CASE l = k /\ m # k
    <3>1. clerk[m].pc # "idle" /\ clerk[m].volume = v /\ r.pc = "describe"
      BY <2>2, <1>1, <1>6
    <3> QED BY <3>1, <2>2 DEF Suits
  <2>3. CASE l # k /\ m = k
    <3>1. clerk[l].pc = "describe" /\ clerk[l].volume = v /\ r.pc # "idle"
      BY <2>3, <1>1, <1>6
    <3> QED BY <3>1, <2>3 DEF Suits
  <2> QED BY <2>1, <2>2, <2>3
<1>7. Cardinality((Adrift \cup Unclaimed)') <= breakages'
  <2>0. breakages \in Nat /\ breakages' \in Nat
    BY DiskAssumption DEF DisksInv, DiskTypes
  <2>00. PICK n \in {0, 1} : breakages' = breakages + n
    BY <2>0
  <2> DEFINE X == IF n = 1 THEN {v} ELSE {}
  <2>1. ASSUME NEW u \in Adrift' PROVE u \in Adrift \cup X
    <3>1. /\ u \in Volumes /\ volume'[u].image /\ volume'[u].meta # "good"
          /\ \A l \in Clerks : clerk'[l].pc \in Holding => clerk'[l].volume # u
      BY DEF Adrift
    <3>2. CASE u # v
      <4>1. \A l \in Clerks : clerk[l].pc \in Holding => clerk[l].volume # u
        BY <3>1, <3>2, <1>1 DEF Holding
      <4> QED BY <4>1, <3>1, <3>2, <1>1 DEF Adrift
    <3>3. CASE u = v /\ n = 0
      <4>1. w.image /\ w.meta # "good" /\ r.pc \notin Holding
        BY <3>1, <3>3, <1>1 DEF Holding
      <4>2. w = volume[v] /\ clerk[k].pc \notin Holding
        BY <4>1, <3>3, <2>0, <2>00
      <4>3. \A l \in Clerks : clerk[l].pc \in Holding => clerk[l].volume # v
        BY <4>2, <3>1, <3>3, <1>1
      <4> QED BY <4>1, <4>2, <4>3, <3>3 DEF Adrift
    <3> QED BY <3>2, <3>3
  <2>2. Unclaimed' = Unclaimed
    BY DEF Unclaimed
  <2>3. (Adrift \cup Unclaimed)' \subseteq (Adrift \cup Unclaimed) \cup X
    BY <2>1, <2>2
  <2>4. IsFiniteSet(X) /\ Cardinality(X) <= n
    <3>1. CASE n = 0
      BY <3>1, FS_EmptySet
    <3>2. CASE n = 1
      <4>1. X = {v} /\ IsFiniteSet({v}) /\ Cardinality({v}) = 1
        BY <3>2, FS_Singleton
      <4> QED BY <4>1, <3>2
    <3> QED BY <3>1, <3>2
  <2>5. breakages \in Nat /\ n \in Nat
    BY <2>0
  <2>6. Cardinality(Adrift \cup Unclaimed) <= breakages
    BY DEF DisksInv
  <2> HIDE DEF X
  <2> QED BY <2>00, <2>3, <2>4, <2>5, <2>6, DiskSetsFinite, GrowsBy
<1> QED BY <1>2, <1>3, <1>4, <1>5, <1>6, <1>7 DEF DisksInv

LEMMA DescribeStep ==
    ASSUME DisksInv, NEW k \in Clerks, Describe(k)
    PROVE  DisksInv'
<1> DEFINE v == clerk[k].volume
<1>1. /\ clerk[k].pc = "describe" /\ clerk' = [clerk EXCEPT ![k] = NoWork]
      /\ disk' = disk /\ handed' = handed
  BY DEF Describe, Done
<1>2. PICK m \in {"none", "torn", "good"} :
          /\ volume' = [volume EXCEPT ![v].meta = m]
          /\ breakages' \in {breakages, breakages + 1} /\ breakages' \in 0 .. DiskFaults
          /\ breakages' = breakages + 1 \/ m = "good"
  <2>1. breakages \in Nat /\ breakages <= DiskFaults /\ DiskFaults \in Nat
    BY DiskAssumption DEF DisksInv, DiskTypes
  <2> QED BY <2>1 DEF Describe, Break, Breaks
<1>3. v \in Volumes /\ volume[v] \in VolumeRec /\ volume[v].image /\ volume[v].used
  BY <1>1 DEF DisksInv, DiskTypes, Knows
<1>4. NoWork \in ClerkRec /\ NoWork.pc = "idle"
  BY DEF NoWork, ClerkRec
<1> DEFINE w == [volume[v] EXCEPT !.meta = m]
<1>5. volume' = [volume EXCEPT ![v] = w]
  BY <1>2
<1>6. w \in VolumeRec /\ w.meta = m /\ w.image /\ w.used
  BY <1>3 DEF VolumeRec
<1>7. ASSUME NEW l \in Clerks, l # k, clerk[l].pc # "idle", clerk[l].volume = v
      PROVE  FALSE
  BY <1>1, <1>7 DEF DisksInv
<1>8. NoWork.pc \notin Holding
  BY <1>4 DEF Holding
<1>9. v = clerk[k].volume
  OBVIOUS
<1> HIDE DEF v, w
<1>20. ClerkMoves(k, v, NoWork, w)
  BY <1>1, <1>2, <1>3, <1>4, <1>5, <1>6, <1>7, <1>9 DEF ClerkMoves
<1> QED BY <1>20, ClerkStep

LEMMA DetachStep ==
    ASSUME DisksInv, NEW k \in Clerks, NEW v \in Volumes, Detach(k, v)
    PROVE  DisksInv'
<1> DEFINE r == [pc |-> IF volume[v].meta # "none" THEN "unlist" ELSE "look", volume |-> v]
<1>1. /\ clerk[k].pc = "idle" /\ volume[v].used
      /\ \A l \in Clerks : clerk[l].volume = v => clerk[l].pc # "describe"
      /\ clerk' = [clerk EXCEPT ![k] = r]
      /\ volume' = volume /\ disk' = disk /\ handed' = handed /\ breakages' = breakages
  BY DEF Detach, Work
<1>2. /\ r \in ClerkRec /\ r.pc \in {"unlist", "look"} /\ r.volume = v
      /\ r.pc = "look" => volume[v].meta = "none"
  BY DEF ClerkRec, Holding
<1> HIDE DEF r
<1>3. PICK w \in VolumeRec : w = volume[v]
  BY DEF DisksInv, DiskTypes
<1>4. volume' = [volume EXCEPT ![v] = w]
  BY <1>1, <1>3 DEF DisksInv, DiskTypes
<1>5. ASSUME NEW l \in Clerks, l # k, clerk[l].pc # "idle", clerk[l].volume = v
      PROVE  Suits(clerk[l], r, w)
  BY <1>1, <1>2, <1>3, <1>5 DEF DisksInv, Knows, Suits
<1>6. /\ w.meta # "none" => w.image
      /\ breakages' = breakages /\ breakages' \in 0 .. DiskFaults
      /\ w = volume[v] /\ clerk[k].pc \notin Holding
      /\ w.used /\ r.pc # "describe" /\ (r.pc \in {"look", "remove"} => w.meta = "none")
  BY <1>1, <1>2, <1>3, DiskAssumption DEF DisksInv, DiskTypes, Holding
<1>20. ClerkMoves(k, v, r, w)
  BY <1>1, <1>2, <1>4, <1>5, <1>6 DEF ClerkMoves
<1> QED BY <1>20, ClerkStep

\* A clerk that removes a file, or finds that it is not there, or fails to.
RemoverMoves(k, v, r, w) ==
    /\ k \in Clerks /\ v = clerk[k].volume /\ clerk[k].pc \in {"unlist", "look", "remove"}
    /\ r \in ClerkRec /\ (r.pc # "idle" => r.pc \in {"look", "remove"} /\ r.volume = v)
    /\ w \in VolumeRec /\ w.used = volume[v].used /\ w.meta \in {"none", volume[v].meta}
    /\ r.pc # "idle" => w.meta = "none"
    /\ w.meta # "none" => w.image /\ w.used
    /\ clerk' = [clerk EXCEPT ![k] = r] /\ volume' = [volume EXCEPT ![v] = w]
    /\ breakages' \in {breakages, breakages + 1} /\ breakages' \in 0 .. DiskFaults
    /\ \/ breakages' = breakages + 1
       \/ r.pc \in Holding
       \/ ~ (w.image /\ w.meta # "good")
       \/ w = volume[v] /\ clerk[k].pc = "unlist"
    /\ disk' = disk /\ handed' = handed

LEMMA RemoverStep ==
    ASSUME DisksInv, NEW k, NEW v, NEW r, NEW w, RemoverMoves(k, v, r, w)
    PROVE  DisksInv'
<1>0. k \in Clerks /\ v = clerk[k].volume /\ clerk[k].pc \in {"unlist", "look", "remove"}
  BY DEF RemoverMoves
<1>1. v \in Volumes /\ volume[v].used /\ clerk[k].pc # "idle"
  BY <1>0 DEF DisksInv, Knows
<1>2. ASSUME NEW l \in Clerks, l # k, clerk[l].pc # "idle", clerk[l].volume = v
      PROVE  Suits(clerk[l], r, w)
  <2>1. clerk[l].pc # "describe"
    BY <1>0, <1>1, <1>2 DEF DisksInv
  <2>2. clerk[l].pc \in {"look", "remove"} => volume[v].meta = "none"
    BY <1>2 DEF DisksInv, Knows
  <2>3. r.pc # "describe" /\ w.meta \in {"none", volume[v].meta}
    BY DEF RemoverMoves
  <2> QED BY <2>1, <2>2, <2>3 DEF Suits
<1>3. clerk[k].pc = "unlist" => clerk[k].pc \notin Holding
  BY DEF Holding
<1>4. ClerkMoves(k, v, r, w)
  BY <1>1, <1>2, <1>3 DEF ClerkMoves, RemoverMoves
<1> QED BY <1>4, ClerkStep

LEMMA RemoverKnows ==
    ASSUME DisksInv, NEW k \in Clerks, clerk[k].pc # "idle"
    PROVE  /\ clerk[k].volume \in Volumes /\ volume[clerk[k].volume] \in VolumeRec
           /\ clerk[k].pc \in {"look", "remove"} => volume[clerk[k].volume].meta = "none"
           /\ volume[clerk[k].volume].used
           /\ volume[clerk[k].volume].meta # "none" => volume[clerk[k].volume].image
           /\ breakages \in 0 .. DiskFaults
           /\ breakages + 1 <= DiskFaults => breakages + 1 \in 0 .. DiskFaults
           /\ volume = [volume EXCEPT ![clerk[k].volume] = volume[clerk[k].volume]]
           /\ NoWork \in ClerkRec /\ NoWork.pc = "idle"
BY DiskAssumption DEF DisksInv, DiskTypes, Knows, NoWork, ClerkRec

LEMMA RemoveMetaStep ==
    ASSUME DisksInv, NEW k \in Clerks, RemoveMeta(k)
    PROVE  DisksInv'
<1>0. PICK v : v = clerk[k].volume
  OBVIOUS
<1>1. /\ clerk[k].pc = "unlist" /\ disk' = disk /\ handed' = handed
      /\ \/ /\ volume' = [volume EXCEPT ![v].meta = "none"]
            /\ clerk' = [clerk EXCEPT ![k] = [pc |-> "look", volume |-> v]]
            /\ breakages' = breakages
         \/ /\ clerk' = [clerk EXCEPT ![k] = NoWork]
            /\ volume' = volume /\ breakages' = breakages
         \/ /\ clerk' = [clerk EXCEPT ![k] = NoWork] /\ volume' = volume
            /\ breakages' = breakages + 1 /\ breakages + 1 <= DiskFaults
  BY <1>0 DEF RemoveMeta, Done, Work, Break, Breaks
<1>2. /\ v \in Volumes /\ volume[v] \in VolumeRec
      /\ volume[v].meta # "none" => volume[v].image /\ volume[v].used
      /\ breakages \in 0 .. DiskFaults
      /\ breakages + 1 <= DiskFaults => breakages + 1 \in 0 .. DiskFaults
      /\ volume = [volume EXCEPT ![v] = volume[v]]
      /\ NoWork \in ClerkRec /\ NoWork.pc = "idle"
  BY <1>0, <1>1, RemoverKnows
<1>3. CASE /\ volume' = [volume EXCEPT ![v].meta = "none"]
           /\ clerk' = [clerk EXCEPT ![k] = [pc |-> "look", volume |-> v]]
           /\ breakages' = breakages
  <2> DEFINE r == [pc |-> "look", volume |-> v]
             w == [volume[v] EXCEPT !.meta = "none"]
  <2>1. r \in ClerkRec /\ r.pc = "look" /\ r.volume = v /\ r.pc \in Holding
    BY <1>2 DEF ClerkRec, Holding
  <2>2. w \in VolumeRec /\ w.meta = "none" /\ w.used = volume[v].used
    BY <1>2 DEF VolumeRec
  <2>3. volume' = [volume EXCEPT ![v] = w] /\ clerk' = [clerk EXCEPT ![k] = r]
    BY <1>3
  <2> HIDE DEF r, w
  <2>20. RemoverMoves(k, v, r, w)
    BY <1>0, <1>1, <1>2, <1>3, <2>1, <2>2, <2>3 DEF RemoverMoves
  <2> QED BY <2>20, RemoverStep
<1>4. PICK w \in VolumeRec : w = volume[v]
  BY <1>2
<1>5. CASE /\ clerk' = [clerk EXCEPT ![k] = NoWork]
           /\ volume' = volume /\ breakages' = breakages
  <2>1. volume' = [volume EXCEPT ![v] = w]
    BY <1>2, <1>4, <1>5
  <2>20. RemoverMoves(k, v, NoWork, w)
    BY <1>0, <1>1, <1>2, <1>4, <1>5, <2>1 DEF RemoverMoves
  <2> QED BY <2>20, RemoverStep
<1>6. CASE /\ clerk' = [clerk EXCEPT ![k] = NoWork] /\ volume' = volume
           /\ breakages' = breakages + 1 /\ breakages + 1 <= DiskFaults
  <2>1. volume' = [volume EXCEPT ![v] = w]
    BY <1>2, <1>4, <1>6
  <2>20. RemoverMoves(k, v, NoWork, w)
    BY <1>0, <1>1, <1>2, <1>4, <1>6, <2>1 DEF RemoverMoves
  <2> QED BY <2>20, RemoverStep
<1> QED BY <1>1, <1>3, <1>5, <1>6

LEMMA LookForImageStep ==
    ASSUME DisksInv, NEW k \in Clerks, LookForImage(k)
    PROVE  DisksInv'
<1>0. PICK v : v = clerk[k].volume
  OBVIOUS
<1>1. /\ clerk[k].pc = "look" /\ disk' = disk /\ handed' = handed
      /\ volume' = volume /\ breakages' = breakages
      /\ clerk' = [clerk EXCEPT ![k] = IF volume[v].image THEN [pc |-> "remove", volume |-> v]
                                       ELSE NoWork]
  BY <1>0 DEF LookForImage, Done, Work
<1>2. /\ v \in Volumes /\ volume[v] \in VolumeRec /\ volume[v].meta = "none"
      /\ breakages \in 0 .. DiskFaults
      /\ breakages + 1 <= DiskFaults => breakages + 1 \in 0 .. DiskFaults
      /\ volume = [volume EXCEPT ![v] = volume[v]]
      /\ NoWork \in ClerkRec /\ NoWork.pc = "idle"
  BY <1>0, <1>1, RemoverKnows
<1>3. PICK w \in VolumeRec : w = volume[v]
  BY <1>2
<1>4. volume' = [volume EXCEPT ![v] = w]
  BY <1>1, <1>2, <1>3
<1>5. CASE w.image
  <2> DEFINE r == [pc |-> "remove", volume |-> v]
  <2>1. r \in ClerkRec /\ r.pc = "remove" /\ r.volume = v /\ r.pc \in Holding
    BY <1>2 DEF ClerkRec, Holding
  <2>2. clerk' = [clerk EXCEPT ![k] = r]
    BY <1>1, <1>3, <1>5
  <2> HIDE DEF r
  <2>20. RemoverMoves(k, v, r, w)
    BY <1>0, <1>1, <1>2, <1>3, <1>4, <2>1, <2>2 DEF RemoverMoves
  <2> QED BY <2>20, RemoverStep
<1>6. CASE ~ w.image
  <2>1. clerk' = [clerk EXCEPT ![k] = NoWork]
    BY <1>1, <1>3, <1>6
  <2>20. RemoverMoves(k, v, NoWork, w)
    BY <1>0, <1>1, <1>2, <1>3, <1>4, <1>6, <2>1 DEF RemoverMoves
  <2> QED BY <2>20, RemoverStep
<1> QED BY <1>5, <1>6

LEMMA RemoveImageStep ==
    ASSUME DisksInv, NEW k \in Clerks, RemoveImage(k)
    PROVE  DisksInv'
<1>0. PICK v : v = clerk[k].volume
  OBVIOUS
<1>1. /\ clerk[k].pc = "remove" /\ disk' = disk /\ handed' = handed
      /\ clerk' = [clerk EXCEPT ![k] = NoWork]
      /\ \/ volume' = [volume EXCEPT ![v].image = FALSE] /\ breakages' = breakages
         \/ /\ volume' = volume
            /\ breakages' = breakages + 1 /\ breakages + 1 <= DiskFaults
  BY <1>0 DEF RemoveImage, Done, Break, Breaks
<1>2. /\ v \in Volumes /\ volume[v] \in VolumeRec /\ volume[v].meta = "none"
      /\ breakages \in 0 .. DiskFaults
      /\ breakages + 1 <= DiskFaults => breakages + 1 \in 0 .. DiskFaults
      /\ volume = [volume EXCEPT ![v] = volume[v]]
      /\ NoWork \in ClerkRec /\ NoWork.pc = "idle"
  BY <1>0, <1>1, RemoverKnows
<1>3. CASE volume' = [volume EXCEPT ![v].image = FALSE] /\ breakages' = breakages
  <2> DEFINE w == [volume[v] EXCEPT !.image = FALSE]
  <2>1. w \in VolumeRec /\ w.meta = "none" /\ w.used = volume[v].used /\ ~ w.image
    BY <1>2 DEF VolumeRec
  <2>2. volume' = [volume EXCEPT ![v] = w]
    BY <1>3
  <2> HIDE DEF w
  <2>20. RemoverMoves(k, v, NoWork, w)
    BY <1>0, <1>1, <1>2, <1>3, <2>1, <2>2 DEF RemoverMoves
  <2> QED BY <2>20, RemoverStep
<1>4. CASE /\ volume' = volume
           /\ breakages' = breakages + 1 /\ breakages + 1 <= DiskFaults
  <2>1. PICK w \in VolumeRec : w = volume[v]
    BY <1>2
  <2>2. volume' = [volume EXCEPT ![v] = w]
    BY <1>2, <1>4, <2>1
  <2>20. RemoverMoves(k, v, NoWork, w)
    BY <1>0, <1>1, <1>2, <1>4, <2>1, <2>2 DEF RemoverMoves
  <2> QED BY <2>20, RemoverStep
<1> QED BY <1>1, <1>3, <1>4

LEMMA CreateVolumeStep ==
    ASSUME DisksInv, NEW k \in Clerks, NEW v \in Volumes, CreateVolume(k, v)
    PROVE  DisksInv'
<1>1. clerk[k].pc = "idle" /\ ~ volume[v].used /\ disk' = disk /\ handed' = handed
  BY DEF CreateVolume
<1>2. ASSUME NEW l \in Clerks, clerk[l].pc # "idle", clerk[l].volume = v PROVE FALSE
  BY <1>1, <1>2 DEF DisksInv, Knows
<1>3. volume[v] \in VolumeRec /\ breakages \in 0 .. DiskFaults /\ DiskFaults \in Nat
  BY DiskAssumption DEF DisksInv, DiskTypes
<1>4. PICK made \in BOOLEAN, r \in ClerkRec :
          /\ volume' = [volume EXCEPT ![v] = [volume[v] EXCEPT !.image = made, !.used = TRUE]]
          /\ clerk' = [clerk EXCEPT ![k] = r]
          /\ \/ /\ made /\ r.pc = "describe" /\ r.volume = v /\ breakages' = breakages
             \/ r.pc = "idle" /\ breakages' = breakages + 1 /\ breakages + 1 <= DiskFaults
  <2>1. \/ /\ volume' = [volume EXCEPT ![v] = [volume[v] EXCEPT !.image = TRUE, !.used = TRUE]]
           /\ clerk' = [clerk EXCEPT ![k] = [pc |-> "describe", volume |-> v]]
           /\ breakages' = breakages
        \/ /\ breakages' = breakages + 1 /\ breakages + 1 <= DiskFaults
           /\ \E made \in BOOLEAN : volume' = [volume EXCEPT ![v] =
                 [volume[v] EXCEPT !.image = made, !.used = TRUE]]
           /\ clerk' = clerk
    BY DEF CreateVolume, Work, Break, Breaks
  <2>2. [pc |-> "describe", volume |-> v] \in ClerkRec
    BY DEF ClerkRec, Holding
  <2>3. clerk[k] \in ClerkRec /\ clerk = [clerk EXCEPT ![k] = clerk[k]]
    BY DEF DisksInv, DiskTypes
  <2> QED BY <2>1, <2>2, <2>3, <1>1
<1> DEFINE w == [volume[v] EXCEPT !.image = made, !.used = TRUE]
<1>5. w \in VolumeRec /\ w.image = made /\ w.used /\ w.meta = volume[v].meta
  BY <1>3 DEF VolumeRec
<1>6. w.meta # "none" => volume[v].image
  BY <1>5 DEF DisksInv
<1>7. volume' = [volume EXCEPT ![v] = w]
  BY <1>4
<1> HIDE DEF w
<1>8. w.meta = "none"
  BY <1>1, <1>5 DEF DisksInv
<1>9. breakages' \in {breakages, breakages + 1} /\ breakages' \in 0 .. DiskFaults
  BY <1>3, <1>4
<1>10. ClerkMoves(k, v, r, w)
  BY <1>1, <1>2, <1>4, <1>5, <1>6, <1>7, <1>8, <1>9 DEF ClerkMoves, Holding
<1> QED BY <1>10, ClerkStep

LEMMA CrashClerksStep ==
    ASSUME DisksInv, CrashClerks
    PROVE  DisksInv'
<1> DEFINE n == Cardinality(BusyClerks)
<1>1. /\ breakages + n <= DiskFaults /\ breakages' = breakages + n
      /\ clerk' = [k \in Clerks |-> NoWork] /\ disk' = disk /\ handed' = handed
  BY DEF CrashClerks, Breaks, BusyClerks
<1>2. PICK torn \in SUBSET {clerk[k].volume : k \in {l \in Clerks : clerk[l].pc = "describe"}} :
          volume' = [v \in Volumes |-> IF v \in torn THEN [volume[v] EXCEPT !.meta = "torn"]
                                       ELSE volume[v]]
  BY DEF CrashClerks
<1>3. n \in Nat /\ breakages \in Nat /\ DiskFaults \in Nat
  BY DiskAssumption, FS_CardinalityType DEF DisksInv, DiskTypes
<1>4. ASSUME NEW v \in Volumes
      PROVE  /\ volume'[v] \in VolumeRec /\ volume'[v].image = volume[v].image
             /\ volume'[v].meta # "none" => volume'[v].image /\ volume'[v].used
             /\ volume'[v].meta # "good" => volume[v].meta # "good" \/ v \in torn
  <2>1. volume[v] \in VolumeRec /\ (volume[v].meta # "none" => volume[v].image /\ volume[v].used)
    BY DEF DisksInv, DiskTypes
  <2>2. CASE v \notin torn
    BY <1>2, <2>1, <2>2
  <2>3. CASE v \in torn
    <3>1. PICK k \in Clerks : clerk[k].pc = "describe" /\ clerk[k].volume = v
      BY <1>2, <2>3
    <3>2. volume[v].image /\ volume[v].used
      BY <3>1 DEF DisksInv, Knows
    <3>3. volume'[v] = [volume[v] EXCEPT !.meta = "torn"]
      BY <1>2, <2>3
    <3> QED BY <2>1, <2>3, <3>2, <3>3 DEF VolumeRec
  <2> QED BY <2>2, <2>3
<1>5. DiskTypes'
  <2>1. volume' \in [Volumes -> VolumeRec]
    BY <1>2, <1>4
  <2>2. clerk' \in [Clerks -> ClerkRec]
    BY <1>1 DEF ClerkRec, NoWork
  <2>3. breakages' \in 0 .. DiskFaults
    BY <1>1, <1>3
  <2> QED BY <1>1, <2>1, <2>2, <2>3 DEF DisksInv, DiskTypes
<1>6. \A k \in Clerks : clerk'[k].pc = "idle"
  BY <1>1 DEF NoWork
<1>7. IsFiniteSet(BusyClerks')
  <2>1. BusyClerks' = {}
    BY <1>6 DEF BusyClerks
  <2> QED BY <2>1, FS_EmptySet
<1>8. Cardinality((Adrift \cup Unclaimed)') <= breakages'
  <2> DEFINE X == {clerk[k].volume : k \in BusyClerks}
             f == [k \in BusyClerks |-> clerk[k].volume]
  <2>1. f \in Surjection(BusyClerks, X)
    BY DEF Surjection
  <2>2. IsFiniteSet(X) /\ Cardinality(X) <= n
    BY <2>1, FS_Surjection DEF DisksInv
  <2>3. ASSUME NEW v \in Adrift' PROVE v \in Adrift \cup X
    <3>1. v \in Volumes /\ volume'[v].image /\ volume'[v].meta # "good"
      BY DEF Adrift
    <3>2. CASE v \in torn
      BY <3>2, <1>2 DEF BusyClerks
    <3>3. CASE v \notin torn
      <4>1. volume[v].image /\ volume[v].meta # "good"
        BY <3>1, <3>3, <1>4
      <4>2. v \notin X => \A k \in Clerks : clerk[k].pc \in Holding => clerk[k].volume # v
        BY DEF BusyClerks, Holding
      <4> QED BY <3>1, <4>1, <4>2 DEF Adrift
    <3> QED BY <3>2, <3>3
  <2>4. Unclaimed' = Unclaimed
    BY <1>1 DEF Unclaimed
  <2>5. (Adrift \cup Unclaimed)' \subseteq (Adrift \cup Unclaimed) \cup X
    BY <2>3, <2>4
  <2>6. Cardinality(Adrift \cup Unclaimed) <= breakages
    BY DEF DisksInv
  <2> HIDE DEF X, f, n
  <2> QED BY <1>1, <1>3, <2>2, <2>5, <2>6, DiskSetsFinite, GrowsBy
<1> QED BY <1>4, <1>5, <1>6, <1>7, <1>8 DEF DisksInv, Knows

\* A step of one sandbox's disk, of which parts are left.
DiskMoves(o, parts) ==
    /\ o \in Owners /\ parts \subseteq {"file", "dirs", "mount"}
    /\ disk' = [disk EXCEPT ![o] = parts]
    /\ handed' \subseteq Owners /\ handed' \ {o} = handed \ {o}
    /\ breakages' \in {breakages, breakages + 1} /\ breakages' \in 0 .. DiskFaults
    /\ breakages' = breakages + 1 \/ parts = {} \/ o \in handed'
    /\ volume' = volume /\ clerk' = clerk

LEMMA DiskStep ==
    ASSUME DisksInv, NEW o, NEW parts, DiskMoves(o, parts)
    PROVE  DisksInv'
<1> USE DEF DiskMoves
<1>1. DiskTypes'
  BY DEF DisksInv, DiskTypes
<1>2. /\ BusyClerks' = BusyClerks /\ Adrift' = Adrift
      /\ \A k \in Clerks : Knows(k) => Knows(k)'
  BY DEF BusyClerks, Adrift, Knows
<1>3. breakages \in Nat /\ breakages' \in Nat
  BY DiskAssumption DEF DisksInv, DiskTypes
<1>4. \A e \in Owners : disk'[e] = IF e = o THEN parts ELSE disk[e]
  BY DEF DisksInv, DiskTypes
<1>5. \A e \in Unclaimed' : e \in Unclaimed \/ (e = o /\ breakages' = breakages + 1)
  BY <1>3, <1>4 DEF Unclaimed
<1>6. Cardinality((Adrift \cup Unclaimed)') <= breakages'
  <2>1. Cardinality(Adrift \cup Unclaimed) <= breakages
    BY DEF DisksInv
  <2>2. CASE breakages' = breakages
    <3>1. (Adrift \cup Unclaimed)' \subseteq (Adrift \cup Unclaimed) \cup {}
      BY <1>2, <1>3, <1>5, <2>2
    <3>2. IsFiniteSet({}) /\ Cardinality({}) <= 0 /\ 0 \in Nat /\ breakages' = breakages + 0
      BY <1>3, <2>2, FS_EmptySet
    <3> QED BY <1>3, <2>1, <3>1, <3>2, DiskSetsFinite, GrowsBy
  <2>3. CASE breakages' = breakages + 1
    <3>1. (Adrift \cup Unclaimed)' \subseteq (Adrift \cup Unclaimed) \cup {o}
      BY <1>2, <1>5
    <3>2. IsFiniteSet({o}) /\ Cardinality({o}) = 1
      BY FS_Singleton
    <3>21. Cardinality({o}) <= 1 /\ 1 \in Nat
      BY <3>2
    <3> QED BY <1>3, <2>1, <2>3, <3>1, <3>2, <3>21, DiskSetsFinite, GrowsBy
  <2> QED BY <2>2, <2>3
<1> QED BY <1>1, <1>2, <1>6 DEF DisksInv

LEMMA CreateDiskStep ==
    ASSUME DisksInv, NEW o \in Owners, CreateDisk(o)
    PROVE  DisksInv'
<1>1. /\ disk \in [Owners -> SUBSET {"file", "dirs", "mount"}] /\ handed \subseteq Owners
      /\ breakages \in 0 .. DiskFaults /\ DiskFaults \in Nat
      /\ disk = [disk EXCEPT ![o] = disk[o]]
  BY DiskAssumption DEF DisksInv, DiskTypes
<1>2. o \notin handed /\ volume' = volume /\ clerk' = clerk
  BY DEF CreateDisk
<1>3. CASE UNCHANGED <<disk, handed, breakages>>
  BY <1>2, <1>3 DEF DisksInv, DiskTypes, Knows, BusyClerks, Adrift, Unclaimed
<1>4. CASE /\ disk' = [disk EXCEPT ![o] = {"file"}] /\ handed' = handed \cup {o}
           /\ breakages' = breakages
  <2>1. DiskMoves(o, {"file"})
    BY <1>1, <1>2, <1>4 DEF DiskMoves
  <2> QED BY <2>1, DiskStep
<1>5. CASE /\ disk' = [disk EXCEPT ![o] = {"dirs", "mount"}] /\ handed' = handed \cup {o}
           /\ breakages' = breakages
  <2>1. DiskMoves(o, {"dirs", "mount"})
    BY <1>1, <1>2, <1>5 DEF DiskMoves
  <2> QED BY <2>1, DiskStep
<1>6. CASE /\ \E parts \in SUBSET {"file", "dirs", "mount"} : disk' = [disk EXCEPT ![o] = parts]
           /\ handed' = handed /\ breakages' = breakages + 1 /\ breakages + 1 <= DiskFaults
  <2>1. PICK parts \in SUBSET {"file", "dirs", "mount"} : disk' = [disk EXCEPT ![o] = parts]
    BY <1>6
  <2>2. breakages' \in 0 .. DiskFaults
    BY <1>1, <1>6
  <2>3. DiskMoves(o, parts)
    BY <1>1, <1>2, <1>6, <2>1, <2>2 DEF DiskMoves
  <2> QED BY <2>3, DiskStep
<1>7. /\ disk[o] \in SUBSET {"file", "dirs", "mount"}
      /\ disk[o] \cup {"dirs"} \in SUBSET {"file", "dirs", "mount"}
      /\ {"file"} \in SUBSET {"file", "dirs", "mount"}
  BY <1>1
<1> QED BY <1>3, <1>4, <1>5, <1>6, <1>7 DEF CreateDisk, Make, Break, Breaks

LEMMA DestroyDiskStep ==
    ASSUME DisksInv, NEW o \in Owners, DestroyDisk(o)
    PROVE  DisksInv'
<1>1. /\ disk \in [Owners -> SUBSET {"file", "dirs", "mount"}] /\ handed \subseteq Owners
      /\ breakages \in 0 .. DiskFaults /\ DiskFaults \in Nat
      /\ disk = [disk EXCEPT ![o] = disk[o]]
  BY DiskAssumption DEF DisksInv, DiskTypes
<1>2. o \in handed /\ volume' = volume /\ clerk' = clerk
  BY DEF DestroyDisk
<1>3. CASE /\ disk' = [disk EXCEPT ![o] = {}] /\ handed' = handed \ {o}
           /\ breakages' = breakages
  <2>1. DiskMoves(o, {})
    BY <1>1, <1>2, <1>3 DEF DiskMoves
  <2> QED BY <2>1, DiskStep
<1>4. CASE /\ \E parts \in SUBSET disk[o] : disk' = [disk EXCEPT ![o] = parts]
           /\ handed' \in {handed, handed \ {o}}
           /\ breakages' = breakages + 1 /\ breakages + 1 <= DiskFaults
  <2>1. PICK parts \in SUBSET {"file", "dirs", "mount"} : disk' = [disk EXCEPT ![o] = parts]
    BY <1>1, <1>4
  <2>2. breakages' \in 0 .. DiskFaults
    BY <1>1, <1>4
  <2>3. handed' \subseteq Owners /\ handed' \ {o} = handed \ {o}
    BY <1>1, <1>4
  <2>4. DiskMoves(o, parts)
    BY <1>1, <1>2, <1>4, <2>1, <2>2, <2>3 DEF DiskMoves
  <2> QED BY <2>4, DiskStep
<1>5. disk' = disk => \E parts \in SUBSET disk[o] : disk' = [disk EXCEPT ![o] = parts]
  BY <1>1
<1> QED BY <1>3, <1>4, <1>5 DEF DestroyDisk, Make, Break, Breaks

LEMMA DisksPreserved ==
    ASSUME DisksInv, [DisksNext]_diskVars
    PROVE  DisksInv'
<1>1. CASE UNCHANGED diskVars
  BY <1>1 DEF diskVars, DisksInv, DiskTypes, Knows, BusyClerks, Adrift, Unclaimed
<1> QED BY <1>1, CreateVolumeStep, DetachStep, DescribeStep, RemoveMetaStep, LookForImageStep,
      RemoveImageStep, CrashClerksStep, CreateDiskStep, DestroyDiskStep DEF DisksNext

-----------------------------------------------------------------------------
(* Sharding: the ring names nobody but who was registered, and what a route *)
(* has passed over was not there all the time.                              *)

Known == DOMAIN Points
RouterRec == [pc : {"idle", "resolve", "done"}, key : Shards, hash : Hashes \cup {0},
              next : Nat \ {0}, answer : Known \cup {<<>>}, steady : SUBSET Known,
              onRing : SUBSET Known, named : Known \cup {<<>>}]

OnRing(r) == {p[2] : p \in r}

\* Where a route stands.
Underway(k) ==
    /\ k.steady \subseteq registry /\ k.onRing \subseteq OnRing(ring)
    /\ \A i \in DOMAIN Asked(k.key) : i < k.next => Asked(k.key)[i] \notin k.steady

Answered(k) ==
    /\ \A i \in DOMAIN Asked(k.key) : Asked(k.key)[i] \in k.steady =>
           \E j \in 1 .. i : k.answer = Asked(k.key)[j]
    /\ k.answer = <<>> => k.onRing = {} \/ k.named \in deserted

Routed(k) == (k.pc = "resolve" => Underway(k)) /\ (k.pc = "done" => Answered(k))

ShardingInv ==
    /\ registry \subseteq Known /\ deserted \subseteq Known /\ shardOps \in 0 .. ShardChanges
    /\ fallback \in Known \cup {<<>>}
    /\ ring \subseteq Nat \X Known /\ (\A p \in ring : p[1] \in Points[p[2]])
    /\ OnRing(ring) \subseteq registry \cup deserted
    /\ \A g \in Registrars : registrar[g] # <<>> => registrar[g] \in registry \cup deserted
    /\ registrar \in [Registrars -> Known \cup {<<>>}]
    /\ router \in [Routers -> RouterRec]
    /\ \A t \in Routers : Routed(router[t])

LEMMA NoShard == <<>> \notin Known
<1>1. ASSUME NEW s \in Shards PROVE s # <<>>
  BY SMTT(30) DEF Shards
<1> QED BY <1>1, ShardingAssumption DEF Known

LEMMA AskedShards ==
    ASSUME ShardingInv, NEW key \in Shards
    PROVE  Asked(key) \in Seq(Shards)
<1>1. Fallbacks(key) \in Seq(Shards)
  <2>1. /\ key[1] \in Regions \cup {"any"} /\ key[2] \in Tenants \cup {"any"}
        /\ <<key[1], "any">> \in Shards /\ <<"any", key[2]>> \in Shards
    BY DEF Shards
  <2> QED BY <2>1 DEF Fallbacks
<1>2. (IF fallback = <<>> THEN <<>> ELSE <<fallback>>) \in Seq(Shards)
  BY ShardingAssumption DEF ShardingInv, Known
<1> QED BY <1>1, <1>2 DEF Asked

\* A set of points has a first one.
LEMMA FirstThere ==
    ASSUME NEW r, r \subseteq Nat \X Known, r # {}
    PROVE  First(r) # {} /\ First(r) \subseteq r
<1> DEFINE H == {p[1] : p \in r}
<1>1. H \in SUBSET Nat /\ H # {}
  OBVIOUS
<1>2. PICK h \in H : \A j \in H : ~ (<<j, h>> \in OpToRel(<, Nat))
  BY <1>1, NatLessThanWellFounded, WFMin
<1>3. ASSUME NEW j \in H PROVE h <= j
  <2>1. j \in Nat /\ h \in Nat
    BY <1>1
  <2>2. ~ (j < h)
    BY <1>2, <2>1, Zenon DEF OpToRel
  <2> QED BY <2>1, <2>2
<1>4. PICK p \in r : p[1] = h
  OBVIOUS
<1>5. \A q \in r : p[1] <= q[1]
  BY <1>3, <1>4
<1> QED BY <1>5 DEF First

LEMMA GetShardNames ==
    ASSUME NEW r, r \subseteq Nat \X Known, NEW h
    PROVE  /\ GetShard(r, h) \subseteq OnRing(r)
           /\ GetShard(r, h) = {} => r = {}
<1> DEFINE later == {q \in r : q[1] >= h}
           among == IF later = {} THEN r ELSE later
<1>1. /\ among \subseteq r /\ among \subseteq Nat \X Known /\ (r # {} => among # {})
      /\ GetShard(r, h) = {p[2] : p \in First(among)}
  BY DEF GetShard
<1>2. First(among) \subseteq among
  BY DEF First
<1>3. r # {} => First(among) # {}
  BY <1>1, FirstThere
<1> HIDE DEF among
<1> QED BY <1>1, <1>2, <1>3 DEF OnRing

LEMMA ShardingInitially == ShardingInit => ShardingInv
<1> SUFFICES ASSUME ShardingInit PROVE ShardingInv
  OBVIOUS
<1>1. NoRoute \in RouterRec /\ NoRoute.pc = "idle"
  BY DEF NoRoute, RouterRec, Shards
<1>2. \A t \in Routers : router[t] = NoRoute
  BY DEF ShardingInit
<1>3. /\ registry = {} /\ deserted = {} /\ ring = {} /\ shardOps \in 0 .. ShardChanges
      /\ fallback \in Known \cup {<<>>} /\ router \in [Routers -> RouterRec]
      /\ registrar \in [Registrars -> Known \cup {<<>>}]
      /\ \A g \in Registrars : registrar[g] = <<>>
  BY <1>1, ShardingAssumption DEF ShardingInit, Known
<1>4. \A t \in Routers : Routed(router[t])
  BY <1>1, <1>2 DEF Routed
<1> QED BY <1>3, <1>4 DEF ShardingInv, OnRing

LEMMA ShardingImplied == ShardingInv => ShardingTypeOK /\ RouteAnswered
<1> SUFFICES ASSUME ShardingInv PROVE ShardingTypeOK /\ RouteAnswered
  OBVIOUS
<1>1. ShardingTypeOK
  BY DEF ShardingInv, ShardingTypeOK, RouterRec, Known
<1>2. RouteAnswered
  BY DEF ShardingInv, RouteAnswered, Routed, Answered
<1> QED BY <1>1, <1>2

\* A route keeps standing where it was when shards come, and those that go are not
\* steady any more.
LEMMA StillRouted ==
    ASSUME ShardingInv, NEW t \in Routers, fallback' = fallback,
           NEW k \in RouterRec, k.pc = router[t].pc, k.key = router[t].key,
           k.next = router[t].next, k.answer = router[t].answer, k.onRing = router[t].onRing,
           k.named = router[t].named, k.steady \subseteq router[t].steady,
           router[t].steady \cap registry \cap k.steady \subseteq registry',
           ring \subseteq ring', deserted \subseteq deserted'
    PROVE  Routed(k)'
<1>1. Asked(k.key)' = Asked(k.key)
  BY DEF Asked
<1>2. OnRing(ring) \subseteq OnRing(ring')
  BY DEF OnRing
<1>3. Routed(router[t])
  BY DEF ShardingInv
<1>4. k.pc = "resolve" => Underway(k)'
  BY <1>1, <1>2, <1>3 DEF Routed, Underway
<1>5. k.pc = "done" => Answered(k)'
  BY <1>1, <1>3 DEF Routed, Answered
<1> QED BY <1>4, <1>5 DEF Routed

\* The routers stand where they were.
LEMMA RoutersStay ==
    ASSUME ShardingInv, router' = router, fallback' = fallback, registry \subseteq registry',
           ring \subseteq ring', deserted \subseteq deserted', NEW t \in Routers
    PROVE  Routed(router[t])'
<1>1. router[t] \in RouterRec
  BY DEF ShardingInv
<1>2. router[t].steady \cap registry \cap router[t].steady \subseteq registry'
  OBVIOUS
<1>3. PICK k \in RouterRec : k = router[t]
  BY <1>1
<1>4. Routed(k)'
  BY <1>2, <1>3, StillRouted
<1>5. router[t]' = k
  BY <1>3
<1> QED BY <1>4, <1>5 DEF Routed, Underway, Answered, Asked

LEMMA RegisterInfoStep ==
    ASSUME ShardingInv, NEW g \in Registrars, NEW s \in DOMAIN Points, RegisterInfo(g, s)
    PROVE  ShardingInv'
<1>1. /\ registry' = registry \cup {s} /\ registrar' = [registrar EXCEPT ![g] = s]
      /\ shardOps' = shardOps + 1 /\ shardOps < ShardChanges
      /\ fallback' = fallback /\ ring' = ring /\ router' = router /\ deserted' = deserted
  BY DEF RegisterInfo, ChangeShards
<1>2. shardOps' \in 0 .. ShardChanges /\ s \in Known
  BY <1>1, ShardingAssumption DEF ShardingInv, Known
<1>3. \A t \in Routers : Routed(router[t])'
  BY <1>1, RoutersStay
<1>4. \A e \in Registrars : registrar'[e] = IF e = g THEN s ELSE registrar[e]
  BY <1>1 DEF ShardingInv
<1>5. \A e \in Registrars : registrar'[e] # <<>> => registrar'[e] \in registry' \cup deserted'
  BY <1>1, <1>4 DEF ShardingInv
<1> QED BY <1>1, <1>2, <1>3, <1>5 DEF ShardingInv

LEMMA AddToRingStep ==
    ASSUME ShardingInv, NEW g \in Registrars, AddToRing(g)
    PROVE  ShardingInv'
<1> DEFINE s == registrar[g]
<1>1. /\ s # <<>> /\ ring' = AddShard(ring, s) /\ registrar' = [registrar EXCEPT ![g] = <<>>]
      /\ registry' = registry /\ router' = router /\ fallback' = fallback
      /\ shardOps' = shardOps /\ deserted' = deserted
  BY DEF AddToRing
<1>2. s \in Known /\ s \in registry \cup deserted /\ Points[s] \subseteq Nat
  BY <1>1, ShardingAssumption DEF ShardingInv, Known
<1>3. ring' = ring \cup {<<h, s>> : h \in Points[s]}
  BY <1>1 DEF AddShard
<1> HIDE DEF s
<1>4. ring' \subseteq Nat \X Known /\ (\A p \in ring' : p[1] \in Points[p[2]])
  BY <1>2, <1>3 DEF ShardingInv
<1>5. OnRing(ring') \subseteq registry \cup deserted
  BY <1>2, <1>3 DEF ShardingInv, OnRing
<1>6. \A t \in Routers : Routed(router[t])'
  BY <1>1, <1>3, RoutersStay
<1> QED BY <1>1, <1>4, <1>5, <1>6 DEF ShardingInv, OnRing

LEMMA UnregisterShardStep ==
    ASSUME ShardingInv, NEW s \in registry, UnregisterShard(s)
    PROVE  ShardingInv'
<1>1. /\ registry' = registry \ {s} /\ deserted' = deserted \cup {s}
      /\ router' = [t \in Routers |-> [router[t] EXCEPT !.steady = @ \ {s}]]
      /\ shardOps' = shardOps + 1 /\ shardOps < ShardChanges
      /\ fallback' = fallback /\ ring' = ring /\ registrar' = registrar
  BY DEF UnregisterShard, ChangeShards
<1>2. /\ shardOps' \in 0 .. ShardChanges /\ s \in Known
      /\ registry' \cup deserted' = registry \cup deserted
  BY <1>1, ShardingAssumption DEF ShardingInv
<1>3. ASSUME NEW t \in Routers PROVE router'[t] \in RouterRec /\ Routed(router[t])'
  <2>1. PICK k : k = [router[t] EXCEPT !.steady = router[t].steady \ {s}]
    OBVIOUS
  <2>2. router[t] \in RouterRec /\ router[t]' = k
    BY <1>1, <2>1 DEF ShardingInv
  <2>3. /\ k \in RouterRec /\ k.pc = router[t].pc /\ k.key = router[t].key
        /\ k.next = router[t].next /\ k.answer = router[t].answer
        /\ k.onRing = router[t].onRing /\ k.named = router[t].named
        /\ k.steady = router[t].steady \ {s}
    BY <2>1, <2>2 DEF RouterRec
  <2>4. router[t].steady \cap registry \cap k.steady \subseteq registry'
    BY <1>1, <2>3
  <2>5. Routed(k)'
    BY <1>1, <2>3, <2>4, StillRouted
  <2> QED BY <2>2, <2>3, <2>5 DEF Routed, Underway, Answered, Asked
<1>4. router' \in [Routers -> RouterRec]
  BY <1>1, <1>3
<1> QED BY <1>1, <1>2, <1>3, <1>4 DEF ShardingInv

\* A step of one router.
LEMMA RouterStep ==
    ASSUME ShardingInv, NEW t \in Routers, NEW k \in RouterRec, Routed(k),
           router' = [router EXCEPT ![t] = k],
           UNCHANGED <<registry, ring, registrar, fallback, shardOps, deserted>>
    PROVE  ShardingInv'
<1>1. \A e \in Routers : router'[e] = IF e = t THEN k ELSE router[e]
  BY DEF ShardingInv
<1>2. \A e \in Routers : Routed(router'[e])
  BY <1>1 DEF ShardingInv
<1>3. ASSUME NEW e \in Routers PROVE Routed(router[e])'
  <2>1. PICK j : j = router'[e]
    OBVIOUS
  <2>2. Routed(j)
    BY <1>2, <2>1
  <2>3. Routed(j)'
    BY <2>2 DEF Routed, Underway, Answered, Asked
  <2> QED BY <2>1, <2>3 DEF Routed, Underway, Answered, Asked
<1>5. router' \in [Routers -> RouterRec]
  BY DEF ShardingInv
<1> QED BY <1>3, <1>5 DEF ShardingInv

LEMMA RouteStep ==
    ASSUME ShardingInv, NEW t \in Routers, NEW key \in Shards, NEW h \in Hashes, Route(t, key, h)
    PROVE  ShardingInv'
<1> DEFINE k == [NoRoute EXCEPT !.pc = "resolve", !.key = key, !.hash = h, !.steady = registry,
                                !.onRing = {p[2] : p \in ring}]
<1>1. /\ router' = [router EXCEPT ![t] = k]
      /\ UNCHANGED <<registry, ring, registrar, fallback, shardOps, deserted>>
  BY DEF Route
<1>2. {p[2] : p \in ring} \subseteq Known
  BY DEF ShardingInv
<1>3. NoRoute \in RouterRec /\ NoRoute.next = 1
  BY DEF NoRoute, RouterRec, Shards
<1>4. /\ k.pc = "resolve" /\ k.key = key /\ k.next = 1
      /\ k.steady = registry /\ k.onRing = OnRing(ring)
  BY DEF NoRoute, OnRing
<1>5. k \in RouterRec
  BY <1>2, <1>3 DEF RouterRec, ShardingInv
<1> HIDE DEF k
<1>6. ASSUME NEW i \in DOMAIN Asked(key) PROVE ~ (i < 1)
  BY AskedShards
<1>7. Routed(k)
  BY <1>4, <1>6 DEF Routed, Underway
<1> QED BY <1>1, <1>5, <1>7, RouterStep

LEMMA ResolveStep ==
    ASSUME ShardingInv, NEW t \in Routers, Resolve(t)
    PROVE  ShardingInv'
<1> DEFINE r == router[t]
           asked == Asked(r.key)
           s == asked[r.next]
<1>1. /\ r.pc = "resolve" /\ r.next <= Len(asked)
      /\ router' = IF s \in registry
                   THEN [router EXCEPT ![t].pc = "done", ![t].answer = s]
                   ELSE [router EXCEPT ![t].next = @ + 1]
      /\ UNCHANGED <<registry, ring, registrar, fallback, shardOps, deserted>>
  BY DEF Resolve
<1>2. r \in RouterRec /\ r.key \in Shards /\ r.next \in Nat \ {0} /\ Routed(r)
  BY DEF ShardingInv, RouterRec
<1>3. asked \in Seq(Shards) /\ DOMAIN asked = 1 .. Len(asked) /\ Len(asked) \in Nat
  BY <1>2, AskedShards
<1>4. /\ r.steady \subseteq registry
      /\ \A i \in 1 .. Len(asked) : i < r.next => asked[i] \notin r.steady
      /\ r.onRing \subseteq OnRing(ring)
  BY <1>1, <1>2, <1>3 DEF Routed, Underway
<1>5. CASE s \in registry
  <2> DEFINE k == [r EXCEPT !.pc = "done", !.answer = s]
  <2>1. router' = [router EXCEPT ![t] = k]
    BY <1>1, <1>5
  <2>2. s \in Known /\ s # <<>>
    BY <1>5, NoShard DEF ShardingInv
  <2>3. /\ k \in RouterRec /\ k.pc = "done" /\ k.key = r.key /\ k.answer = s
        /\ k.steady = r.steady
    BY <1>2, <2>2 DEF RouterRec
  <2> HIDE DEF k
  <2>4. ASSUME NEW i \in 1 .. Len(asked), asked[i] \in r.steady
        PROVE  \E j \in 1 .. i : s = asked[j]
    <3>1. ~ (i < r.next)
      BY <1>4, <2>4
    <3>2. r.next \in 1 .. i
      BY <1>2, <3>1
    <3> QED BY <3>2
  <2>5. Routed(k)
    BY <1>3, <2>2, <2>3, <2>4 DEF Routed, Answered
  <2> QED BY <1>1, <2>1, <2>3, <2>5, RouterStep
<1>6. CASE s \notin registry
  <2> DEFINE n == r.next + 1
             k == [r EXCEPT !.next = n]
  <2>1. router' = [router EXCEPT ![t] = k]
    BY <1>1, <1>6
  <2>2. n \in Nat \ {0} /\ \A i \in 1 .. Len(asked) : i < n => i < r.next \/ i = r.next
    BY <1>2
  <2> HIDE DEF n
  <2>3. /\ k \in RouterRec /\ k.pc = "resolve" /\ k.key = r.key /\ k.next = n
        /\ k.steady = r.steady /\ k.onRing = r.onRing
    BY <1>1, <1>2, <2>2 DEF RouterRec
  <2> HIDE DEF k
  <2>4. ASSUME NEW i \in 1 .. Len(asked), i < n PROVE asked[i] \notin r.steady
    BY <1>4, <1>6, <2>2, <2>4
  <2>5. Routed(k)
    BY <1>3, <1>4, <2>3, <2>4 DEF Routed, Underway
  <2> QED BY <1>1, <2>1, <2>3, <2>5, RouterStep
<1> QED BY <1>5, <1>6

LEMMA RouteByRingStep ==
    ASSUME ShardingInv, NEW t \in Routers, RouteByRing(t)
    PROVE  ShardingInv'
<1> DEFINE r == router[t]
           asked == Asked(r.key)
           shards == GetShard(ring, r.hash)
<1>1. /\ r.pc = "resolve" /\ r.next > Len(asked)
      /\ UNCHANGED <<registry, ring, registrar, fallback, shardOps, deserted>>
  BY DEF RouteByRing
<1>2. PICK s \in IF shards = {} THEN {<<>>} ELSE shards :
          router' = [router EXCEPT ![t].pc = "done", ![t].named = s,
                                   ![t].answer = IF s \in registry THEN s ELSE <<>>]
  BY DEF RouteByRing
<1>3. r \in RouterRec /\ r.key \in Shards /\ r.next \in Nat \ {0} /\ Routed(r)
  BY DEF ShardingInv, RouterRec
<1>4. asked \in Seq(Shards) /\ DOMAIN asked = 1 .. Len(asked) /\ Len(asked) \in Nat
  BY <1>3, AskedShards
<1>5. /\ \A i \in 1 .. Len(asked) : i < r.next => asked[i] \notin r.steady
      /\ r.onRing \subseteq OnRing(ring)
  BY <1>1, <1>3, <1>4 DEF Routed, Underway
<1>6. shards \subseteq OnRing(ring) /\ (shards = {} => ring = {})
  BY GetShardNames DEF ShardingInv
<1> HIDE DEF shards
<1> DEFINE answer == IF s \in registry THEN s ELSE <<>>
<1>7. /\ s \in Known \cup {<<>>} /\ answer \in Known \cup {<<>>}
      /\ answer = <<>> => OnRing(ring) = {} \/ s \in deserted
  <2>1. CASE shards = {}
    BY <2>1, <1>2, <1>6, NoShard DEF ShardingInv, OnRing
  <2>2. CASE shards # {}
    BY <2>2, <1>2, <1>6, NoShard DEF ShardingInv
  <2> QED BY <2>1, <2>2
<1> DEFINE k == [r EXCEPT !.pc = "done", !.named = s, !.answer = answer]
<1>8. router' = [router EXCEPT ![t] = k]
  BY <1>2
<1> HIDE DEF answer
<1>9. /\ k \in RouterRec /\ k.pc = "done" /\ k.key = r.key /\ k.answer = answer /\ k.named = s
      /\ k.steady = r.steady /\ k.onRing = r.onRing
  BY <1>3, <1>7 DEF RouterRec
<1> HIDE DEF k
<1>10. ASSUME NEW i \in 1 .. Len(asked) PROVE asked[i] \notin r.steady
  BY <1>1, <1>3, <1>4, <1>5
<1>11. Routed(k)
  BY <1>4, <1>5, <1>7, <1>9, <1>10 DEF Routed, Answered
<1> QED BY <1>1, <1>8, <1>9, <1>11, RouterStep

LEMMA ShardingPreserved ==
    ASSUME ShardingInv, [ShardingNext]_shardVars
    PROVE  ShardingInv'
<1>1. ASSUME NEW t \in Routers, Forget(t) PROVE ShardingInv'
  <2>1. /\ router' = [router EXCEPT ![t] = NoRoute]
        /\ UNCHANGED <<registry, ring, registrar, fallback, shardOps, deserted>>
    BY <1>1 DEF Forget
  <2>2. NoRoute \in RouterRec /\ Routed(NoRoute)
    BY DEF NoRoute, RouterRec, Shards, Routed
  <2> QED BY <2>1, <2>2, RouterStep
<1>2. CASE UNCHANGED shardVars
  <2>1. /\ registry' = registry /\ ring' = ring /\ registrar' = registrar /\ router' = router
        /\ fallback' = fallback /\ shardOps' = shardOps /\ deserted' = deserted
    BY <1>2 DEF shardVars
  <2>2. \A t \in Routers : Routed(router[t])'
    BY <2>1, RoutersStay
  <2> QED BY <2>1, <2>2 DEF ShardingInv
<1> QED BY <1>1, <1>2, RegisterInfoStep, AddToRingStep, UnregisterShardStep, RouteStep, ResolveStep,
      RouteByRingStep DEF ShardingNext

-----------------------------------------------------------------------------
(* Transfers: a call in progress accounts for every chunk that was read     *)
(* from the connection.                                                     *)

Stored == Versions \cup {"hole"}
RequestRec == [kind : {"write", "read"}, at : Nat, version : Stored, last : BOOLEAN]
AnswerRec == [kind : {"error", "ack", "chunk"}, last : BOOLEAN, data : Seq(Stored)]
AgentRec == [pc : {"idle", "reading"}, at : Nat, total : Nat]
CallRec == [pc : {"waiting", "done"}, kind : {"none", "write", "read"}, ok : BOOLEAN,
            version : Stored, size : Nat, got : Seq(Stored), refused : BOOLEAN,
            quiet : BOOLEAN, closed : BOOLEAN, unmeasured : BOOLEAN]

TransferTypes ==
    /\ file \in Seq(Stored) /\ Len(file) <= MaxChunks
    /\ pending \subseteq [at : 1 .. MaxChunks, version : Versions]
    /\ requests \in Seq(RequestRec) /\ Len(requests) <= MaxChunks + 1
    /\ answers \in Seq(AnswerRec)
    /\ agent \in AgentRec
    /\ call \in CallRec
    /\ unused \subseteq Versions
    /\ hitches \in 0 .. LineFaults

\* The agent is busy only with reading a file, which does not get shorter.
AgentInv ==
    /\ agent.pc = "idle" => agent = Resting
    /\ agent.pc = "reading" =>
          /\ call.kind = "read" /\ requests = <<>>
          /\ 1 <= agent.at /\ agent.at <= agent.total /\ agent.total <= Len(file)

\* One chunk of the write c, or the reading.
Part(r, c) ==
    /\ r.kind = c.kind
    /\ r.kind = "write" =>
          /\ r.version = c.version /\ r.at <= c.size
          /\ r.at = 0 => r.last /\ c.size = 0

RequestsInv ==
    /\ \A i \in 1 .. Len(requests) : Part(requests[i], call)
    /\ call.kind # "write" => Len(requests) <= 1
    /\ call.kind = "write" => call.version \in Versions /\ call.size <= MaxChunks
    /\ call.kind = "none" => call.pc = "done" /\ ~ call.ok

\* Nothing but the call's own chunks is on its way.
PendingInv ==
    call.quiet => \A w \in pending : call.kind = "write" /\ w.version = call.version

\* As many of the chunks of the write c as are not in the requests q have been through.
Queued(q, c) ==
    /\ c.size = 0 => Len(q) <= 1
    /\ c.size > 0 =>
          /\ Len(q) <= c.size
          /\ \A i \in 1 .. Len(q) :
                q[i].at = c.size - Len(q) + i /\ (q[i].last <=> i = Len(q))

Arrived(n, v) == \A i \in 1 .. n : Arrives(i, v)

WriteInv ==
    call.kind = "write" =>
        /\ call.closed => ~ call.ok
        /\ call.pc = "waiting" =>
              /\ Queued(requests, call) /\ ~ call.closed
              /\ \A i \in 1 .. Len(answers) : answers[i].kind # "chunk"
              /\ call.refused => answers # <<>> /\ answers[1].kind = "error"
              /\ answers # <<>> /\ answers[1].kind = "ack" => requests = <<>>
              /\ call.quiet /\ ~ call.refused =>
                    Arrived(call.size - Len(requests), call.version)
        /\ call.pc = "done" /\ call.ok =>
              /\ requests = <<>> /\ ~ call.refused
              /\ call.quiet => Arrived(call.size, call.version)

\* The answer a holds the chunk of the file f at i.
Holds(a, i, c, f) ==
    \/ c.size = 0 /\ a.data = <<>> /\ a.last
    \/ /\ Len(a.data) = 1 /\ i <= c.size /\ (a.last <=> i = c.size)
       /\ c.quiet => i <= Len(f) /\ a.data[1] = f[i]

ReadInv ==
    call.kind = "read" =>
        /\ call.quiet => /\ Len(call.got) <= Len(file)
                         /\ \A i \in 1 .. Len(call.got) : call.got[i] = file[i]
        /\ call.pc = "waiting" =>
              /\ Len(call.got) <= call.size
              /\ requests # <<>> => call.got = <<>> /\ answers = <<>>
              /\ agent.pc = "reading" =>
                    agent.total = call.size /\ agent.at = Len(call.got) + Len(answers) + 1
              /\ \A i \in 1 .. Len(answers) :
                    /\ answers[i].kind # "ack"
                    /\ answers[i].kind = "chunk" =>
                          Holds(answers[i], Len(call.got) + i, call, file)
        /\ call.pc = "done" /\ call.ok /\ ~ call.closed =>
              requests = <<>> /\ agent = Resting /\ Len(call.got) = call.size

TransfersInv ==
    TransferTypes /\ AgentInv /\ RequestsInv /\ PendingInv /\ WriteInv /\ ReadInv

\* A file that the agent was not told the length of has been answered as an empty one.
Measured == call.unmeasured => requests = <<>> /\ call.size = 0

-----------------------------------------------------------------------------

LEMMA TailOf ==
    ASSUME NEW S, NEW q \in Seq(S), q # <<>>
    PROVE  /\ Tail(q) \in Seq(S) /\ Len(Tail(q)) = Len(q) - 1 /\ Len(q) \in Nat \ {0}
           /\ Head(q) = q[1] /\ q[1] \in S
           /\ \A i \in 1 .. Len(q) - 1 : Tail(q)[i] = q[i + 1]
BY HeadTailProperties

LEMMA AppendOf ==
    ASSUME NEW S, NEW q \in Seq(S), NEW e \in S
    PROVE  /\ Append(q, e) \in Seq(S) /\ Append(q, e) # <<>>
           /\ Len(Append(q, e)) = Len(q) + 1 /\ Len(q) \in Nat
           /\ Append(q, e)[Len(q) + 1] = e
           /\ \A i \in 1 .. Len(q) : Append(q, e)[i] = q[i]
BY AppendProperties

\* A write at a place keeps every other chunk of the file.
LEMMA PutKeeps ==
    ASSUME NEW f \in Seq(Stored), NEW i \in Nat \ {0}, NEW v \in Versions
    PROVE  /\ Put(f, i, v) \in Seq(Stored)
           /\ Len(Put(f, i, v)) = IF i > Len(f) THEN i ELSE Len(f)
           /\ i <= Len(Put(f, i, v)) /\ Len(f) <= Len(Put(f, i, v))
           /\ Put(f, i, v)[i] = v
           /\ \A j \in 1 .. Len(f) : j # i => Put(f, i, v)[j] = f[j]
<1> DEFINE n == IF i > Len(f) THEN i ELSE Len(f)
           g == [j \in 1 .. n |-> IF j = i THEN v ELSE IF j <= Len(f) THEN f[j] ELSE "hole"]
<1>1. n \in Nat /\ i <= n /\ Len(f) <= n /\ Len(f) \in Nat
  OBVIOUS
<1>2. \A j \in 1 .. n :
          (IF j = i THEN v ELSE IF j <= Len(f) THEN f[j] ELSE "hole") \in Stored
  BY DEF Stored
<1>3. Put(f, i, v) = g
  BY DEF Put
<1> HIDE DEF n
<1>4. g \in Seq(Stored) /\ Len(g) = n /\ g[i] = v
      /\ \A j \in 1 .. Len(f) : j # i => g[j] = f[j]
  BY <1>1, <1>2
<1> HIDE DEF g
<1> QED BY <1>1, <1>3, <1>4 DEF n

LEMMA TransfersInitially == TransfersInit => TransfersInv /\ Measured
<1> SUFFICES ASSUME TransfersInit PROVE TransfersInv /\ Measured
  OBVIOUS
<1>1. /\ file = <<>> /\ pending = {} /\ requests = <<>> /\ answers = <<>>
      /\ agent = Resting /\ call = NoCall /\ unused = Versions /\ hitches = 0
  BY DEF TransfersInit
<1>2. Resting \in AgentRec /\ NoCall \in CallRec
  BY DEF Resting, AgentRec, NoCall, CallRec, Stored
<1>3. TransferTypes
  BY <1>1, <1>2, TransferAssumption DEF TransferTypes
<1> QED BY <1>1, <1>3 DEF TransfersInv, AgentInv, RequestsInv, PendingInv, WriteInv, ReadInv,
           Measured, NoCall, Resting

LEMMA TransfersImplied == TransfersInv /\ Measured => TransfersTypeOK /\ TransferHonest
<1> SUFFICES ASSUME TransfersInv, Measured PROVE TransfersTypeOK /\ TransferHonest
  OBVIOUS
<1>1. TransfersTypeOK
  BY DEF TransfersInv, TransferTypes, TransfersTypeOK, AgentRec, Stored, AgentInv, Resting
<1>2. ASSUME call.kind = "read", call.quiet PROVE call.got = SubSeq(file, 1, Len(call.got))
  <2>1. /\ call.got \in Seq(Stored) /\ file \in Seq(Stored)
        /\ Len(call.got) \in Nat /\ Len(call.got) <= Len(file)
        /\ \A i \in 1 .. Len(call.got) : call.got[i] = file[i]
    BY <1>2 DEF TransfersInv, TransferTypes, CallRec, ReadInv
  <2>2. \A g, f \in Seq(Stored) :
            /\ Len(g) <= Len(f)
            /\ \A i \in 1 .. Len(g) : g[i] = f[i]
            => g = SubSeq(f, 1, Len(g))
    OBVIOUS
  <2> QED BY <2>1, <2>2
<1>3. ASSUME call.pc = "done", call.ok, call.kind = "write"
      PROVE  ~ call.refused
             /\ (call.quiet => \A i \in 1 .. call.size : Arrives(i, call.version))
  BY <1>3 DEF TransfersInv, WriteInv, Arrived
<1>4. ASSUME call.pc = "done", call.ok, call.kind = "read", ~ call.closed
      PROVE  IF call.unmeasured THEN call.got = <<>> ELSE Len(call.got) = call.size
  <2>1. Len(call.got) = call.size /\ (call.unmeasured => call.size = 0)
    BY <1>4 DEF TransfersInv, ReadInv, Measured
  <2>2. call.got \in Seq(Stored)
    BY DEF TransfersInv, TransferTypes, CallRec
  <2>3. \A g \in Seq(Stored) : Len(g) = 0 => g = <<>>
    OBVIOUS
  <2> QED BY <2>1, <2>2, <2>3
<1>5. call.kind \in {"write", "read"} \/ ~ call.ok
  BY DEF TransfersInv, TransferTypes, CallRec, RequestsInv
<1>6. TransferHonest
  BY <1>2, <1>3, <1>4, <1>5 DEF TransferHonest
<1> QED BY <1>1, <1>6

LEMMA WriteFileStep ==
    ASSUME TransfersInv, NEW v \in Versions, NEW n \in 0 .. MaxChunks, WriteFile(v, n)
    PROVE  TransfersInv'
<1> DEFINE Chunk(i, last) == [kind |-> "write", at |-> i, version |-> v, last |-> last]
           q == IF n = 0 THEN <<Chunk(0, TRUE)>> ELSE [i \in 1 .. n |-> Chunk(i, i = n)]
<1>1. PICK calm \in BOOLEAN : calm = (pending = {})
  OBVIOUS
<1> DEFINE c == [NoCall EXCEPT !.pc = "waiting", !.kind = "write", !.version = v, !.size = n,
                               !.quiet = calm]
<1>2. /\ agent = Resting /\ requests' = q /\ answers' = <<>> /\ call' = c
      /\ unused' \subseteq unused /\ UNCHANGED <<file, pending, agent, hitches>>
  BY <1>1 DEF WriteFile, Free
<1>3. n \in Nat /\ n <= MaxChunks /\ MaxChunks \in Nat
  BY TransferAssumption
<1>4. /\ c \in CallRec /\ c.pc = "waiting" /\ c.kind = "write" /\ c.version = v /\ c.size = n
      /\ c.quiet = calm /\ ~ c.refused /\ ~ c.closed /\ ~ c.ok
  <2>1. NoCall \in CallRec /\ ~ NoCall.refused /\ ~ NoCall.closed /\ ~ NoCall.ok
    BY DEF CallRec, NoCall, Stored
  <2> QED BY <1>3, <2>1 DEF CallRec, Stored
<1>5. /\ q \in Seq(RequestRec) /\ Len(q) = (IF n = 0 THEN 1 ELSE n)
      /\ \A i \in 1 .. Len(q) :
            /\ q[i].kind = "write" /\ q[i].version = v
            /\ q[i].at = (IF n = 0 THEN 0 ELSE i) /\ (q[i].last <=> i = Len(q))
  <2>1. \A i \in Nat, b \in BOOLEAN : Chunk(i, b) \in RequestRec
    BY DEF RequestRec, Stored
  <2>2. CASE n = 0
    <3>1. Chunk(0, TRUE) \in RequestRec
      BY <2>1
    <3> QED BY <2>2, <3>1
  <2>3. CASE n # 0
    <3>1. q = [i \in 1 .. n |-> Chunk(i, i = n)]
      BY <2>3
    <3>2. \A i \in 1 .. n : Chunk(i, i = n) \in RequestRec /\ Chunk(i, i = n).kind = "write"
                            /\ Chunk(i, i = n).version = v /\ Chunk(i, i = n).at = i
                            /\ (Chunk(i, i = n).last <=> i = n)
      <4>1. TAKE i \in 1 .. n
      <4>2. PICK b \in BOOLEAN : b = (i = n)
        OBVIOUS
      <4>3. Chunk(i, b) \in RequestRec
        BY <2>1
      <4>4. Chunk(i, b) = Chunk(i, i = n)
        BY <4>2
      <4> QED BY <4>2, <4>3, <4>4
    <3> DEFINE D(i) == Chunk(i, i = n)
    <3>3. q = [i \in 1 .. n |-> D(i)]
      BY <3>1
    <3>4. \A i \in 1 .. n : D(i) \in RequestRec /\ D(i).kind = "write" /\ D(i).version = v
                            /\ D(i).at = i /\ (D(i).last <=> i = n)
      BY <3>2
    <3> HIDE DEF Chunk, D, q
    <3>5. q \in Seq(RequestRec) /\ Len(q) = n /\ \A i \in 1 .. n : q[i] = D(i)
      BY <1>3, <3>3, <3>4
    <3> QED BY <2>3, <3>4, <3>5
  <2> QED BY <2>2, <2>3
<1> HIDE DEF q, c
<1>6. TransferTypes'
  BY <1>2, <1>3, <1>4, <1>5 DEF TransfersInv, TransferTypes
<1>7. AgentInv'
  BY <1>2 DEF AgentInv, Resting
<1>8. RequestsInv'
  BY <1>2, <1>3, <1>4, <1>5 DEF RequestsInv, Part
<1>9. PendingInv'
  BY <1>1, <1>2, <1>4 DEF PendingInv
<1>10. WriteInv'
  <2>1. Queued(q, c)
    BY <1>3, <1>4, <1>5 DEF Queued
  <2>2. c.size - Len(q) <= 0
    BY <1>3, <1>4, <1>5
  <2>3. Arrived(c.size - Len(q), v)'
    BY <1>3, <1>4, <1>5, <2>2 DEF Arrived
  <2> QED BY <1>2, <1>4, <2>1, <2>3 DEF WriteInv
<1>11. ReadInv'
  BY <1>2, <1>4 DEF ReadInv
<1> QED BY <1>6, <1>7, <1>8, <1>9, <1>10, <1>11 DEF TransfersInv

LEMMA ReadFileStep == ASSUME TransfersInv, ReadFile PROVE TransfersInv'
<1> DEFINE r == [kind |-> "read", at |-> 0, version |-> "hole", last |-> TRUE]
<1>1. PICK calm \in BOOLEAN : calm = (pending = {})
  OBVIOUS
<1> DEFINE c == [NoCall EXCEPT !.pc = "waiting", !.kind = "read", !.quiet = calm]
<1>2. /\ agent = Resting /\ requests' = <<r>> /\ answers' = <<>> /\ call' = c
      /\ UNCHANGED <<file, pending, agent, unused, hitches>>
  BY <1>1 DEF ReadFile, Free
<1>3. /\ c \in CallRec /\ c.pc = "waiting" /\ c.kind = "read" /\ c.size = 0 /\ c.got = <<>>
      /\ c.quiet = calm /\ ~ c.ok
  <2>1. NoCall \in CallRec /\ ~ NoCall.ok /\ NoCall.size = 0 /\ NoCall.got = <<>>
    BY DEF CallRec, NoCall, Stored
  <2> QED BY <2>1 DEF CallRec
<1>4. r \in RequestRec /\ r.kind = "read"
  BY DEF RequestRec, Stored
<1> HIDE DEF r, c
<1>5. <<r>> \in Seq(RequestRec) /\ Len(<<r>>) = 1 /\ <<r>>[1] = r /\ <<r>> # <<>>
  BY <1>4
<1>6. MaxChunks \in Nat
  BY TransferAssumption
<1>7. TransferTypes'
  BY <1>2, <1>3, <1>5, <1>6 DEF TransfersInv, TransferTypes
<1>8. AgentInv'
  BY <1>2 DEF AgentInv, Resting
<1>9. RequestsInv'
  BY <1>2, <1>3, <1>4, <1>5 DEF RequestsInv, Part
<1>10. PendingInv'
  BY <1>1, <1>2, <1>3 DEF PendingInv
<1>11. WriteInv'
  BY <1>2, <1>3 DEF WriteInv
<1>12. ReadInv'
  <2>1. agent.pc # "reading"
    BY <1>2 DEF Resting
  <2>2. Len(file) \in Nat
    BY DEF TransfersInv, TransferTypes
  <2> QED BY <1>2, <1>3, <2>1, <2>2 DEF ReadInv
<1> QED BY <1>7, <1>8, <1>9, <1>10, <1>11, <1>12 DEF TransfersInv

LEMMA DisconnectStep == ASSUME TransfersInv, Disconnect PROVE TransfersInv'
<1> DEFINE c == [call EXCEPT !.pc = "done", !.ok = (call.kind = "read"), !.closed = TRUE]
<1>1. PICK n \in 0 .. Len(requests) : requests' = SubSeq(requests, 1, n)
  BY DEF Disconnect
<1>2. /\ call' = c /\ hitches' \in 0 .. LineFaults
      /\ UNCHANGED <<file, pending, answers, agent, unused>>
  BY TransferAssumption DEF Disconnect, Hitch, TransfersInv, TransferTypes
<1>3. call \in CallRec
  BY DEF TransfersInv, TransferTypes
<1>4. /\ c \in CallRec /\ c.pc = "done" /\ c.kind = call.kind /\ c.version = call.version
      /\ c.size = call.size /\ c.quiet = call.quiet /\ c.got = call.got /\ c.closed
      /\ (c.ok <=> call.kind = "read")
  BY <1>3 DEF CallRec
<1> HIDE DEF c
<1>5. /\ requests' \in Seq(RequestRec) /\ Len(requests') = n /\ n <= Len(requests) /\ n \in Nat
      /\ \A i \in 1 .. n : requests'[i] = requests[i]
      /\ Len(requests) \in Nat
  BY <1>1 DEF TransfersInv, TransferTypes
<1>6. MaxChunks \in Nat
  BY TransferAssumption
<1>7. TransferTypes'
  BY <1>2, <1>4, <1>5, <1>6 DEF TransfersInv, TransferTypes
<1>8. requests = <<>> => requests' = <<>>
  BY <1>5
<1>9. AgentInv'
  BY <1>2, <1>4, <1>8 DEF TransfersInv, AgentInv
<1>10. RequestsInv'
  BY <1>2, <1>4, <1>5 DEF TransfersInv, RequestsInv, Part
<1>11. PendingInv'
  BY <1>2, <1>4 DEF TransfersInv, PendingInv
<1>12. WriteInv'
  BY <1>2, <1>4 DEF WriteInv
<1>13. ReadInv'
  BY <1>2, <1>4 DEF TransfersInv, ReadInv
<1> QED BY <1>7, <1>9, <1>10, <1>11, <1>12, <1>13 DEF TransfersInv

LEMMA ReadAnswerStep == ASSUME TransfersInv, ReadAnswer PROVE TransfersInv'
<1>0. PICK a : a = Head(answers)
  OBVIOUS
<1> DEFINE more == a.kind = "chunk" /\ ~ a.last
           got == IF a.kind = "chunk" THEN call.got \o a.data ELSE call.got
           c == [call EXCEPT !.pc = IF more THEN "waiting" ELSE "done",
                             !.ok = a.kind # "error" /\ a.last, !.got = got]
<1>1. /\ call.pc = "waiting" /\ answers # <<>> /\ answers' = Tail(answers) /\ call' = c
      /\ UNCHANGED <<file, pending, requests, agent, unused, hitches>>
  BY <1>0 DEF ReadAnswer
<1>2. /\ call \in CallRec /\ answers \in Seq(AnswerRec) /\ requests \in Seq(RequestRec)
      /\ file \in Seq(Stored)
  BY DEF TransfersInv, TransferTypes
<1>3. /\ answers' \in Seq(AnswerRec) /\ Len(answers') = Len(answers) - 1
      /\ Len(answers) \in Nat \ {0} /\ a = answers[1] /\ a \in AnswerRec
      /\ \A i \in 1 .. Len(answers) - 1 : answers'[i] = answers[i + 1]
  BY <1>0, <1>1, <1>2, TailOf
<1>4. /\ call.got \in Seq(Stored) /\ Len(call.got) \in Nat /\ a.data \in Seq(Stored)
      /\ Len(a.data) \in Nat /\ a.last \in BOOLEAN /\ a.kind \in {"error", "ack", "chunk"}
      /\ call.size \in Nat /\ Len(requests) \in Nat /\ Len(file) \in Nat
  BY <1>2, <1>3 DEF CallRec, AnswerRec
<1>5. /\ got \in Seq(Stored)
      /\ a.kind = "chunk" =>
            /\ Len(got) = Len(call.got) + Len(a.data)
            /\ \A i \in 1 .. Len(call.got) : got[i] = call.got[i]
            /\ Len(a.data) = 1 => got[Len(call.got) + 1] = a.data[1]
            /\ a.data = <<>> => got = call.got
  <2>1. \A s, t \in Seq(Stored) :
            /\ s \o t \in Seq(Stored) /\ Len(s \o t) = Len(s) + Len(t)
            /\ \A i \in 1 .. Len(s) : (s \o t)[i] = s[i]
            /\ Len(t) = 1 => (s \o t)[Len(s) + 1] = t[1]
            /\ t = <<>> => s \o t = s
    OBVIOUS
  <2> HIDE DEF c
  <2> QED BY <1>4, <2>1
<1>6. a.kind # "chunk" => got = call.got
  OBVIOUS
<1> HIDE DEF got
<1>7. /\ c \in CallRec /\ c.pc = (IF more THEN "waiting" ELSE "done") /\ c.kind = call.kind
      /\ (c.ok <=> a.kind # "error" /\ a.last) /\ c.got = got /\ c.version = call.version
      /\ c.size = call.size /\ c.quiet = call.quiet /\ c.refused = call.refused
      /\ c.closed = call.closed
  BY <1>2, <1>4, <1>5 DEF CallRec
<1> HIDE DEF c
<1>8. TransferTypes'
  BY <1>1, <1>3, <1>7 DEF TransfersInv, TransferTypes
<1>9. AgentInv'
  BY <1>1, <1>7 DEF TransfersInv, AgentInv
<1>10. call.kind # "none"
  BY <1>1 DEF TransfersInv, RequestsInv
<1>11. RequestsInv'
  BY <1>1, <1>7, <1>10 DEF TransfersInv, RequestsInv, Part
<1>12. PendingInv'
  BY <1>1, <1>7 DEF TransfersInv, PendingInv
<1>13. WriteInv'
  <2> SUFFICES ASSUME call.kind = "write" PROVE WriteInv'
    BY <1>1, <1>7 DEF WriteInv
  <2>1. a.kind # "chunk" /\ ~ more
    BY <1>1, <1>3, <1>4 DEF TransfersInv, WriteInv
  <2>2. c.pc = "done" /\ (c.ok => a.kind = "ack")
    BY <1>4, <1>7, <2>1
  <2>3. /\ ~ call.closed
        /\ call.refused => answers[1].kind = "error"
        /\ answers[1].kind = "ack" => requests = <<>>
        /\ call.quiet /\ ~ call.refused => Arrived(call.size - Len(requests), call.version)
    BY <1>1 DEF TransfersInv, WriteInv
  <2>4. c.ok => requests = <<>> /\ ~ c.refused
                /\ (c.quiet => Arrived(c.size, c.version))
    <3>1. requests = <<>> => c.size - Len(requests) = c.size
      BY <1>4, <1>7
    <3> QED BY <1>3, <1>7, <2>2, <2>3, <3>1
  <2>5. \A n, v : Arrived(n, v)' <=> Arrived(n, v)
    BY <1>1 DEF Arrived, Arrives
  <2>6. PICK d : d = c
    OBVIOUS
  <2>7. call' = d /\ d.pc = "done" /\ (d.closed => ~ d.ok)
        /\ (d.ok => requests = <<>> /\ ~ d.refused /\ (d.quiet => Arrived(d.size, d.version)))
    <3>1. c.closed => ~ c.ok
      BY <1>7, <2>1, <2>2, <2>3, <2>4
    <3> HIDE DEF more
    <3> QED BY <1>1, <2>2, <2>4, <2>6, <3>1
  <2> QED BY <1>1, <2>5, <2>7 DEF WriteInv
<1>14. ReadInv'
  <2> SUFFICES ASSUME call.kind = "read" PROVE ReadInv'
    BY <1>1, <1>7 DEF ReadInv
  <2> DEFINE g == Len(call.got)
  <2>1. /\ call.quiet => g <= Len(file) /\ \A i \in 1 .. g : call.got[i] = file[i]
        /\ g <= call.size /\ requests = <<>>
        /\ agent.pc = "reading" =>
              agent.total = call.size /\ agent.at = g + Len(answers) + 1
        /\ \A i \in 1 .. Len(answers) :
              answers[i].kind # "ack" /\ (answers[i].kind = "chunk" => Holds(answers[i], g + i, call, file))
    BY <1>1 DEF TransfersInv, ReadInv
  <2>2. /\ agent.pc = "reading" => agent.at <= agent.total
        /\ agent.pc # "reading" => agent = Resting
    BY DEF TransfersInv, TransferTypes, AgentRec, AgentInv
  <2>3. a.kind # "ack" /\ (a.kind = "chunk" => Holds(a, g + 1, call, file))
    BY <1>3, <2>1
  <2>4. CASE a.kind # "chunk"
    <3>1. ~ c.ok /\ c.pc = "done" /\ c.got = call.got
      BY <1>4, <1>6, <1>7, <2>3, <2>4
    <3> QED BY <1>1, <1>7, <2>1, <3>1 DEF ReadInv
  <2>5. CASE a.kind = "chunk" /\ call.size = 0 /\ a.data = <<>> /\ a.last
    <3>1. c.pc = "done" /\ c.got = call.got
      BY <1>5, <1>7, <2>5
    <3>2. g = 0
      BY <1>4, <2>1, <2>5
    <3>3. agent = Resting
      BY <1>3, <1>4, <2>1, <2>2, <2>5
    <3> QED BY <1>1, <1>7, <2>1, <2>5, <3>1, <3>2, <3>3 DEF ReadInv
  <2>6. CASE /\ a.kind = "chunk" /\ Len(a.data) = 1 /\ g + 1 <= call.size
             /\ (a.last <=> g + 1 = call.size)
             /\ (call.quiet => g + 1 <= Len(file) /\ a.data[1] = file[g + 1])
    <3>1. /\ Len(got) = g + 1 /\ got[g + 1] = a.data[1]
          /\ \A i \in 1 .. g : got[i] = call.got[i]
      BY <1>5, <2>6
    <3>2. ASSUME call.quiet
          PROVE  Len(got) <= Len(file) /\ \A i \in 1 .. Len(got) : got[i] = file[i]
      <4>1. ASSUME NEW i \in 1 .. g + 1 PROVE got[i] = file[i]
        <5>1. CASE i = g + 1
          BY <2>6, <3>1, <3>2, <5>1
        <5>2. CASE i # g + 1
          <6>1. i \in 1 .. g
            BY <1>4, <5>2
          <6> QED BY <2>1, <3>1, <3>2, <6>1
        <5> QED BY <5>1, <5>2
      <4> QED BY <2>6, <3>1, <3>2, <4>1
    <3>3. CASE a.last
      <4>1. agent = Resting
        BY <1>3, <1>4, <2>1, <2>2, <2>6, <3>3
      <4>2. c.pc = "done" /\ Len(c.got) = c.size
        BY <1>7, <2>6, <3>1, <3>3
      <4> QED BY <1>1, <1>7, <2>1, <3>2, <4>1, <4>2 DEF ReadInv
    <3>4. CASE ~ a.last
      <4>1. ASSUME NEW i \in 1 .. Len(answers')
            PROVE  answers'[i].kind # "ack"
                   /\ (answers'[i].kind = "chunk" => Holds(answers'[i], Len(got) + i, c, file))
        <5>1. PICK j : j = i + 1
          OBVIOUS
        <5>2. j \in 1 .. Len(answers) /\ Len(got) + i = g + j
          <6> HIDE DEF more
          <6>1. i \in 1 .. Len(answers) - 1 /\ g \in Nat
            BY <1>3, <1>4
          <6>2. Len(got) = g + 1 /\ Len(answers) \in Nat
            BY <1>3, <3>1
          <6> HIDE DEF g
          <6>3. Len(got) + i = g + j /\ j \in 1 .. Len(answers)
            BY <5>1, <6>1, <6>2
          <6> QED BY <6>3
        <5>4. answers'[i] = answers[j]
          BY <1>3, <5>1
        <5>3. answers[j].kind # "ack"
              /\ (answers[j].kind = "chunk" => Holds(answers[j], g + j, call, file))
          BY <2>1, <5>2
        <5> QED BY <1>7, <5>2, <5>3, <5>4 DEF Holds
      <4>2. agent.pc = "reading" =>
                agent.total = c.size /\ agent.at = Len(got) + Len(answers') + 1
        BY <1>3, <1>4, <1>7, <2>1, <3>1
      <4>3. c.pc = "waiting"
        BY <1>7, <2>6, <3>4
      <4>4. PICK d, q : d = c /\ q = answers'
        OBVIOUS
      <4>5. /\ call' = d /\ answers' = q /\ d.pc = "waiting" /\ Len(d.got) <= d.size
            /\ d.quiet => Len(d.got) <= Len(file) /\ \A i \in 1 .. Len(d.got) : d.got[i] = file[i]
            /\ agent.pc = "reading" =>
                  agent.total = d.size /\ agent.at = Len(d.got) + Len(q) + 1
            /\ \A i \in 1 .. Len(q) :
                  q[i].kind # "ack"
                  /\ (q[i].kind = "chunk" => Holds(q[i], Len(d.got) + i, d, file))
        BY <1>1, <1>7, <2>6, <3>1, <3>2, <4>1, <4>2, <4>3, <4>4
      <4> QED BY <1>1, <2>1, <4>5 DEF ReadInv
    <3> QED BY <3>3, <3>4
  <2> QED BY <2>3, <2>4, <2>5, <2>6 DEF Holds
<1> QED BY <1>8, <1>9, <1>11, <1>12, <1>13, <1>14 DEF TransfersInv

LEMMA QueueShrinks ==
    ASSUME NEW q \in Seq(RequestRec), NEW c \in CallRec, q # <<>>, Queued(q, c)
    PROVE  /\ Queued(Tail(q), c)
           /\ c.size = 0 => Tail(q) = <<>>
           /\ c.size > 0 =>
                 /\ q[1].at = c.size - Len(Tail(q))
                 /\ (q[1].last <=> Tail(q) = <<>>)
<1>1. /\ Tail(q) \in Seq(RequestRec) /\ Len(Tail(q)) = Len(q) - 1 /\ Len(q) \in Nat \ {0}
      /\ \A i \in 1 .. Len(q) - 1 : Tail(q)[i] = q[i + 1]
  BY TailOf
<1>2. PICK m, t : m = Len(q) /\ t = Tail(q)
  OBVIOUS
<1>3. c.size \in Nat
  BY DEF CallRec
<1>4. /\ t \in Seq(RequestRec) /\ Len(t) = m - 1 /\ m \in Nat \ {0} /\ Len(t) \in Nat
      /\ t = <<>> <=> m = 1
  <2>1. t \in Seq(RequestRec) /\ Len(t) = m - 1 /\ m \in Nat \ {0}
    BY <1>1, <1>2
  <2>2. Len(t) \in Nat /\ (t = <<>> <=> Len(t) = 0)
    BY <2>1, EmptySeq
  <2> QED BY <2>1, <2>2
<1>5. ASSUME c.size > 0, NEW i \in 1 .. Len(t)
      PROVE  t[i].at = c.size - Len(t) + i /\ (t[i].last <=> i = Len(t))
  <2>1. PICK j : j = i + 1
    OBVIOUS
  <2>2. j \in 1 .. m /\ t[i] = q[j] /\ c.size - Len(t) + i = c.size - m + j
        /\ (i = Len(t) <=> j = m)
    BY <1>1, <1>2, <1>3, <2>1
  <2>3. q[j].at = c.size - m + j /\ (q[j].last <=> j = m)
    BY <1>2, <1>5, <2>2 DEF Queued
  <2> QED BY <2>2, <2>3
<1>6. Queued(t, c)
  <2>1. (c.size = 0 => m <= 1) /\ (c.size > 0 => m <= c.size)
    BY <1>2 DEF Queued
  <2>2. (c.size = 0 => Len(t) <= 1) /\ (c.size > 0 => Len(t) <= c.size)
    BY <1>3, <1>4, <2>1
  <2> QED BY <1>5, <2>2 DEF Queued
<1>7. c.size = 0 => m = 1
  BY <1>2, <1>4 DEF Queued
<1>8. ASSUME c.size > 0
      PROVE  q[1].at = c.size - Len(t) /\ (q[1].last <=> m = 1)
  <2>1. q[1].at = c.size - m + 1 /\ (q[1].last <=> 1 = m)
    <3>1. 1 \in 1 .. m
      BY <1>4
    <3> QED BY <1>2, <1>8, <3>1 DEF Queued
  <2> QED BY <1>3, <1>4, <2>1
<1> QED BY <1>2, <1>4, <1>6, <1>7, <1>8

\* The agent has taken a request; c is the call then.
Taken(c) ==
    /\ requests # <<>> /\ requests' = Tail(requests) /\ call' = c
    /\ c \in CallRec /\ c.kind = call.kind /\ c.pc = call.pc /\ c.ok = call.ok
    /\ c.version = call.version /\ c.closed = call.closed /\ c.got = call.got
    /\ c.kind = "write" => c.size = call.size

LEMMA TakenKeeps ==
    ASSUME TransfersInv, NEW c, Taken(c)
    PROVE  /\ requests' \in Seq(RequestRec) /\ Len(requests') <= MaxChunks + 1
           /\ requests[1] \in RequestRec /\ Head(requests) = requests[1]
           /\ Part(requests[1], call) /\ RequestsInv'
           /\ call.kind = "write" => ~ (c.pc = "done" /\ c.ok)
           /\ call.kind = "write" /\ call.pc = "waiting" => Queued(requests, call) /\ Queued(requests', c)
           /\ call.kind = "read" => requests' = <<>> /\ ~ (c.pc = "done" /\ c.ok /\ ~ c.closed)
<1>1. /\ requests \in Seq(RequestRec) /\ call \in CallRec /\ requests # <<>>
      /\ c \in CallRec
  BY DEF TransfersInv, TransferTypes, Taken
<1>2. /\ requests' \in Seq(RequestRec) /\ Len(requests') = Len(requests) - 1
      /\ Len(requests) \in Nat \ {0} /\ Head(requests) = requests[1] /\ requests[1] \in RequestRec
      /\ \A i \in 1 .. Len(requests) - 1 : requests'[i] = requests[i + 1]
  BY <1>1, TailOf DEF Taken
<1>3. Len(requests') <= MaxChunks + 1
  BY <1>2, TransferAssumption DEF TransfersInv, TransferTypes
<1>4. Part(requests[1], call)
  BY <1>2 DEF TransfersInv, RequestsInv
<1>5. ASSUME NEW i \in 1 .. Len(requests') PROVE Part(requests'[i], c)
  <2>1. i + 1 \in 1 .. Len(requests) /\ requests'[i] = requests[i + 1]
    BY <1>2
  <2>2. Part(requests[i + 1], call)
    BY <2>1 DEF TransfersInv, RequestsInv
  <2>3. requests[i + 1].kind = call.kind
    BY <2>2 DEF Part
  <2> QED BY <2>1, <2>2, <2>3 DEF Part, Taken
<1>6. RequestsInv'
  BY <1>2, <1>5 DEF TransfersInv, RequestsInv, Taken
<1>7. call.kind = "write" => ~ (c.pc = "done" /\ c.ok)
  BY <1>1 DEF TransfersInv, WriteInv, Taken
<1>8. ASSUME call.kind = "write", call.pc = "waiting"
      PROVE  Queued(requests, call) /\ Queued(requests', c)
  <2>1. Queued(requests, call)
    BY <1>8 DEF TransfersInv, WriteInv
  <2>2. Queued(Tail(requests), call)
    BY <1>1, <2>1, QueueShrinks
  <2> QED BY <1>8, <2>1, <2>2 DEF Taken, Queued
<1>9. call.kind = "read" => requests' = <<>> /\ ~ (c.pc = "done" /\ c.ok /\ ~ c.closed)
  <2>1. call.kind = "read" => Len(requests) <= 1
    BY DEF TransfersInv, RequestsInv
  <2> QED BY <1>1, <1>2, <2>1 DEF TransfersInv, ReadInv, Taken
<1> QED BY <1>2, <1>3, <1>4, <1>6, <1>7, <1>8, <1>9

ErrorAnswer == [kind |-> "error", last |-> TRUE, data |-> <<>>]
Ack == [kind |-> "ack", last |-> TRUE, data |-> <<>>]

LEMMA AnswersAre == ErrorAnswer \in AnswerRec /\ Ack \in AnswerRec
BY DEF ErrorAnswer, Ack, AnswerRec

LEMMA RefuseStep == ASSUME TransfersInv, Refuse PROVE TransfersInv'
<1> DEFINE c == [call EXCEPT !.refused = TRUE]
<1>1. /\ agent = Resting /\ requests # <<>> /\ requests' = Tail(requests)
      /\ answers' = Append(answers, ErrorAnswer) /\ call' = c
      /\ hitches' \in 0 .. LineFaults /\ UNCHANGED <<file, pending, agent, unused>>
  BY TransferAssumption DEF Refuse, Reply, Hitch, ErrorAnswer, TransfersInv, TransferTypes
<1>2. call \in CallRec /\ answers \in Seq(AnswerRec)
  BY DEF TransfersInv, TransferTypes
<1>3. /\ c \in CallRec /\ c.refused /\ c.kind = call.kind /\ c.pc = call.pc /\ c.ok = call.ok
      /\ c.version = call.version /\ c.closed = call.closed /\ c.got = call.got
      /\ c.size = call.size /\ c.quiet = call.quiet
  BY <1>2 DEF CallRec
<1> HIDE DEF c
<1>4. Taken(c)
  BY <1>1, <1>3 DEF Taken
<1>5. /\ answers' \in Seq(AnswerRec) /\ answers' # <<>>
      /\ Len(answers') = Len(answers) + 1 /\ Len(answers) \in Nat
      /\ answers'[Len(answers) + 1] = ErrorAnswer
      /\ \A i \in 1 .. Len(answers) : answers'[i] = answers[i]
  BY <1>1, <1>2, AnswersAre, AppendOf
<1>6. TransferTypes'
  BY <1>1, <1>3, <1>4, <1>5, TakenKeeps DEF TransfersInv, TransferTypes
<1>7. AgentInv'
  BY <1>1 DEF AgentInv, Resting
<1>8. PendingInv'
  BY <1>1, <1>3 DEF TransfersInv, PendingInv
<1>9. ASSUME NEW i \in 1 .. Len(answers') PROVE answers'[i] = ErrorAnswer \/
          (i \in 1 .. Len(answers) /\ answers'[i] = answers[i])
  BY <1>5
<1>10. WriteInv'
  <2> SUFFICES ASSUME call.kind = "write" PROVE WriteInv'
    BY <1>1, <1>3 DEF WriteInv
  <2>1. /\ ~ (c.pc = "done" /\ c.ok) /\ (c.closed => ~ c.ok)
        /\ c.pc = "waiting" => Queued(requests', c)
    BY <1>3, <1>4, TakenKeeps DEF TransfersInv, WriteInv
  <2>2. ASSUME c.pc = "waiting"
        PROVE  /\ \A i \in 1 .. Len(answers') : answers'[i].kind # "chunk"
               /\ answers'[1].kind = "error" /\ ~ c.closed
    <3>1. /\ \A i \in 1 .. Len(answers) : answers[i].kind # "chunk"
          /\ answers # <<>> /\ answers[1].kind = "ack" => requests = <<>>
          /\ ~ call.closed
      BY <1>3, <2>2 DEF TransfersInv, WriteInv
    <3>2. \A i \in 1 .. Len(answers') : answers'[i].kind # "chunk"
      BY <1>9, <3>1 DEF ErrorAnswer
    <3>3. answers'[1].kind = "error"
      <4>1. CASE answers = <<>>
        BY <1>5, <4>1 DEF ErrorAnswer
      <4>2. CASE answers # <<>>
        <5>1. 1 \in 1 .. Len(answers) /\ answers[1] \in AnswerRec
          BY <1>2, <4>2
        <5> QED BY <1>1, <1>5, <3>1, <4>2, <5>1 DEF AnswerRec
      <4> QED BY <4>1, <4>2
    <3> QED BY <1>3, <3>1, <3>2, <3>3
  <2> QED BY <1>1, <1>3, <1>5, <2>1, <2>2 DEF WriteInv
<1>11. ReadInv'
  <2> SUFFICES ASSUME call.kind = "read" PROVE ReadInv'
    BY <1>1, <1>3 DEF ReadInv
  <2>1. requests' = <<>> /\ ~ (c.pc = "done" /\ c.ok /\ ~ c.closed)
    BY <1>4, TakenKeeps
  <2>2. agent.pc # "reading"
    BY <1>1 DEF Resting
  <2>3. c.pc = "waiting" => answers = <<>>
    BY <1>1, <1>3 DEF TransfersInv, ReadInv
  <2>4. \A i \in 1 .. Len(answers') : answers = <<>> => answers'[i] = ErrorAnswer
    BY <1>5
  <2>5. /\ call.quiet => /\ Len(call.got) <= Len(file)
                         /\ \A i \in 1 .. Len(call.got) : call.got[i] = file[i]
        /\ call.pc = "waiting" => Len(call.got) <= call.size
    BY DEF TransfersInv, ReadInv
  <2>6. \A i \in 1 .. Len(answers') : answers = <<>> =>
            answers'[i].kind # "ack" /\ answers'[i].kind # "chunk"
    BY <2>4 DEF ErrorAnswer
  <2>7. PICK d, q, n : d = c /\ q = answers' /\ n = requests'
    OBVIOUS
  <2>8. /\ call' = d /\ answers' = q /\ n = <<>> /\ requests' = n
        /\ ~ (d.pc = "done" /\ d.ok /\ ~ d.closed)
        /\ d.quiet => /\ Len(d.got) <= Len(file)
                      /\ \A i \in 1 .. Len(d.got) : d.got[i] = file[i]
        /\ d.pc = "waiting" => Len(d.got) <= d.size
        /\ d.pc = "waiting" =>
               \A i \in 1 .. Len(q) : q[i].kind # "ack" /\ q[i].kind # "chunk"
    BY <1>1, <1>3, <2>1, <2>3, <2>5, <2>6, <2>7
  <2> QED BY <1>1, <2>2, <2>8 DEF ReadInv
<1> QED BY <1>4, <1>6, <1>7, <1>8, <1>10, <1>11, TakenKeeps DEF TransfersInv

\* The acknowledgement of a write's last chunk.
LEMMA AckAppended ==
    ASSUME TransfersInv, answers' = Append(answers, Ack)
    PROVE  /\ answers' \in Seq(AnswerRec) /\ answers' # <<>>
           /\ call.kind = "write" /\ call.pc = "waiting" =>
                 /\ \A i \in 1 .. Len(answers') : answers'[i].kind # "chunk"
                 /\ call.refused => answers'[1].kind = "error"
<1>1. answers \in Seq(AnswerRec)
  BY DEF TransfersInv, TransferTypes
<1>2. /\ answers' \in Seq(AnswerRec) /\ answers' # <<>>
      /\ Len(answers') = Len(answers) + 1 /\ Len(answers) \in Nat
      /\ answers'[Len(answers) + 1] = Ack
      /\ \A i \in 1 .. Len(answers) : answers'[i] = answers[i]
  BY <1>1, AnswersAre, AppendOf
<1>3. ASSUME call.kind = "write", call.pc = "waiting"
      PROVE  /\ \A i \in 1 .. Len(answers') : answers'[i].kind # "chunk"
             /\ call.refused => answers'[1].kind = "error"
  <2>1. /\ \A i \in 1 .. Len(answers) : answers[i].kind # "chunk"
        /\ call.refused => answers # <<>> /\ answers[1].kind = "error"
    BY <1>3 DEF TransfersInv, WriteInv
  <2>2. ASSUME NEW i \in 1 .. Len(answers') PROVE answers'[i].kind # "chunk"
    <3>1. CASE i \in 1 .. Len(answers)
      BY <1>2, <2>1, <3>1
    <3>2. CASE i \notin 1 .. Len(answers)
      <4>1. i = Len(answers) + 1
        BY <1>2, <3>2
      <4> QED BY <1>2, <4>1 DEF Ack
    <3> QED BY <3>1, <3>2
  <2>3. ASSUME call.refused PROVE answers'[1].kind = "error"
    <3>1. answers # <<>> => 1 \in 1 .. Len(answers)
      BY <1>1
    <3> QED BY <1>2, <2>1, <2>3, <3>1
  <2> QED BY <2>2, <2>3
<1> QED BY <1>2, <1>3

\* The next chunk of a write, with those before it there, is its at-th.
LEMMA ChunkTaken ==
    ASSUME TransfersInv, NEW c, Taken(c), requests[1].kind = "write"
    PROVE  /\ call.kind = "write" /\ requests[1].version = call.version
           /\ call.version \in Versions /\ requests[1].at \in 0 .. MaxChunks
           /\ ~ requests[1].last => requests[1].at > 0
           /\ call.pc = "waiting" =>
                 /\ requests[1].last => requests' = <<>>
                 /\ call.quiet /\ ~ call.refused /\ requests[1].at = 0 =>
                       c.size - Len(requests') <= 0
                 /\ call.quiet /\ ~ call.refused /\ requests[1].at > 0 =>
                       /\ c.size - Len(requests') = requests[1].at
                       /\ Arrived(requests[1].at - 1, call.version)
<1>1. /\ Part(requests[1], call) /\ requests[1] \in RequestRec /\ RequestsInv
      /\ call \in CallRec /\ requests \in Seq(RequestRec) /\ requests # <<>>
      /\ requests' = Tail(requests)
  BY TakenKeeps DEF TransfersInv, TransferTypes, Taken
<1>2. /\ call.kind = "write" /\ requests[1].version = call.version
      /\ requests[1].at <= call.size /\ call.size <= MaxChunks /\ call.version \in Versions
      /\ requests[1].at \in Nat /\ call.size \in Nat /\ requests[1].last \in BOOLEAN
      /\ requests[1].at = 0 => requests[1].last /\ call.size = 0
  BY <1>1 DEF Part, RequestsInv, RequestRec, CallRec
<1>3. requests[1].at \in 0 .. MaxChunks
  BY <1>2, TransferAssumption
<1>4. ~ requests[1].last => requests[1].at > 0
  BY <1>2
<1>5. c.size = call.size
  BY <1>2 DEF Taken
<1>6. Len(requests') \in Nat /\ Len(requests') = Len(requests) - 1 /\ Len(requests) \in Nat
  BY <1>1, TailOf, TakenKeeps
<1>7. ASSUME call.pc = "waiting"
      PROVE  /\ requests[1].last => requests' = <<>>
             /\ requests[1].at > 0 => call.size - Len(requests') = requests[1].at
  <2>1. Queued(requests, call)
    BY <1>2, <1>7 DEF TransfersInv, WriteInv
  <2>2. /\ call.size = 0 => Tail(requests) = <<>>
        /\ call.size > 0 =>
              /\ requests[1].at = call.size - Len(Tail(requests))
              /\ (requests[1].last <=> Tail(requests) = <<>>)
    BY <1>1, <2>1, QueueShrinks
  <2> QED BY <1>1, <1>2, <1>6, <2>2
<1>8. ASSUME call.pc = "waiting", call.quiet, ~ call.refused, requests[1].at > 0
      PROVE  Arrived(requests[1].at - 1, call.version)
  <2>1. Arrived(call.size - Len(requests), call.version)
    BY <1>2, <1>8 DEF TransfersInv, WriteInv
  <2>2. call.size - Len(requests) = requests[1].at - 1
    BY <1>2, <1>6, <1>7, <1>8
  <2> QED BY <2>1, <2>2
<1>9. requests[1].at = 0 => c.size - Len(requests') <= 0
  BY <1>2, <1>5, <1>6
<1> QED BY <1>2, <1>3, <1>4, <1>5, <1>7, <1>8, <1>9

\* A chunk that is put into the file leaves every chunk of the same version there.
LEMMA PutArrives ==
    ASSUME TransfersInv, NEW i \in Nat \ {0}, NEW v \in Versions, file' = Put(file, i, v),
           \A w \in pending : w \in pending' \/ w = [at |-> i, version |-> v]
    PROVE  Arrives(i, v)' /\ \A j \in Nat \ {0} : Arrives(j, v) => Arrives(j, v)'
<1>1. file \in Seq(Stored)
  BY DEF TransfersInv, TransferTypes
<1>2. /\ i <= Len(file') /\ Len(file) <= Len(file') /\ file'[i] = v
      /\ Len(file) \in Nat /\ Len(file') \in Nat
      /\ \A j \in 1 .. Len(file) : j # i => file'[j] = file[j]
  <2>1. PICK g : g = Put(file, i, v)
    OBVIOUS
  <2>2. /\ g \in Seq(Stored) /\ i <= Len(g) /\ Len(file) <= Len(g) /\ g[i] = v
        /\ \A j \in 1 .. Len(file) : j # i => g[j] = file[j]
    BY <1>1, <2>1, PutKeeps, ZenonT(90)
  <2>3. file' = g
    BY <2>1
  <2> QED BY <1>1, <2>2, <2>3
<1>3. Arrives(i, v)'
  BY <1>2 DEF Arrives
<1>4. ASSUME NEW j \in Nat \ {0}, Arrives(j, v) PROVE Arrives(j, v)'
  <2>1. CASE j = i
    BY <1>3, <2>1
  <2>2. CASE j # i /\ j <= Len(file) /\ file[j] = v
    <3>1. j \in 1 .. Len(file)
      BY <1>2, <2>2
    <3>2. file'[j] = v /\ j <= Len(file')
      BY <1>2, <2>2, <3>1
    <3> QED BY <3>2 DEF Arrives
  <2>3. CASE j # i /\ [at |-> j, version |-> v] \in pending
    <3>1. [at |-> j, version |-> v] # [at |-> i, version |-> v]
      <4>1. [at |-> j, version |-> v].at = j /\ [at |-> i, version |-> v].at = i
        OBVIOUS
      <4> QED BY <2>3, <4>1
    <3> QED BY <2>3, <3>1 DEF Arrives
  <2> QED BY <1>4, <2>1, <2>2, <2>3 DEF Arrives
<1> QED BY <1>3, <1>4

LEMMA OneFurther ==
    ASSUME NEW n \in Nat \ {0}, NEW v, Arrived(n - 1, v), Arrives(n, v)',
           \A j \in Nat \ {0} : Arrives(j, v) => Arrives(j, v)'
    PROVE  Arrived(n, v)'
<1>1. ASSUME NEW j \in 1 .. n PROVE Arrives(j, v)'
  <2>1. CASE j = n
    BY <2>1
  <2>2. CASE j # n
    BY <2>2 DEF Arrived
  <2> QED BY <2>1, <2>2
<1> QED BY <1>1 DEF Arrived

LEMMA WriteChunkStep == ASSUME TransfersInv, WriteChunk PROVE TransfersInv'
<1>0. PICK r, c : r = Head(requests) /\ c = call
  OBVIOUS
<1>1. /\ agent = Resting /\ requests # <<>> /\ r.kind = "write" /\ requests' = Tail(requests)
      /\ call' = c /\ UNCHANGED <<agent, call, unused, hitches>>
  BY <1>0 DEF WriteChunk
<1>2. Taken(c) /\ c \in CallRec /\ answers \in Seq(AnswerRec) /\ file \in Seq(Stored)
  BY <1>0, <1>1 DEF Taken, TransfersInv, TransferTypes
<1>3. /\ requests' \in Seq(RequestRec) /\ Len(requests') <= MaxChunks + 1 /\ r = requests[1]
      /\ r \in RequestRec /\ RequestsInv'
  BY <1>0, <1>2, TakenKeeps
<1>4. PICK k, v : k = r.at /\ v = r.version
  OBVIOUS
<1>5. /\ c.kind = "write" /\ v = c.version /\ v \in Versions /\ k \in 0 .. MaxChunks /\ k \in Nat
      /\ ~ r.last => k > 0
      /\ c.pc = "waiting" =>
            /\ r.last => requests' = <<>>
            /\ c.quiet /\ ~ c.refused /\ k = 0 => c.size - Len(requests') <= 0
            /\ c.quiet /\ ~ c.refused /\ k > 0 =>
                  c.size - Len(requests') = k /\ Arrived(k - 1, v)
  BY <1>0, <1>1, <1>2, <1>3, <1>4, ChunkTaken, TransferAssumption
<1>6. /\ ~ (c.pc = "done" /\ c.ok) /\ (c.closed => ~ c.ok)
      /\ c.pc = "waiting" => Queued(requests', c) /\ ~ c.closed
  BY <1>0, <1>2, <1>5, TakenKeeps DEF TransfersInv, WriteInv
<1>7. AgentInv'
  BY <1>1 DEF AgentInv, Resting
<1>8. CASE r.last
  <2>1. /\ file' = IF k = 0 THEN <<>> ELSE Put(file, k, v)
        /\ answers' = Append(answers, Ack) /\ pending' = pending
    BY <1>0, <1>4, <1>8 DEF WriteChunk, Reply, Ack
  <2>2. /\ answers' \in Seq(AnswerRec) /\ answers' # <<>>
        /\ c.pc = "waiting" =>
              /\ \A i \in 1 .. Len(answers') : answers'[i].kind # "chunk"
              /\ c.refused => answers'[1].kind = "error"
    BY <1>0, <1>5, <2>1, AckAppended
  <2>3. file' \in Seq(Stored) /\ Len(file') <= MaxChunks
    <3>1. Len(file) <= MaxChunks /\ Len(file) \in Nat /\ MaxChunks \in Nat
      BY <1>2, TransferAssumption DEF TransfersInv, TransferTypes
    <3>2. PICK g : g = Put(file, k, v)
      OBVIOUS
    <3>3. ASSUME k > 0
          PROVE  g \in Seq(Stored) /\ (Len(g) = k \/ Len(g) = Len(file))
      <4>1. k \in Nat \ {0}
        BY <1>5, <3>3
      <4> QED BY <1>2, <1>5, <3>2, <4>1, PutKeeps
    <3> QED BY <1>5, <2>1, <3>1, <3>2, <3>3
  <2>4. TransferTypes'
    BY <1>1, <1>3, <2>1, <2>2, <2>3 DEF TransfersInv, TransferTypes
  <2>5. PendingInv'
    BY <1>1, <2>1 DEF TransfersInv, PendingInv
  <2>6. PICK m : m = c.size - Len(requests')
    OBVIOUS
  <2>7. ASSUME c.pc = "waiting", c.quiet, ~ c.refused PROVE Arrived(m, v)'
    <3>1. CASE k = 0
      <4>1. m <= 0 /\ m \in Int
        BY <1>2, <1>3, <1>5, <2>6, <2>7, <3>1 DEF CallRec
      <4> QED BY <4>1 DEF Arrived
    <3>2. CASE k > 0
      <4>1. file' = Put(file, k, v) /\ Arrived(k - 1, v) /\ m = k
        BY <1>5, <2>1, <2>6, <2>7, <3>2
      <4>2. k \in Nat \ {0} /\ \A w \in pending : w \in pending'
        BY <1>5, <2>1, <3>2
      <4>3. Arrives(k, v)' /\ \A j \in Nat \ {0} : Arrives(j, v) => Arrives(j, v)'
        BY <1>5, <4>1, <4>2, PutArrives
      <4>4. Arrived(k, v)'
        BY <4>1, <4>2, <4>3, OneFurther
      <4> QED BY <4>1, <4>4
    <3> QED BY <1>5, <3>1, <3>2
  <2>8. ASSUME c.pc = "waiting" PROVE requests' = <<>>
    BY <1>5, <1>8, <2>8
  <2>9. WriteInv'
    BY <1>1, <1>5, <1>6, <2>2, <2>6, <2>7, <2>8 DEF WriteInv
  <2>10. ReadInv'
    BY <1>1, <1>5 DEF ReadInv
  <2> QED BY <1>3, <1>7, <2>4, <2>5, <2>9, <2>10 DEF TransfersInv
<1>9. CASE ~ r.last
  <2> DEFINE w == [at |-> k, version |-> v]
  <2>1. pending' = pending \cup {w} /\ UNCHANGED <<file, answers>>
    BY <1>0, <1>4, <1>9 DEF WriteChunk
  <2>2. w \in [at : 1 .. MaxChunks, version : Versions] /\ w.version = v
    BY <1>5, <1>9
  <2>3. TransferTypes'
    BY <1>1, <1>3, <2>1, <2>2 DEF TransfersInv, TransferTypes
  <2>4. PendingInv'
    <3> HIDE DEF w
    <3> QED BY <1>1, <1>5, <2>1, <2>2 DEF TransfersInv, PendingInv
  <2>5. PICK m : m = c.size - Len(requests')
    OBVIOUS
  <2>6. Arrives(k, v)' /\ \A j \in Nat \ {0} : Arrives(j, v) => Arrives(j, v)'
    BY <2>1 DEF Arrives
  <2>7. ASSUME c.pc = "waiting", c.quiet, ~ c.refused PROVE Arrived(m, v)'
    <3>1. k \in Nat \ {0} /\ m = k /\ Arrived(k - 1, v)
      BY <1>5, <1>9, <2>5, <2>7
    <3>2. Arrived(k, v)'
      BY <2>6, <3>1, OneFurther
    <3> QED BY <3>1, <3>2
  <2>8. ASSUME c.pc = "waiting"
        PROVE  /\ \A i \in 1 .. Len(answers) : answers[i].kind # "chunk"
               /\ c.refused => answers # <<>> /\ answers[1].kind = "error"
               /\ ~ (answers # <<>> /\ answers[1].kind = "ack")
    BY <1>0, <1>1, <1>5, <2>8 DEF TransfersInv, WriteInv
  <2>9. WriteInv'
    BY <1>1, <1>5, <1>6, <2>1, <2>5, <2>7, <2>8 DEF WriteInv
  <2>10. ReadInv'
    BY <1>1, <1>5 DEF ReadInv
  <2> QED BY <1>3, <1>7, <2>3, <2>4, <2>9, <2>10 DEF TransfersInv
<1> QED BY <1>8, <1>9

LEMMA LastChunkLostStep == ASSUME TransfersInv, LastChunkLost PROVE TransfersInv'
<1>0. PICK r : r = Head(requests)
  OBVIOUS
<1> DEFINE c == [call EXCEPT !.quiet = FALSE]
<1>1. /\ agent = Resting /\ requests # <<>> /\ r.kind = "write" /\ r.last
      /\ requests' = Tail(requests) /\ answers' = Append(answers, Ack) /\ call' = c
      /\ hitches' \in 0 .. LineFaults /\ UNCHANGED <<file, pending, agent, unused>>
  BY <1>0, TransferAssumption DEF LastChunkLost, Reply, Hitch, Ack, TransfersInv, TransferTypes
<1>2. call \in CallRec
  BY DEF TransfersInv, TransferTypes
<1>3. /\ c \in CallRec /\ c.kind = call.kind /\ c.pc = call.pc /\ c.ok = call.ok
      /\ c.version = call.version /\ c.closed = call.closed /\ c.got = call.got
      /\ c.size = call.size /\ c.refused = call.refused /\ ~ c.quiet
  BY <1>2 DEF CallRec
<1> HIDE DEF c
<1>4. Taken(c)
  BY <1>1, <1>3 DEF Taken
<1>5. /\ requests' \in Seq(RequestRec) /\ Len(requests') <= MaxChunks + 1 /\ r = requests[1]
      /\ RequestsInv'
  BY <1>0, <1>4, TakenKeeps
<1>6. /\ call.kind = "write"
      /\ c.pc = "waiting" => requests' = <<>>
  BY <1>1, <1>3, <1>4, <1>5, ChunkTaken
<1>7. /\ ~ (c.pc = "done" /\ c.ok) /\ (c.closed => ~ c.ok)
      /\ c.pc = "waiting" => Queued(requests', c) /\ ~ c.closed
  BY <1>3, <1>4, <1>6, TakenKeeps DEF TransfersInv, WriteInv
<1>8. /\ answers' \in Seq(AnswerRec) /\ answers' # <<>>
      /\ c.pc = "waiting" =>
            /\ \A i \in 1 .. Len(answers') : answers'[i].kind # "chunk"
            /\ c.refused => answers'[1].kind = "error"
  BY <1>1, <1>3, <1>6, AckAppended
<1>9. TransferTypes'
  BY <1>1, <1>3, <1>5, <1>8 DEF TransfersInv, TransferTypes
<1>10. AgentInv'
  BY <1>1 DEF AgentInv, Resting
<1>11. PendingInv'
  BY <1>1, <1>3 DEF PendingInv
<1>12. WriteInv'
  BY <1>1, <1>3, <1>6, <1>7, <1>8 DEF WriteInv
<1>13. ReadInv'
  BY <1>1, <1>3, <1>6 DEF ReadInv
<1> QED BY <1>5, <1>9, <1>10, <1>11, <1>12, <1>13 DEF TransfersInv

LEMMA SettleStep ==
    ASSUME TransfersInv, NEW w \in pending, Settle(w)
    PROVE  TransfersInv'
<1>1. /\ pending' = pending \ {w} /\ UNCHANGED <<requests, answers, agent, unused>>
      /\ \/ file' = Put(file, w.at, w.version) /\ UNCHANGED <<call, hitches>>
         \/ /\ call' = [call EXCEPT !.quiet = FALSE] /\ file' = file
            /\ hitches' \in 0 .. LineFaults
  BY TransferAssumption DEF Settle, Hitch, TransfersInv, TransferTypes
<1>2. /\ call \in CallRec /\ file \in Seq(Stored) /\ Len(file) \in Nat /\ Len(file) <= MaxChunks
      /\ w \in [at : 1 .. MaxChunks, version : Versions]
  BY DEF TransfersInv, TransferTypes
<1>3. PICK k, v : k = w.at /\ v = w.version
  OBVIOUS
<1>4. /\ k \in Nat \ {0} /\ k <= MaxChunks /\ v \in Versions /\ w = [at |-> k, version |-> v]
      /\ MaxChunks \in Nat
  BY <1>2, <1>3, TransferAssumption
<1>5. /\ call.quiet => call.kind = "write" /\ v = call.version
  BY <1>3 DEF TransfersInv, PendingInv
<1>6. CASE file' = Put(file, w.at, w.version) /\ UNCHANGED <<call, hitches>>
  <2>1. file' = Put(file, k, v)
    BY <1>3, <1>6
  <2>2. file' \in Seq(Stored) /\ Len(file') <= MaxChunks /\ Len(file) <= Len(file')
        /\ Len(file') \in Nat
    <3>1. PICK g : g = Put(file, k, v)
      OBVIOUS
    <3>2. /\ g \in Seq(Stored) /\ Len(file) <= Len(g)
          /\ Len(g) = IF k > Len(file) THEN k ELSE Len(file)
      BY <1>2, <1>4, <3>1, PutKeeps
    <3> QED BY <1>2, <1>4, <2>1, <3>1, <3>2
  <2>3. TransferTypes'
    BY <1>1, <1>6, <2>2 DEF TransfersInv, TransferTypes
  <2>4. AgentInv'
    BY <1>1, <1>2, <1>6, <2>2 DEF TransfersInv, TransferTypes, AgentRec, AgentInv
  <2>5. RequestsInv'
    BY <1>1, <1>6 DEF TransfersInv, RequestsInv
  <2>6. PendingInv'
    BY <1>1, <1>6 DEF TransfersInv, PendingInv
  <2>7. \A j \in Nat \ {0} : Arrives(j, v) => Arrives(j, v)'
    BY <1>1, <1>4, <2>1, PutArrives
  <2>8. \A n : call.quiet /\ Arrived(n, call.version) => Arrived(n, call.version)'
    <3>1. \A n : Arrived(n, v) => Arrived(n, v)'
      BY <2>7 DEF Arrived
    <3> QED BY <1>5, <1>6, <3>1
  <2>9. PICK n, m, u : n = call.size /\ m = call.size - Len(requests) /\ u = call.version
    OBVIOUS
  <2>10. WriteInv'
    BY <1>1, <1>6, <2>8, <2>9 DEF TransfersInv, WriteInv
  <2>11. ReadInv'
    BY <1>1, <1>5, <1>6 DEF TransfersInv, ReadInv, Holds
  <2> QED BY <2>3, <2>4, <2>5, <2>6, <2>10, <2>11 DEF TransfersInv
<1>7. CASE /\ call' = [call EXCEPT !.quiet = FALSE] /\ file' = file
           /\ hitches' \in 0 .. LineFaults
  <2> DEFINE c == [call EXCEPT !.quiet = FALSE]
  <2>1. /\ c \in CallRec /\ c.kind = call.kind /\ c.pc = call.pc /\ c.ok = call.ok
        /\ c.version = call.version /\ c.closed = call.closed /\ c.got = call.got
        /\ c.size = call.size /\ c.refused = call.refused /\ ~ c.quiet
    BY <1>2 DEF CallRec
  <2>2. call' = c
    BY <1>7
  <2> HIDE DEF c
  <2>3. TransferTypes'
    BY <1>1, <1>7, <2>1, <2>2 DEF TransfersInv, TransferTypes
  <2>4. AgentInv'
    BY <1>1, <1>7, <2>1, <2>2 DEF TransfersInv, AgentInv
  <2>5. RequestsInv'
    BY <1>1, <1>7, <2>1, <2>2 DEF TransfersInv, RequestsInv, Part
  <2>6. PendingInv'
    BY <2>1, <2>2 DEF PendingInv
  <2>7. WriteInv'
    BY <1>1, <2>1, <2>2 DEF TransfersInv, WriteInv, Queued
  <2>8. ReadInv'
    BY <1>1, <1>7, <2>1, <2>2 DEF TransfersInv, ReadInv, Holds
  <2> QED BY <2>3, <2>4, <2>5, <2>6, <2>7, <2>8 DEF TransfersInv
<1> QED BY <1>1, <1>6, <1>7

\* The agent answers a reading with e and is a after that.
LEMMA Answering ==
    ASSUME TransfersInv, agent.pc = "reading", NEW e \in AnswerRec, NEW a \in AgentRec,
           answers' = Append(answers, e), agent' = a, hitches' \in 0 .. LineFaults,
           UNCHANGED <<file, pending, requests, call, unused>>, e.kind # "ack",
           e.kind = "chunk" => /\ Len(e.data) = 1 /\ (e.last <=> agent.at = agent.total)
                               /\ e.data[1] = file[agent.at],
           a.pc = "idle" => a = Resting,
           a.pc = "reading" => a.at = agent.at + 1 /\ a.at <= a.total /\ a.total = agent.total
    PROVE  TransfersInv'
<1>1. /\ answers \in Seq(AnswerRec) /\ agent \in AgentRec /\ call \in CallRec /\ file \in Seq(Stored)
      /\ call.kind = "read" /\ requests = <<>> /\ 1 <= agent.at /\ agent.at <= agent.total
      /\ agent.total <= Len(file)
  BY DEF TransfersInv, TransferTypes, AgentInv
<1>2. /\ agent.at \in Nat /\ agent.total \in Nat /\ call.size \in Nat /\ call.got \in Seq(Stored)
      /\ Len(call.got) \in Nat
  BY <1>1 DEF AgentRec, CallRec
<1>3. /\ answers' \in Seq(AnswerRec) /\ answers' # <<>>
      /\ Len(answers') = Len(answers) + 1 /\ Len(answers) \in Nat
      /\ answers'[Len(answers) + 1] = e
      /\ \A i \in 1 .. Len(answers) : answers'[i] = answers[i]
  BY <1>1, AppendOf
<1>4. TransferTypes'
  BY <1>3 DEF TransfersInv, TransferTypes
<1>5. AgentInv'
  <2>1. a.pc = "reading" => 1 <= a.at /\ a.at <= a.total /\ a.total <= Len(file)
    BY <1>1, <1>2
  <2> QED BY <1>1, <2>1 DEF AgentInv
<1>6. RequestsInv' /\ PendingInv'
  BY DEF TransfersInv, RequestsInv, PendingInv
<1>7. WriteInv'
  BY <1>1 DEF WriteInv
<1>8. ASSUME call.pc = "waiting", NEW i \in 1 .. Len(answers')
      PROVE  /\ answers'[i].kind # "ack"
             /\ answers'[i].kind = "chunk" => Holds(answers'[i], Len(call.got) + i, call, file)
  <2>1. CASE i \in 1 .. Len(answers)
    <3>1. /\ answers[i].kind # "ack"
          /\ answers[i].kind = "chunk" => Holds(answers[i], Len(call.got) + i, call, file)
      BY <1>1, <1>8, <2>1 DEF TransfersInv, ReadInv
    <3> QED BY <1>3, <2>1, <3>1
  <2>2. CASE i \notin 1 .. Len(answers)
    <3>1. i = Len(answers) + 1 /\ answers'[i] = e
      BY <1>3, <2>2
    <3>2. agent.total = call.size /\ agent.at = Len(call.got) + i
      <4>1. agent.total = call.size /\ agent.at = Len(call.got) + Len(answers) + 1
        BY <1>1, <1>8 DEF TransfersInv, ReadInv
      <4>2. PICK m, l : m = Len(call.got) /\ l = Len(answers)
        OBVIOUS
      <4>3. m \in Nat /\ l \in Nat /\ i = l + 1 /\ agent.at = m + l + 1
        BY <1>2, <1>3, <3>1, <4>1, <4>2
      <4>4. agent.at = m + i
        BY <4>3
      <4> QED BY <4>1, <4>2, <4>4
    <3>3. e.kind = "chunk" => Holds(e, agent.at, call, file)
      BY <1>1, <1>2, <3>2 DEF Holds
    <3> QED BY <3>1, <3>2, <3>3
  <2> QED BY <2>1, <2>2
<1>9. ReadInv'
  <2>1. /\ call.quiet => /\ Len(call.got) <= Len(file)
                         /\ \A i \in 1 .. Len(call.got) : call.got[i] = file[i]
        /\ call.pc = "waiting" =>
              /\ Len(call.got) <= call.size
              /\ agent.total = call.size /\ agent.at = Len(call.got) + Len(answers) + 1
        /\ ~ (call.pc = "done" /\ call.ok /\ ~ call.closed)
    BY <1>1 DEF TransfersInv, ReadInv, Resting
  <2>2. PICK m, q : m = Len(answers') /\ q = answers'
    OBVIOUS
  <2>3. call.pc = "waiting" /\ a.pc = "reading" =>
            a.total = call.size /\ a.at = Len(call.got) + m + 1
    <3>1. PICK g, l : g = Len(call.got) /\ l = Len(answers)
      OBVIOUS
    <3>2. g \in Nat /\ l \in Nat /\ m = l + 1
      BY <1>2, <1>3, <2>2, <3>1
    <3>3. call.pc = "waiting" => agent.total = call.size /\ agent.at = g + l + 1
      BY <2>1, <3>1
    <3>4. a.pc = "reading" => a.at = agent.at + 1 /\ a.total = agent.total
      OBVIOUS
    <3>5. g + m + 1 = (g + l + 1) + 1
      BY <3>2
    <3> QED BY <3>1, <3>3, <3>4, <3>5
  <2>4. call.pc = "waiting" => \A i \in 1 .. m :
            /\ q[i].kind # "ack"
            /\ q[i].kind = "chunk" => Holds(q[i], Len(call.got) + i, call, file)
    BY <1>8, <2>2
  <2> QED BY <1>1, <2>1, <2>2, <2>3, <2>4 DEF ReadInv
<1> QED BY <1>4, <1>5, <1>6, <1>7, <1>9 DEF TransfersInv

LEMMA ReadChunkStep == ASSUME TransfersInv, ReadChunk PROVE TransfersInv'
<1>0. PICK g : g = agent
  OBVIOUS
<1>a. PICK last \in BOOLEAN : last = (g.at >= g.total)
  <2>1. \A m, n \in Nat : \E b \in BOOLEAN : b = (m >= n)
    <3> TAKE m, n \in Nat
    <3>1. CASE m >= n
      <4>1. (m >= n) = TRUE
        BY <3>1
      <4> QED BY <4>1
    <3>2. CASE ~ (m >= n)
      <4>1. (m >= n) = FALSE
        BY <3>2
      <4> QED BY <4>1
    <3> QED BY <3>1, <3>2
  <2>2. g.at \in Nat /\ g.total \in Nat
    BY <1>0 DEF TransfersInv, TransferTypes, AgentRec
  <2> QED BY <2>1, <2>2
<1> DEFINE e == [kind |-> "chunk", last |-> last, data |-> <<file[g.at]>>]
           a == IF last THEN Resting ELSE [g EXCEPT !.at = g.at + 1]
<1>1. /\ agent.pc = "reading" /\ answers' = Append(answers, e) /\ agent' = a
      /\ UNCHANGED <<file, pending, requests, call, unused, hitches>>
  BY <1>0, <1>a DEF ReadChunk, Reply
<1>2. /\ g \in AgentRec /\ g.at \in Nat /\ g.total \in Nat /\ file \in Seq(Stored)
      /\ 1 <= g.at /\ g.at <= g.total /\ g.total <= Len(file) /\ last \in BOOLEAN
      /\ (last <=> g.at = g.total) /\ Len(file) \in Nat /\ g.pc = "reading"
      /\ hitches \in 0 .. LineFaults
  <2>1. /\ g \in AgentRec /\ g.at \in Nat /\ g.total \in Nat /\ file \in Seq(Stored)
        /\ 1 <= g.at /\ g.at <= g.total /\ g.total <= Len(file)
        /\ Len(file) \in Nat /\ g.pc = "reading" /\ hitches \in 0 .. LineFaults
    BY <1>0, <1>1 DEF TransfersInv, TransferTypes, AgentInv, AgentRec
  <2>2. last <=> g.at >= g.total
    BY <1>a
  <2> QED BY <2>1, <2>2
<1>3. file[g.at] \in Stored
  BY <1>2
<1>4. e \in AnswerRec /\ e.kind = "chunk" /\ Len(e.data) = 1 /\ e.data[1] = file[g.at]
      /\ (e.last <=> g.at = g.total)
  <2>1. <<file[g.at]>> \in Seq(Stored)
    BY <1>3
  <2> QED BY <1>2, <2>1 DEF AnswerRec
<1>5. /\ a \in AgentRec /\ (a.pc = "idle" => a = Resting)
      /\ (a.pc = "reading" => a.at = g.at + 1 /\ a.at <= a.total /\ a.total = g.total)
  <2>1. CASE last
    BY <2>1 DEF Resting, AgentRec
  <2>2. CASE ~ last
    <3>1. a = [g EXCEPT !.at = g.at + 1]
      BY <2>2
    <3>2. a \in AgentRec /\ a.pc = "reading" /\ a.at = g.at + 1 /\ a.total = g.total
      BY <1>2, <3>1 DEF AgentRec
    <3>3. g.at + 1 <= g.total
      BY <1>2, <2>2
    <3> QED BY <3>2, <3>3
  <2> QED BY <2>1, <2>2
<1> HIDE DEF e, a
<1>6. e.kind # "ack" /\ hitches' \in 0 .. LineFaults
  BY <1>1, <1>2, <1>4
<1> QED BY <1>0, <1>1, <1>4, <1>5, <1>6, Answering

LEMMA ReadFailsStep == ASSUME TransfersInv, ReadFails PROVE TransfersInv'
<1>1. /\ agent.pc = "reading" /\ answers' = Append(answers, ErrorAnswer) /\ agent' = Resting
      /\ hitches' \in 0 .. LineFaults /\ UNCHANGED <<file, pending, requests, call, unused>>
  BY TransferAssumption DEF ReadFails, Reply, Hitch, ErrorAnswer, TransfersInv, TransferTypes
<1>2. Resting \in AgentRec /\ Resting.pc = "idle"
  BY DEF Resting, AgentRec
<1>3. ErrorAnswer \in AnswerRec /\ ErrorAnswer.kind = "error"
  BY AnswersAre DEF ErrorAnswer
<1> QED BY <1>1, <1>2, <1>3, Answering

LEMMA OpenToReadStep == ASSUME TransfersInv, OpenToRead PROVE TransfersInv'
<1>0. PICK n : n = Len(file)
  OBVIOUS
<1> DEFINE c == [call EXCEPT !.size = n]
           e == [kind |-> "chunk", last |-> TRUE, data |-> <<>>]
           a == [pc |-> "reading", at |-> 1, total |-> n]
<1>1. /\ agent = Resting /\ requests # <<>> /\ Head(requests).kind = "read"
      /\ requests' = Tail(requests) /\ call' = c
      /\ \/ file = <<>> /\ answers' = Append(answers, e) /\ agent' = agent
         \/ file # <<>> /\ agent' = a /\ answers' = answers
      /\ UNCHANGED <<file, pending, unused, hitches>>
  BY <1>0 DEF OpenToRead, Reply
<1>2. /\ call \in CallRec /\ answers \in Seq(AnswerRec) /\ file \in Seq(Stored) /\ n \in Nat
      /\ (file # <<>> => 1 <= n)
  BY <1>0 DEF TransfersInv, TransferTypes
<1>3. call.kind = "read"
  BY <1>1, TailOf DEF TransfersInv, TransferTypes, RequestsInv, Part
<1>4. /\ c \in CallRec /\ c.kind = call.kind /\ c.pc = call.pc /\ c.ok = call.ok
      /\ c.version = call.version /\ c.closed = call.closed /\ c.got = call.got
      /\ c.size = n /\ c.quiet = call.quiet /\ c.refused = call.refused
  BY <1>2 DEF CallRec
<1>5. /\ e \in AnswerRec /\ e.kind = "chunk" /\ e.last /\ e.data = <<>>
      /\ a \in AgentRec /\ a.pc = "reading" /\ a.at = 1 /\ a.total = n
  BY <1>2 DEF AnswerRec, AgentRec
<1> HIDE DEF c, e, a
<1>6. Taken(c)
  BY <1>1, <1>3, <1>4 DEF Taken
<1>7. /\ requests' \in Seq(RequestRec) /\ Len(requests') <= MaxChunks + 1 /\ RequestsInv'
      /\ requests' = <<>> /\ ~ (c.pc = "done" /\ c.ok /\ ~ c.closed)
  BY <1>3, <1>6, TakenKeeps
<1>8. answers' \in Seq(AnswerRec) /\ agent' \in AgentRec
  <2>1. Append(answers, e) \in Seq(AnswerRec)
    BY <1>2, <1>5, AppendOf
  <2> QED BY <1>1, <1>2, <1>5, <2>1 DEF TransfersInv, TransferTypes
<1>9. TransferTypes'
  BY <1>1, <1>4, <1>7, <1>8 DEF TransfersInv, TransferTypes
<1>10. AgentInv'
  BY <1>0, <1>1, <1>2, <1>3, <1>4, <1>5, <1>7 DEF AgentInv, Resting
<1>11. PendingInv'
  BY <1>1, <1>4 DEF TransfersInv, PendingInv
<1>12. WriteInv'
  BY <1>1, <1>3, <1>4 DEF WriteInv
<1>13. ReadInv'
  <2>1. /\ c.quiet => /\ Len(c.got) <= Len(file)
                      /\ \A i \in 1 .. Len(c.got) : c.got[i] = file[i]
        /\ c.pc = "waiting" => c.got = <<>> /\ answers = <<>>
    BY <1>1, <1>3, <1>4 DEF TransfersInv, ReadInv
  <2>2. PICK d, q, g, r : d = c /\ q = answers' /\ g = agent' /\ r = requests'
    OBVIOUS
  <2>3. ASSUME d.pc = "waiting"
        PROVE  /\ Len(d.got) <= d.size /\ d.got = <<>>
               /\ g.pc = "reading" => g.total = d.size /\ g.at = Len(d.got) + Len(q) + 1
               /\ \A i \in 1 .. Len(q) :
                     /\ q[i].kind # "ack"
                     /\ q[i].kind = "chunk" => Holds(q[i], Len(d.got) + i, d, file)
    <3>1. d.got = <<>> /\ Len(d.got) = 0 /\ d.size = n /\ answers = <<>>
      BY <1>4, <2>1, <2>2, <2>3
    <3>2. CASE file = <<>>
      <4>1. q = <<e>> /\ g = Resting /\ n = 0
        BY <1>0, <1>1, <2>2, <3>1, <3>2
      <4>2. \A i \in 1 .. Len(q) : q[i] = e
        BY <4>1
      <4> QED BY <1>5, <3>1, <4>1, <4>2 DEF Holds, Resting
    <3>3. CASE file # <<>>
      <4>1. q = <<>> /\ g = a
        BY <1>1, <2>2, <3>1, <3>3
      <4> QED BY <1>2, <1>5, <3>1, <4>1
    <3> QED BY <3>2, <3>3
  <2>4. /\ call' = d /\ answers' = q /\ agent' = g /\ requests' = r /\ r = <<>> /\ file' = file
        /\ ~ (d.pc = "done" /\ d.ok /\ ~ d.closed)
        /\ d.quiet => /\ Len(d.got) <= Len(file)
                      /\ \A i \in 1 .. Len(d.got) : d.got[i] = file[i]
    BY <1>1, <1>7, <2>1, <2>2
  <2> QED BY <2>3, <2>4 DEF ReadInv
<1> QED BY <1>7, <1>9, <1>10, <1>11, <1>12, <1>13 DEF TransfersInv

LEMMA OpenUnmeasuredStep == ASSUME TransfersInv, OpenUnmeasured PROVE TransfersInv'
<1> DEFINE c == [call EXCEPT !.size = 0, !.unmeasured = TRUE]
           e == [kind |-> "chunk", last |-> TRUE, data |-> <<>>]
<1>1. /\ agent = Resting /\ requests # <<>> /\ Head(requests).kind = "read"
      /\ requests' = Tail(requests) /\ call' = c /\ answers' = Append(answers, e)
      /\ agent' = agent /\ hitches' \in 0 .. LineFaults
      /\ UNCHANGED <<file, pending, unused>>
  BY TransferAssumption DEF OpenUnmeasured, Reply, Hitch, TransfersInv, TransferTypes
<1>2. call \in CallRec /\ answers \in Seq(AnswerRec) /\ file \in Seq(Stored)
  BY DEF TransfersInv, TransferTypes
<1>3. call.kind = "read"
  BY <1>1, TailOf, SMTT(60) DEF TransfersInv, TransferTypes, RequestsInv, Part
<1>4. /\ c \in CallRec /\ c.kind = call.kind /\ c.pc = call.pc /\ c.ok = call.ok
      /\ c.version = call.version /\ c.closed = call.closed /\ c.got = call.got
      /\ c.size = 0 /\ c.quiet = call.quiet /\ c.refused = call.refused
  BY <1>2 DEF CallRec
<1>5. e \in AnswerRec /\ e.kind = "chunk" /\ e.last /\ e.data = <<>>
  BY DEF AnswerRec
<1> HIDE DEF c, e
<1>6. Taken(c)
  BY <1>1, <1>3, <1>4 DEF Taken
<1>7. /\ requests' \in Seq(RequestRec) /\ Len(requests') <= MaxChunks + 1 /\ RequestsInv'
      /\ requests' = <<>> /\ ~ (c.pc = "done" /\ c.ok /\ ~ c.closed)
  BY <1>3, <1>6, TakenKeeps
<1>8. answers' \in Seq(AnswerRec)
  BY <1>1, <1>2, <1>5, AppendOf
<1>9. TransferTypes'
  BY <1>1, <1>4, <1>7, <1>8 DEF TransfersInv, TransferTypes
<1>10. AgentInv'
  BY <1>1 DEF AgentInv, Resting
<1>11. PendingInv'
  BY <1>1, <1>4 DEF TransfersInv, PendingInv
<1>12. WriteInv'
  BY <1>1, <1>3, <1>4 DEF WriteInv
<1>13. ReadInv'
  <2>1. /\ c.quiet => /\ Len(c.got) <= Len(file)
                      /\ \A i \in 1 .. Len(c.got) : c.got[i] = file[i]
        /\ c.pc = "waiting" => c.got = <<>> /\ answers = <<>>
    BY <1>1, <1>3, <1>4 DEF TransfersInv, ReadInv
  <2>2. PICK d, q, g, r : d = c /\ q = answers' /\ g = agent' /\ r = requests'
    OBVIOUS
  <2>3. ASSUME d.pc = "waiting"
        PROVE  /\ Len(d.got) <= d.size /\ d.got = <<>>
               /\ g.pc = "reading" => g.total = d.size /\ g.at = Len(d.got) + Len(q) + 1
               /\ \A i \in 1 .. Len(q) :
                     /\ q[i].kind # "ack"
                     /\ q[i].kind = "chunk" => Holds(q[i], Len(d.got) + i, d, file)
    <3>1. d.got = <<>> /\ Len(d.got) = 0 /\ d.size = 0 /\ answers = <<>>
      BY <1>4, <2>1, <2>2, <2>3
    <3>2. q = <<e>> /\ g = Resting
      BY <1>1, <2>2, <3>1
    <3>3. \A i \in 1 .. Len(q) : q[i] = e
      BY <3>2
    <3> QED BY <1>5, <3>1, <3>2, <3>3 DEF Holds, Resting
  <2>4. /\ call' = d /\ answers' = q /\ agent' = g /\ requests' = r /\ r = <<>> /\ file' = file
        /\ ~ (d.pc = "done" /\ d.ok /\ ~ d.closed)
        /\ d.quiet => /\ Len(d.got) <= Len(file)
                      /\ \A i \in 1 .. Len(d.got) : d.got[i] = file[i]
    BY <1>1, <1>7, <2>1, <2>2
  <2> QED BY <2>3, <2>4 DEF ReadInv
<1> QED BY <1>7, <1>9, <1>10, <1>11, <1>12, <1>13 DEF TransfersInv

\* Only OpenUnmeasured leaves a file unmeasured, and only a new call asks for more.
LEMMA MeasuredPreserved == TransfersInv /\ Measured /\ [TransfersNext]_transferVars => Measured'
<1> SUFFICES ASSUME TransfersInv, Measured, [TransfersNext]_transferVars PROVE Measured'
  OBVIOUS
<1>1. call \in CallRec /\ requests \in Seq(RequestRec) /\ ~ NoCall.unmeasured
  BY DEF TransfersInv, TransferTypes, NoCall
<1>2. CASE UNCHANGED transferVars
  BY <1>2 DEF transferVars, Measured
<1>3. ASSUME NEW v \in Versions, NEW n \in 0 .. MaxChunks, WriteFile(v, n) PROVE Measured'
  BY <1>3 DEF WriteFile, Measured, NoCall
<1>4. CASE ReadFile
  BY <1>4 DEF ReadFile, Measured, NoCall
<1>5. CASE ReadAnswer
  BY <1>1, <1>5 DEF ReadAnswer, Measured, CallRec
<1>6. CASE Disconnect
  <2>1. call'.unmeasured = call.unmeasured /\ call'.size = call.size
    BY <1>1, <1>6 DEF Disconnect, CallRec
  <2>2. PICK m \in 0 .. Len(requests) : requests' = SubSeq(requests, 1, m)
    BY <1>6 DEF Disconnect
  <2>3. requests = <<>> => requests' = <<>>
    BY <2>2
  <2> QED BY <2>1, <2>3 DEF Measured
<1>7. CASE OpenUnmeasured
  <2>1. call.kind = "read"
    BY <1>7, TailOf DEF OpenUnmeasured, TransfersInv, TransferTypes, RequestsInv, Part
  <2>2. Len(requests) <= 1
    BY <2>1 DEF TransfersInv, RequestsInv
  <2>3. requests' = <<>>
    BY <1>1, <1>7, <2>2 DEF OpenUnmeasured
  <2> QED BY <1>1, <1>7, <2>3 DEF OpenUnmeasured, Measured, CallRec
<1>8. CASE Refuse \/ WriteChunk \/ LastChunkLost \/ OpenToRead
  <2>1. requests # <<>> /\ call'.unmeasured = call.unmeasured
    BY <1>1, <1>8 DEF Refuse, WriteChunk, LastChunkLost, OpenToRead, CallRec
  <2> QED BY <2>1 DEF Measured
<1>9. CASE ReadChunk \/ ReadFails
  BY <1>9 DEF ReadChunk, ReadFails, Measured
<1>10. ASSUME NEW w \in pending, Settle(w) PROVE Measured'
  <2>1. /\ call'.unmeasured = call.unmeasured /\ call'.size = call.size
        /\ requests' = requests
    BY <1>1, <1>10 DEF Settle, CallRec
  <2> QED BY <2>1 DEF Measured
<1> QED BY <1>2, <1>3, <1>4, <1>5, <1>6, <1>7, <1>8, <1>9, <1>10 DEF TransfersNext

LEMMA TransfersPreserved == TransfersInv /\ [TransfersNext]_transferVars => TransfersInv'
<1> SUFFICES ASSUME TransfersInv, [TransfersNext]_transferVars PROVE TransfersInv'
  OBVIOUS
<1>1. CASE UNCHANGED transferVars
  BY <1>1 DEF transferVars, TransfersInv, TransferTypes, AgentInv, RequestsInv, PendingInv,
              WriteInv, ReadInv, Arrived, Arrives
<1>2. ASSUME NEW v \in Versions, NEW n \in 0 .. MaxChunks, WriteFile(v, n) PROVE TransfersInv'
  BY <1>2, WriteFileStep
<1>3. ASSUME NEW w \in pending, Settle(w) PROVE TransfersInv'
  BY <1>3, SettleStep
<1> QED BY <1>1, <1>2, <1>3, ReadFileStep, ReadAnswerStep, DisconnectStep, RefuseStep,
           WriteChunkStep, LastChunkLostStep, OpenToReadStep, OpenUnmeasuredStep,
           ReadChunkStep, ReadFailsStep
           DEF TransfersNext

-----------------------------------------------------------------------------
(* Demand: rates stay between those that were seen, and records are cut by  *)
(* the requests that made them too long.                                    *)

Rates == Nat \cup {Unknown}
PerKind == UNION {[S -> Nat] : S \in SUBSET Kinds}
RunRec == [pc : {"idle", "collecting", "reading", "storing"}, left : SUBSET Kinds,
           demand : PerKind, kind : Kinds \cup {"none"}, previous : Rates, target : PerKind,
           steady : SUBSET Kinds]
RecorderRec == [pc : {"idle", "timed", "pushed"}, kind : Kinds \cup {"none"}, time : Nat]

\* Between the desired sizes of pools for the lowest and the highest rate.
Sized(n, ns) == Between(n, {Desired(rate) : rate \in ns})

\* What a run knows, of the records and the rates that were seen.
Runs(q, rec, sn) ==
    /\ q.pc \in {"reading", "storing"} => q.left = {}
    /\ q.pc = "collecting" => DOMAIN q.target = {}
    /\ \A k \in DOMAIN q.demand : q.demand[k] \in sn[k]
    /\ q.steady \subseteq DOMAIN q.demand \cup q.left
    /\ \A k \in q.steady : rec[k] # <<>>
    /\ q.pc = "storing" =>
          /\ q.kind \in DOMAIN q.demand /\ q.previous \in Nat
          /\ Between(q.previous, sn[q.kind])
    /\ \A k \in DOMAIN q.target : Sized(q.target[k], sn[k])

Cutters == {r \in Recorders : recorder[r].pc = "pushed"}

DemandTypes ==
    /\ now \in 0 .. LastTick /\ demandOps \in 0 .. DemandOps
    /\ record \in [Kinds -> Seq(Nat)]
    /\ recorder \in [Recorders -> RecorderRec]
    /\ smoothed \in [Kinds -> Rates]
    /\ prewarm \in [Prewarmers -> RunRec]
    /\ seen \in [Kinds -> SUBSET Nat]

RecordsInv ==
    /\ \A k \in Kinds : \A i \in 1 .. Len(record[k]) : record[k][i] <= now
    /\ \A r \in Recorders : recorder[r].pc # "idle" =>
          recorder[r].kind \in Kinds /\ recorder[r].time <= now
    /\ IsFiniteSet(Cutters)
    /\ \A k \in Kinds : Len(record[k]) <= MaxRecord + Cardinality(Uncut(k))

RunsInv ==
    /\ \A k \in Kinds : smoothed[k] # Unknown => Between(smoothed[k], seen[k])
    /\ \A p \in Prewarmers : Runs(prewarm[p], record, seen)

DemandInv == DemandTypes /\ RecordsInv /\ RunsInv

-----------------------------------------------------------------------------

LEMMA DivideBounds ==
    ASSUME NEW n \in Nat
    PROVE  /\ n \div 10 \in Nat /\ 10 * (n \div 10) <= n /\ n < 10 * (n \div 10) + 10
           /\ n \div 200 \in Nat /\ 200 * (n \div 200) <= n /\ n < 200 * (n \div 200) + 200
OBVIOUS

\* The average is between what it is made of.
LEMMA SmoothBetween ==
    ASSUME NEW a \in Nat, NEW b \in Nat, NEW S \in SUBSET Nat, Between(a, S), Between(b, S)
    PROVE  Smooth(a, b) \in Nat /\ Between(Smooth(a, b), S)
<1>1. PICK l \in S, m \in S : l <= a /\ m <= b
  BY DEF Between
<1>2. PICK lo \in S : lo <= a /\ lo <= b
  BY <1>1
<1>3. PICK h \in S, i \in S : a <= h /\ b <= i
  BY DEF Between
<1>4. PICK hi \in S : a <= hi /\ b <= hi
  BY <1>3
<1> DEFINE n == 3 * a + 7 * b
           q == n \div 10
<1>5. n \in Nat /\ lo \in Nat /\ hi \in Nat /\ 10 * lo <= n /\ n <= 10 * hi
  BY <1>2, <1>4
<1> HIDE DEF n
<1>6. q \in Nat /\ 10 * q <= n /\ n < 10 * q + 10
  BY <1>5, DivideBounds
<1> HIDE DEF q
<1>7. lo <= q /\ q <= hi
  BY <1>5, <1>6
<1>8. Smooth(a, b) = q
  BY DEF Smooth, n, q
<1> QED BY <1>6, <1>7, <1>8 DEF Between

\* More requests never want a smaller pool.
LEMMA DesiredGrows ==
    ASSUME NEW a \in Nat, NEW b \in Nat, a <= b
    PROVE  Desired(a) \in Nat /\ Desired(a) <= Desired(b)
<1> DEFINE m == (3 * a + 199) \div 200
           n == (3 * b + 199) \div 200
<1>1. 3 * a + 199 \in Nat /\ 3 * b + 199 \in Nat /\ 3 * a + 199 <= 3 * b + 199
  OBVIOUS
<1>2. /\ m \in Nat /\ 200 * m <= 3 * a + 199
      /\ n \in Nat /\ 3 * b + 199 < 200 * n + 200
  BY <1>1, DivideBounds
<1>3. Desired(a) = (IF Clamp(m) < HostCapacity THEN Clamp(m) ELSE HostCapacity)
      /\ Desired(b) = (IF Clamp(n) < HostCapacity THEN Clamp(n) ELSE HostCapacity)
  BY DEF Desired
<1> HIDE DEF m, n
<1>4. m <= n
  BY <1>1, <1>2
<1> QED BY <1>2, <1>3, <1>4 DEF Clamp, MinPool, MaxPool, HostCapacity

LEMMA DesiredSized ==
    ASSUME NEW a \in Nat, NEW S \in SUBSET Nat, Between(a, S)
    PROVE  Sized(Desired(a), S)
<1>1. PICK l \in S, h \in S : l <= a /\ a <= h
  BY DEF Between
<1>2. Desired(l) <= Desired(a) /\ Desired(a) <= Desired(h)
  BY <1>1, DesiredGrows
<1> QED BY <1>2 DEF Sized, Between

LEMMA WiderBetween ==
    ASSUME NEW n, NEW S, NEW T, S \subseteq T
    PROVE  (Between(n, S) => Between(n, T)) /\ (Sized(n, S) => Sized(n, T))
BY DEF Between, Sized

LEMMA RateNatural ==
    ASSUME DemandTypes, NEW k \in Kinds
    PROVE  Rate(k) \in Nat
<1>1. DOMAIN record[k] = 1 .. Len(record[k]) /\ Len(record[k]) \in Nat
  BY DEF DemandTypes
<1>2. IsFiniteSet(1 .. Len(record[k]))
  BY <1>1, FS_Interval
<1>3. InWindow(k) \in SUBSET (1 .. Len(record[k]))
  BY <1>1 DEF InWindow
<1>4. Cardinality(InWindow(k)) \in Nat
  BY <1>2, <1>3, FS_Subset, FS_CardinalityType
<1> QED BY <1>4, DemandAssumption DEF Rate

LEMMA DemandInitially == DemandInit => DemandInv
<1> SUFFICES ASSUME DemandInit PROVE DemandInv
  OBVIOUS
<1>1. [k \in {} |-> 0] \in PerKind
  BY DEF PerKind
<1>2. NoRun \in RunRec
  BY <1>1 DEF NoRun, RunRec, Rates
<1>3. NoRecord \in RecorderRec /\ NoRecord.pc = "idle"
  BY DEF NoRecord, RecorderRec
<1>4. DemandTypes
  BY <1>2, <1>3, DemandAssumption DEF DemandInit, DemandTypes, Rates
<1>5. \A k \in Kinds : record[k] = <<>> /\ smoothed[k] = Unknown
  BY DEF DemandInit
<1>6. \A r \in Recorders : recorder[r].pc = "idle"
  BY <1>3 DEF DemandInit
<1>7. IsFiniteSet(Cutters) /\ \A k \in Kinds : Uncut(k) = {}
  <2>1. Cutters = {} /\ \A k \in Kinds : Uncut(k) = {}
    BY <1>6 DEF Cutters, Uncut
  <2> QED BY <2>1, FS_EmptySet
<1>8. ASSUME NEW k \in Kinds PROVE Len(record[k]) <= MaxRecord + Cardinality(Uncut(k))
  <2>1. Uncut(k) = {} /\ Cardinality({}) = 0 /\ record[k] = <<>>
    BY <1>5, <1>7, FS_EmptySet
  <2>2. MaxRecord \in Nat
    BY DemandAssumption
  <2>3. Cardinality(Uncut(k)) = 0 /\ Len(record[k]) = 0
    BY <2>1
  <2> QED BY <2>2, <2>3
<1>9. \A rec, sn : Runs(NoRun, rec, sn)
  BY DEF Runs, NoRun
<1>10. \A p \in Prewarmers : Runs(prewarm[p], record, seen)
  BY <1>9 DEF DemandInit
<1> QED BY <1>4, <1>5, <1>6, <1>7, <1>8, <1>10 DEF DemandInv, RecordsInv, RunsInv

LEMMA DemandImplied == DemandInv => DemandTypeOK /\ PrewarmSound
<1> SUFFICES ASSUME DemandInv PROVE DemandTypeOK /\ PrewarmSound
  OBVIOUS
<1>1. ASSUME NEW k \in Kinds, NEW i \in DOMAIN record[k] PROVE record[k][i] \in 0 .. now
  <2>1. i \in 1 .. Len(record[k]) /\ record[k][i] \in Nat
    BY DEF DemandInv, DemandTypes
  <2> QED BY <2>1, DemandAssumption DEF DemandInv, DemandTypes, RecordsInv
<1>2. DemandTypeOK
  BY <1>1 DEF DemandInv, DemandTypes, DemandTypeOK, RunRec, RecorderRec, Rates
<1>3. ASSUME NEW p \in Prewarmers, Finished(p)
      PROVE  /\ prewarm[p].steady \subseteq DOMAIN prewarm[p].target
             /\ \A k \in DOMAIN prewarm[p].target :
                    Between(prewarm[p].target[k], {Desired(rate) : rate \in seen[k]})
  BY <1>3 DEF DemandInv, RunsInv, Runs, Finished, Sized
<1>4. PrewarmSound
  BY <1>3 DEF DemandInv, RecordsInv, RunsInv, PrewarmSound
<1> QED BY <1>2, <1>4

\* What the runs know stays true while records are not emptied and rates are added.
LEMMA RunsKeep ==
    ASSUME NEW q \in RunRec, NEW rec, NEW sn, NEW rec1, NEW sn1, Runs(q, rec, sn),
           \A k \in q.steady : rec[k] # <<>> => rec1[k] # <<>>,
           \A k \in Kinds : sn[k] \subseteq sn1[k]
    PROVE  Runs(q, rec1, sn1)
<1>1. DOMAIN q.demand \subseteq Kinds /\ DOMAIN q.target \subseteq Kinds
  BY DEF RunRec, PerKind
<1>2. \A k \in DOMAIN q.demand : q.demand[k] \in sn1[k]
  BY <1>1 DEF Runs
<1>3. q.pc = "storing" => Between(q.previous, sn1[q.kind])
  BY <1>1, WiderBetween DEF Runs
<1>4. \A k \in DOMAIN q.target : Sized(q.target[k], sn1[k])
  BY <1>1, WiderBetween DEF Runs
<1> QED BY <1>2, <1>3, <1>4 DEF Runs

\* A step of the records alone.
LEMMA RecordsOnly ==
    ASSUME DemandInv, UNCHANGED <<smoothed, prewarm, seen>>, DemandTypes', RecordsInv',
           \A k \in Kinds : record[k] # <<>> => record'[k] # <<>>
    PROVE  DemandInv'
<1>1. ASSUME NEW p \in Prewarmers PROVE Runs(prewarm[p], record', seen)
  <2>1. prewarm[p] \in RunRec /\ Runs(prewarm[p], record, seen)
    BY DEF DemandInv, DemandTypes, RunsInv
  <2>2. prewarm[p].steady \subseteq Kinds
    BY <2>1 DEF RunRec
  <2> QED BY <2>1, <2>2, RunsKeep
<1>2. RunsInv'
  BY <1>1 DEF DemandInv, RunsInv
<1> QED BY <1>2 DEF DemandInv

\* A step of the runs alone.
LEMMA RunsOnly ==
    ASSUME DemandInv, UNCHANGED <<now, record, recorder>>, DemandTypes', RunsInv'
    PROVE  DemandInv'
<1>1. Cutters' = Cutters /\ \A k \in Kinds : Uncut(k)' = Uncut(k)
  BY DEF Cutters, Uncut
<1>2. RecordsInv'
  BY <1>1 DEF DemandInv, RecordsInv
<1> QED BY <1>2 DEF DemandInv

LEMMA AskCounts ==
    ASSUME DemandInv, Ask
    PROVE  demandOps' \in 0 .. DemandOps
BY DemandAssumption DEF DemandInv, DemandTypes, Ask

LEMMA UncutFinite ==
    ASSUME DemandInv, NEW k \in Kinds
    PROVE  IsFiniteSet(Uncut(k)) /\ Cardinality(Uncut(k)) \in Nat
<1>1. Uncut(k) \subseteq Cutters
  BY DEF Uncut, Cutters
<1> QED BY <1>1, FS_Subset, FS_CardinalityType DEF DemandInv, RecordsInv

LEMMA TickStep == ASSUME DemandInv, Tick PROVE DemandInv'
<1>1. now < LastTick /\ now' = now + 1 /\ record' = record /\ recorder' = recorder
      /\ UNCHANGED <<smoothed, prewarm, seen, demandOps>>
  BY DEF Tick
<1>2. DemandTypes'
  BY <1>1, DemandAssumption DEF DemandInv, DemandTypes
<1>3. Cutters' = Cutters /\ \A k \in Kinds : Uncut(k)' = Uncut(k)
  BY <1>1 DEF Cutters, Uncut
<1>4. \A k \in Kinds : \A i \in 1 .. Len(record[k]) : record[k][i] <= now'
  BY <1>1, DemandAssumption DEF DemandInv, DemandTypes, RecordsInv
<1>5. \A r \in Recorders : recorder[r].pc # "idle" =>
          recorder[r].kind \in Kinds /\ recorder[r].time <= now'
  BY <1>1, DemandAssumption DEF DemandInv, DemandTypes, RecordsInv, RecorderRec
<1>6. RecordsInv'
  BY <1>1, <1>3, <1>4, <1>5 DEF DemandInv, RecordsInv
<1> QED BY <1>1, <1>2, <1>6, RecordsOnly

LEMMA TakeTimeStep ==
    ASSUME DemandInv, NEW r \in Recorders, NEW k \in Kinds, TakeTime(r, k)
    PROVE  DemandInv'
<1> DEFINE n == [pc |-> "timed", kind |-> k, time |-> now]
<1>1. /\ recorder[r].pc = "idle" /\ recorder' = [recorder EXCEPT ![r] = n]
      /\ now' = now /\ record' = record /\ Ask /\ UNCHANGED <<smoothed, prewarm, seen>>
  BY DEF TakeTime
<1>2. n \in RecorderRec /\ n.pc = "timed" /\ n.kind = k /\ n.time = now
  BY DemandAssumption DEF DemandInv, DemandTypes, RecorderRec
<1> HIDE DEF n
<1>3. DemandTypes'
  BY <1>1, <1>2, AskCounts DEF DemandInv, DemandTypes
<1>4. \A e \in Recorders : recorder'[e] = IF e = r THEN n ELSE recorder[e]
  BY <1>1 DEF DemandInv, DemandTypes
<1>5. Cutters' = Cutters /\ \A j \in Kinds : Uncut(j)' = Uncut(j)
  BY <1>1, <1>2, <1>4 DEF Cutters, Uncut
<1>6. now <= now
  BY DemandAssumption DEF DemandInv, DemandTypes
<1>7. RecordsInv'
  BY <1>1, <1>2, <1>4, <1>5, <1>6 DEF DemandInv, RecordsInv
<1> QED BY <1>1, <1>3, <1>7, RecordsOnly

LEMMA PushStep ==
    ASSUME DemandInv, NEW r \in Recorders, Push(r)
    PROVE  DemandInv'
<1>0. PICK k, t : k = recorder[r].kind /\ t = recorder[r].time
  OBVIOUS
<1> DEFINE n == [recorder[r] EXCEPT !.pc = "pushed"]
<1>1. /\ recorder[r].pc = "timed" /\ recorder' = [recorder EXCEPT ![r] = n]
      /\ record' = [record EXCEPT ![k] = Append(record[k], t)]
      /\ now' = now /\ UNCHANGED <<smoothed, prewarm, seen, demandOps>>
  BY <1>0 DEF Push
<1>2. k \in Kinds /\ t \in Nat /\ t <= now /\ recorder[r] \in RecorderRec
  BY <1>0, <1>1 DEF DemandInv, DemandTypes, RecordsInv, RecorderRec
<1>3. n \in RecorderRec /\ n.pc = "pushed" /\ n.kind = k /\ n.time = t
  BY <1>0, <1>2 DEF RecorderRec
<1> HIDE DEF n
<1>4. /\ \A e \in Recorders : recorder'[e] = IF e = r THEN n ELSE recorder[e]
      /\ \A j \in Kinds : record'[j] = IF j = k THEN Append(record[k], t) ELSE record[j]
  BY <1>1 DEF DemandInv, DemandTypes
<1>5. record[k] \in Seq(Nat)
  BY <1>2 DEF DemandInv, DemandTypes
<1>6. /\ Append(record[k], t) \in Seq(Nat) /\ Append(record[k], t) # <<>>
      /\ Len(Append(record[k], t)) = Len(record[k]) + 1
      /\ \A i \in 1 .. Len(record[k]) + 1 :
            Append(record[k], t)[i] = IF i <= Len(record[k]) THEN record[k][i] ELSE t
  BY <1>2, <1>5
<1>7. DemandTypes'
  BY <1>1, <1>2, <1>3, <1>6 DEF DemandInv, DemandTypes
<1>8. Cutters' = Cutters \cup {r} /\ IsFiniteSet(Cutters')
  <2>1. Cutters' = Cutters \cup {r}
    BY <1>3, <1>4 DEF Cutters
  <2> QED BY <2>1, FS_AddElement DEF DemandInv, RecordsInv
<1>9. ASSUME NEW j \in Kinds
      PROVE  /\ \A i \in 1 .. Len(record'[j]) : record'[j][i] <= now
             /\ Len(record'[j]) <= MaxRecord + Cardinality(Uncut(j)')
  <2>0. /\ Len(record[j]) <= MaxRecord + Cardinality(Uncut(j))
        /\ \A i \in 1 .. Len(record[j]) : record[j][i] <= now
        /\ Len(record[j]) \in Nat /\ MaxRecord \in Nat
    BY DemandAssumption DEF DemandInv, DemandTypes, RecordsInv
  <2>1. CASE j = k
    <3>1. Uncut(k)' = Uncut(k) \cup {r} /\ r \notin Uncut(k)
      BY <1>1, <1>3, <1>4 DEF Uncut
    <3>2. Cardinality(Uncut(k)') = Cardinality(Uncut(k)) + 1 /\ Cardinality(Uncut(k)) \in Nat
      BY <1>2, <3>1, UncutFinite, FS_AddElement
    <3>3. record'[k] = Append(record[k], t)
      BY <1>2, <1>4
    <3>4. Len(record'[k]) <= MaxRecord + Cardinality(Uncut(k)')
      BY <1>6, <2>0, <2>1, <3>2, <3>3
    <3>5. ASSUME NEW i \in 1 .. Len(record'[k]) PROVE record'[k][i] <= now
      <4>1. i \in 1 .. Len(record[k]) + 1
        BY <1>6, <3>3
      <4>2. CASE i <= Len(record[k])
        BY <1>6, <2>0, <2>1, <3>3, <4>1, <4>2
      <4>3. CASE ~ (i <= Len(record[k]))
        BY <1>2, <1>6, <3>3, <4>1, <4>3
      <4> QED BY <4>2, <4>3
    <3> QED BY <2>1, <3>4, <3>5
  <2>2. CASE j # k
    <3>1. Uncut(j)' = Uncut(j) /\ record'[j] = record[j]
      BY <1>1, <1>3, <1>4, <2>2, <1>0 DEF Uncut
    <3> QED BY <2>0, <3>1
  <2> QED BY <2>1, <2>2
<1>10. \A e \in Recorders : recorder'[e].pc # "idle" =>
          recorder'[e].kind \in Kinds /\ recorder'[e].time <= now
  BY <1>2, <1>3, <1>4 DEF DemandInv, RecordsInv
<1>11. RecordsInv'
  BY <1>1, <1>8, <1>9, <1>10 DEF RecordsInv
<1>12. \A j \in Kinds : record[j] # <<>> => record'[j] # <<>>
  BY <1>4, <1>6
<1> QED BY <1>1, <1>7, <1>11, <1>12, RecordsOnly

LEMMA EvictStep ==
    ASSUME DemandInv, NEW r \in Recorders, Evict(r)
    PROVE  DemandInv'
<1>0. PICK k : k = recorder[r].kind
  OBVIOUS
<1> DEFINE excess == Len(record[k]) - MaxRecord
           cut == IF excess > 0 THEN SubSeq(record[k], excess + 1, Len(record[k])) ELSE record[k]
<1>1. /\ recorder[r].pc = "pushed" /\ recorder' = [recorder EXCEPT ![r] = NoRecord]
      /\ record' = IF excess > 0
                   THEN [record EXCEPT ![k] = SubSeq(record[k], excess + 1, Len(record[k]))]
                   ELSE record
      /\ now' = now /\ UNCHANGED <<smoothed, prewarm, seen, demandOps>>
  BY <1>0 DEF Evict
<1>2. /\ k \in Kinds /\ record[k] \in Seq(Nat) /\ Len(record[k]) \in Nat
      /\ MaxRecord \in Nat \ {0} /\ (\A i \in 1 .. Len(record[k]) : record[k][i] <= now)
  BY <1>0, <1>1, DemandAssumption, SMTT(30) DEF DemandInv, DemandTypes, RecordsInv
<1>3. /\ cut \in Seq(Nat) /\ Len(cut) <= MaxRecord /\ (record[k] # <<>> => cut # <<>>)
      /\ \A i \in 1 .. Len(cut) : cut[i] <= now
  <2>1. CASE excess > 0
    <3>1. /\ excess + 1 \in Int /\ excess + 1 >= 1 /\ Len(record[k]) \in Int
          /\ excess + 1 <= Len(record[k])
          /\ Len(record[k]) - (excess + 1) + 1 = MaxRecord
      BY <1>2, <2>1
    <3>2. \A i \in excess + 1 .. Len(record[k]) : record[k][i] \in Nat
      BY <1>2, <3>1
    <3>3. cut = SubSeq(record[k], excess + 1, Len(record[k]))
      BY <2>1
    <3> HIDE DEF cut
    <3>4. /\ cut \in Seq(Nat) /\ Len(cut) = MaxRecord
          /\ \A i \in 1 .. MaxRecord : cut[i] = record[k][(excess + 1) + i - 1]
      BY <3>1, <3>2, <3>3, SubSeqProperties
    <3>5. ASSUME NEW i \in 1 .. Len(cut) PROVE cut[i] <= now
      <4>1. (excess + 1) + i - 1 \in 1 .. Len(record[k])
        BY <1>2, <3>1, <3>4
      <4> QED BY <1>2, <3>4, <4>1
    <3> QED BY <1>2, <3>4, <3>5
  <2>2. CASE ~ (excess > 0)
    BY <1>2, <2>2
  <2> QED BY <2>1, <2>2
<1>4. record' = [record EXCEPT ![k] = cut]
  <2>1. record = [record EXCEPT ![k] = record[k]]
    BY <1>2 DEF DemandInv, DemandTypes
  <2> QED BY <1>1, <2>1
<1> HIDE DEF cut, excess
<1>5. NoRecord \in RecorderRec /\ NoRecord.pc = "idle"
  BY DEF NoRecord, RecorderRec
<1>6. DemandTypes'
  BY <1>1, <1>2, <1>3, <1>4, <1>5 DEF DemandInv, DemandTypes
<1>7. /\ \A e \in Recorders : recorder'[e] = IF e = r THEN NoRecord ELSE recorder[e]
      /\ \A j \in Kinds : record'[j] = IF j = k THEN cut ELSE record[j]
  BY <1>1, <1>4 DEF DemandInv, DemandTypes
<1>8. IsFiniteSet(Cutters')
  <2>1. Cutters' \subseteq Cutters
    BY <1>5, <1>7 DEF Cutters
  <2> QED BY <2>1, FS_Subset DEF DemandInv, RecordsInv
<1>9. ASSUME NEW j \in Kinds
      PROVE  /\ \A i \in 1 .. Len(record'[j]) : record'[j][i] <= now
             /\ Len(record'[j]) <= MaxRecord + Cardinality(Uncut(j)')
  <2>1. CASE j = k
    <3>1. Uncut(k)' \subseteq Uncut(k)
      BY <1>5, <1>7 DEF Uncut
    <3>2. Cardinality(Uncut(k)') \in Nat
      BY <1>2, <3>1, UncutFinite, FS_Subset, FS_CardinalityType
    <3>3. record'[k] = cut /\ Len(cut) \in Nat
      BY <1>2, <1>3, <1>7
    <3> QED BY <1>2, <1>3, <2>1, <3>2, <3>3
  <2>2. CASE j # k
    <3>1. Uncut(j)' = Uncut(j) /\ record'[j] = record[j]
      BY <1>0, <1>1, <1>5, <1>7, <2>2 DEF Uncut
    <3> QED BY <3>1 DEF DemandInv, RecordsInv
  <2> QED BY <2>1, <2>2
<1>10. RecordsInv'
  BY <1>1, <1>5, <1>7, <1>8, <1>9, ZenonT(30) DEF DemandInv, RecordsInv
<1>11. \A j \in Kinds : record[j] # <<>> => record'[j] # <<>>
  BY <1>3, <1>7
<1> QED BY <1>1, <1>6, <1>10, <1>11, RecordsOnly

LEMMA ClearStep == ASSUME DemandInv, Clear PROVE DemandInv'
<1>1. /\ Ask /\ record' = [k \in Kinds |-> <<>>]
      /\ prewarm' = [p \in Prewarmers |-> [prewarm[p] EXCEPT !.steady = {}]]
      /\ UNCHANGED <<now, recorder, smoothed, seen>>
  BY DEF Clear
<1>2. ASSUME NEW q \in RunRec, NEW rec, NEW sn, NEW rec1, Runs(q, rec, sn)
      PROVE  [q EXCEPT !.steady = {}] \in RunRec /\ Runs([q EXCEPT !.steady = {}], rec1, sn)
  <2> DEFINE n == [q EXCEPT !.steady = {}]
  <2>1. /\ n \in RunRec /\ n.steady = {} /\ n.pc = q.pc /\ n.left = q.left
        /\ n.demand = q.demand /\ n.target = q.target /\ n.kind = q.kind
        /\ n.previous = q.previous
    BY DEF RunRec
  <2> HIDE DEF n
  <2>2. Runs(n, rec1, sn)
    BY <1>2, <2>1 DEF Runs
  <2> QED BY <2>1, <2>2 DEF n
<1>3. ASSUME NEW p \in Prewarmers
      PROVE  prewarm'[p] \in RunRec /\ Runs(prewarm'[p], record', seen)
  BY <1>1, <1>2 DEF DemandInv, DemandTypes, RunsInv
<1>4. prewarm' \in [Prewarmers -> RunRec]
  BY <1>1, <1>3
<1>5. DemandTypes'
  BY <1>1, <1>4, AskCounts DEF DemandInv, DemandTypes
<1>6. Cutters' = Cutters /\ \A k \in Kinds : Uncut(k)' = Uncut(k)
  BY <1>1 DEF Cutters, Uncut
<1>7. ASSUME NEW k \in Kinds
      PROVE  /\ \A i \in 1 .. Len(record'[k]) : record'[k][i] <= now
             /\ Len(record'[k]) <= MaxRecord + Cardinality(Uncut(k)')
  <2>1. Cardinality(Uncut(k)') \in Nat
    BY <1>6, UncutFinite
  <2>2. record'[k] = <<>> /\ MaxRecord \in Nat
    BY <1>1, DemandAssumption
  <2>3. Len(record'[k]) = 0 /\ 1 .. 0 = {}
    BY <2>2
  <2> QED BY <2>1, <2>2, <2>3
<1>8. RecordsInv'
  BY <1>1, <1>6, <1>7 DEF DemandInv, RecordsInv
<1>9. RunsInv'
  BY <1>1, <1>3 DEF DemandInv, RunsInv
<1> QED BY <1>5, <1>8, <1>9 DEF DemandInv

-----------------------------------------------------------------------------

\* A step in which one run of the policy becomes n, and rates are seen.
RunMoves(p, n) ==
    /\ UNCHANGED <<now, record, recorder>> /\ demandOps' \in 0 .. DemandOps
    /\ prewarm' = [prewarm EXCEPT ![p] = n] /\ n \in RunRec
    /\ smoothed' \in [Kinds -> Rates] /\ seen' \in [Kinds -> SUBSET Nat]
    /\ \A k \in Kinds : seen[k] \subseteq seen'[k]
    /\ \A k \in Kinds : smoothed'[k] = smoothed[k] \/ Between(smoothed'[k], seen'[k])
    /\ Runs(n, record, seen')

LEMMA RunStep ==
    ASSUME DemandInv, NEW p \in Prewarmers, NEW n, RunMoves(p, n)
    PROVE  DemandInv'
<1>1. /\ UNCHANGED <<now, record, recorder>> /\ demandOps' \in 0 .. DemandOps
      /\ prewarm' = [prewarm EXCEPT ![p] = n] /\ n \in RunRec
      /\ smoothed' \in [Kinds -> Rates] /\ seen' \in [Kinds -> SUBSET Nat]
  BY DEF RunMoves
<1>2. DemandTypes'
  BY <1>1 DEF DemandInv, DemandTypes
<1>3. \A k \in Kinds : smoothed'[k] # Unknown => Between(smoothed'[k], seen'[k])
  <2>1. SUFFICES ASSUME NEW k \in Kinds, smoothed'[k] # Unknown
                 PROVE  Between(smoothed'[k], seen'[k])
    OBVIOUS
  <2>2. seen[k] \subseteq seen'[k]
        /\ (smoothed'[k] = smoothed[k] \/ Between(smoothed'[k], seen'[k]))
    BY DEF RunMoves
  <2> QED BY <2>1, <2>2, WiderBetween DEF DemandInv, RunsInv
<1>4. ASSUME NEW o \in Prewarmers PROVE Runs(prewarm'[o], record', seen')
  <2>1. CASE o = p
    <3>1. prewarm'[o] = n
      BY <1>1, <2>1 DEF DemandInv, DemandTypes
    <3> QED BY <1>1, <3>1 DEF RunMoves
  <2>2. CASE o # p
    <3>1. prewarm'[o] = prewarm[o] /\ prewarm[o] \in RunRec
          /\ Runs(prewarm[o], record, seen)
      BY <1>1, <2>2 DEF DemandInv, DemandTypes, RunsInv
    <3>2. \A k \in Kinds : seen[k] \subseteq seen'[k]
      BY DEF RunMoves
    <3>3. Runs(prewarm[o], record, seen')
      BY <3>1, <3>2, RunsKeep
    <3> QED BY <1>1, <3>1, <3>3
  <2> QED BY <2>1, <2>2
<1>5. RunsInv'
  BY <1>3, <1>4 DEF RunsInv
<1> QED BY <1>1, <1>2, <1>5, RunsOnly

\* What RunMoves asks when neither smoothed rates nor seen ones change.
LEMMA RunAlone ==
    ASSUME DemandInv, NEW p \in Prewarmers, NEW n \in RunRec,
           UNCHANGED <<now, record, recorder, smoothed, seen>>, demandOps' \in 0 .. DemandOps,
           prewarm' = [prewarm EXCEPT ![p] = n], Runs(n, record, seen)
    PROVE  DemandInv'
<1>1. RunMoves(p, n)
  BY DEF RunMoves, DemandInv, DemandTypes
<1> QED BY <1>1, RunStep

LEMMA NoRunIsOne == NoRun \in RunRec /\ \A rec, sn : Runs(NoRun, rec, sn)
<1>1. [k \in {} |-> 0] \in PerKind
  BY DEF PerKind
<1>2. NoRun \in RunRec
  BY <1>1 DEF NoRun, RunRec, Rates
<1> QED BY <1>2 DEF Runs, NoRun

LEMMA BeginRunStep ==
    ASSUME DemandInv, NEW p \in Prewarmers, BeginRun(p)
    PROVE  DemandInv'
<1>0. PICK s : s = {k \in Kinds : record[k] # <<>>}
  OBVIOUS
<1> DEFINE n == [NoRun EXCEPT !.pc = "collecting", !.left = Kinds, !.steady = s]
<1>1. /\ Ask /\ prewarm' = [prewarm EXCEPT ![p] = n]
      /\ UNCHANGED <<now, record, recorder, smoothed, seen>>
  BY <1>0 DEF BeginRun
<1>2. s \in SUBSET Kinds
  BY <1>0
<1>3. n \in RunRec /\ n.pc = "collecting" /\ n.left = Kinds /\ n.steady = s
      /\ DOMAIN n.demand = {} /\ DOMAIN n.target = {}
  BY <1>2, NoRunIsOne DEF NoRun, RunRec
<1> HIDE DEF n
<1>4. Runs(n, record, seen)
  BY <1>0, <1>2, <1>3 DEF Runs
<1> QED BY <1>1, <1>3, <1>4, AskCounts, RunAlone

LEMMA RespondStep ==
    ASSUME DemandInv, NEW p \in Prewarmers, Respond(p)
    PROVE  DemandInv'
<1>1. /\ prewarm' = [prewarm EXCEPT ![p] = NoRun]
      /\ UNCHANGED <<now, record, recorder, smoothed, seen, demandOps>>
  BY DEF Respond
<1>2. demandOps' \in 0 .. DemandOps
  BY <1>1 DEF DemandInv, DemandTypes
<1> QED BY <1>1, <1>2, NoRunIsOne, RunAlone

\* A function of templates that learns of one more.
LEMMA OneMore ==
    ASSUME NEW f \in PerKind, NEW k \in Kinds, NEW n \in Nat
    PROVE  [j \in DOMAIN f \cup {k} |-> IF j = k THEN n ELSE f[j]] \in PerKind
<1> DEFINE S == DOMAIN f \cup {k}
           g == [j \in S |-> IF j = k THEN n ELSE f[j]]
<1>1. DOMAIN f \in SUBSET Kinds /\ \A j \in DOMAIN f : f[j] \in Nat
  BY DEF PerKind
<1>2. S \in SUBSET Kinds /\ g \in [S -> Nat]
  BY <1>1
<1> HIDE DEF g, S
<1>3. g \in PerKind
  BY <1>2 DEF PerKind
<1> QED BY <1>3 DEF g, S

LEMMA CollectStep ==
    ASSUME DemandInv, NEW p \in Prewarmers, NEW k \in Kinds, Collect(p, k)
    PROVE  DemandInv'
<1>0. PICK q, rate : q = prewarm[p] /\ rate = Rate(k)
  OBVIOUS
<1>1. /\ q.pc = "collecting" /\ k \in q.left
      /\ UNCHANGED <<now, record, recorder, smoothed, demandOps>>
  BY <1>0 DEF Collect
<1>2. q \in RunRec /\ Runs(q, record, seen) /\ demandOps' \in 0 .. DemandOps
  BY <1>0, <1>1 DEF DemandInv, DemandTypes, RunsInv
<1>3. rate \in Nat
  BY <1>0, RateNatural DEF DemandInv
<1>4. CASE record[k] # <<>>
  <2> DEFINE d == [j \in DOMAIN q.demand \cup {k} |-> IF j = k THEN rate ELSE q.demand[j]]
             n == [q EXCEPT !.left = q.left \ {k}, !.demand = d]
  <2>1. /\ prewarm' = [prewarm EXCEPT ![p] = n]
        /\ seen' = [seen EXCEPT ![k] = seen[k] \cup {rate}]
    BY <1>0, <1>4 DEF Collect
  <2>2. /\ d \in PerKind /\ DOMAIN d = DOMAIN q.demand \cup {k}
        /\ \A j \in DOMAIN d : d[j] = IF j = k THEN rate ELSE q.demand[j]
    BY <1>2, <1>3, OneMore DEF RunRec
  <2> HIDE DEF d
  <2>3. /\ n \in RunRec /\ n.pc = "collecting" /\ n.left = q.left \ {k} /\ n.demand = d
        /\ n.target = q.target /\ n.steady = q.steady
    <3> HIDE DEF PerKind, Rates
    <3> QED BY <1>1, <1>2, <2>2 DEF RunRec
  <2> HIDE DEF n
  <2>4. /\ seen' \in [Kinds -> SUBSET Nat] /\ rate \in seen'[k]
        /\ \A j \in Kinds : seen[j] \subseteq seen'[j]
    BY <1>3, <2>1 DEF DemandInv, DemandTypes
  <2>5. Runs(n, record, seen')
    <3>1. DOMAIN q.demand \subseteq Kinds
      BY <1>2 DEF RunRec, PerKind
    <3>2. \A j \in DOMAIN d : d[j] \in seen'[j]
      BY <1>2, <2>2, <2>4, <3>1 DEF Runs
    <3>3. q.steady \subseteq DOMAIN d \cup n.left
      BY <1>2, <2>2, <2>3 DEF Runs
    <3> QED BY <1>1, <1>2, <2>3, <3>2, <3>3 DEF Runs
  <2>6. RunMoves(p, n)
    BY <1>1, <1>2, <2>1, <2>3, <2>4, <2>5 DEF RunMoves, DemandInv, DemandTypes
  <2> QED BY <2>6, RunStep
<1>5. CASE record[k] = <<>>
  <2> DEFINE n == [q EXCEPT !.left = q.left \ {k}]
  <2>1. prewarm' = [prewarm EXCEPT ![p] = n] /\ seen' = seen
    BY <1>0, <1>5 DEF Collect
  <2>2. /\ n \in RunRec /\ n.pc = "collecting" /\ n.left = q.left \ {k}
        /\ n.demand = q.demand /\ n.target = q.target /\ n.steady = q.steady
    BY <1>1, <1>2 DEF RunRec
  <2> HIDE DEF n
  <2>3. Runs(n, record, seen)
    BY <1>1, <1>2, <1>5, <2>2 DEF Runs
  <2> QED BY <1>1, <1>2, <2>1, <2>2, <2>3, RunAlone
<1> QED BY <1>4, <1>5

LEMMA ReadRateStep ==
    ASSUME DemandInv, NEW p \in Prewarmers, NEW k \in Kinds, ReadRate(p, k)
    PROVE  DemandInv'
<1>0. PICK q, b : q = prewarm[p]
          /\ b = IF smoothed[k] = Unknown THEN prewarm[p].demand[k] ELSE smoothed[k]
  OBVIOUS
<1> DEFINE n == [q EXCEPT !.pc = "storing", !.kind = k, !.previous = b]
<1>1. /\ \/ q.pc = "collecting" /\ q.left = {}
         \/ q.pc = "reading"
      /\ k \in DOMAIN q.demand
      /\ prewarm' = [prewarm EXCEPT ![p] = n]
      /\ UNCHANGED <<now, record, recorder, smoothed, seen, demandOps>>
  BY <1>0 DEF ReadRate
<1>2. q \in RunRec /\ Runs(q, record, seen) /\ demandOps' \in 0 .. DemandOps
  BY <1>0, <1>1 DEF DemandInv, DemandTypes, RunsInv
<1>3. b \in Nat /\ Between(b, seen[k])
  <2>1. q.demand[k] \in seen[k] /\ seen[k] \in SUBSET Nat /\ smoothed[k] \in Rates
    BY <1>1, <1>2 DEF DemandInv, DemandTypes, Runs
  <2>2. CASE smoothed[k] = Unknown
    BY <1>0, <2>1, <2>2 DEF Between
  <2>3. CASE smoothed[k] # Unknown
    BY <1>0, <2>1, <2>3 DEF DemandInv, RunsInv, Rates
  <2> QED BY <2>2, <2>3
<1>4. q.left = {}
  BY <1>1, <1>2 DEF Runs
<1>5. /\ n \in RunRec /\ n.pc = "storing" /\ n.left = {} /\ n.kind = k /\ n.previous = b
      /\ n.demand = q.demand /\ n.target = q.target /\ n.steady = q.steady
  <2> b \in Rates
    BY <1>3 DEF Rates
  <2> HIDE DEF PerKind
  <2> QED BY <1>2, <1>3, <1>4 DEF RunRec
<1> HIDE DEF n
<1>6. Runs(n, record, seen)
  BY <1>1, <1>2, <1>3, <1>4, <1>5 DEF Runs
<1> QED BY <1>1, <1>2, <1>5, <1>6, RunAlone

LEMMA StoreRateStep ==
    ASSUME DemandInv, NEW p \in Prewarmers, StoreRate(p)
    PROVE  DemandInv'
<1>0. PICK q, k, rate : q = prewarm[p] /\ k = prewarm[p].kind
          /\ rate = Smooth(prewarm[p].demand[prewarm[p].kind], prewarm[p].previous)
  OBVIOUS
<1> DEFINE t == [j \in DOMAIN q.target \cup {k} |-> IF j = k THEN Desired(rate) ELSE q.target[j]]
           n == [q EXCEPT !.pc = "reading", !.target = t]
<1>1. /\ q.pc = "storing" /\ smoothed' = [smoothed EXCEPT ![k] = rate]
      /\ prewarm' = [prewarm EXCEPT ![p] = n]
      /\ UNCHANGED <<now, record, recorder, seen, demandOps>>
  BY <1>0 DEF StoreRate
<1>2. q \in RunRec /\ Runs(q, record, seen) /\ demandOps' \in 0 .. DemandOps
  BY <1>0, <1>1 DEF DemandInv, DemandTypes, RunsInv
<1>3. /\ k \in Kinds /\ k \in DOMAIN q.demand /\ seen[k] \in SUBSET Nat
      /\ q.demand[k] \in seen[k] /\ q.previous \in Nat /\ Between(q.previous, seen[k])
  <2>1. k \in DOMAIN q.demand
    BY <1>0, <1>1, <1>2 DEF Runs
  <2>2. k \in Kinds
    BY <1>2, <2>1 DEF RunRec, PerKind
  <2> QED BY <1>0, <1>1, <1>2, <2>1, <2>2 DEF Runs, DemandInv, DemandTypes
<1>4. q.demand[k] \in Nat /\ Between(q.demand[k], seen[k])
  BY <1>3 DEF Between
<1>5. rate \in Nat /\ Between(rate, seen[k])
  BY <1>0, <1>3, <1>4, SmoothBetween
<1>6. Desired(rate) \in Nat /\ Sized(Desired(rate), seen[k])
  BY <1>3, <1>5, DesiredGrows, DesiredSized
<1>7. /\ t \in PerKind /\ DOMAIN t = DOMAIN q.target \cup {k}
      /\ \A j \in DOMAIN t : t[j] = IF j = k THEN Desired(rate) ELSE q.target[j]
  BY <1>2, <1>3, <1>6, OneMore DEF RunRec
<1> HIDE DEF t
<1>8. /\ n \in RunRec /\ n.pc = "reading" /\ n.left = q.left /\ n.target = t
      /\ n.demand = q.demand /\ n.steady = q.steady
  <2> HIDE DEF PerKind, Rates
  <2> QED BY <1>2, <1>7 DEF RunRec
<1> HIDE DEF n
<1>9. Runs(n, record, seen)
  <2>1. \A j \in DOMAIN t : Sized(t[j], seen[j])
    BY <1>2, <1>6, <1>7 DEF Runs
  <2> QED BY <1>1, <1>2, <1>8, <2>1 DEF Runs
<1>10. /\ smoothed' \in [Kinds -> Rates]
       /\ \A j \in Kinds : smoothed'[j] = IF j = k THEN rate ELSE smoothed[j]
  BY <1>1, <1>5 DEF DemandInv, DemandTypes, Rates
<1>11. RunMoves(p, n)
  BY <1>1, <1>2, <1>5, <1>8, <1>9, <1>10 DEF RunMoves, DemandInv, DemandTypes
<1> QED BY <1>11, RunStep

LEMMA DemandPreserved == DemandInv /\ [DemandNext]_demandVars => DemandInv'
<1> SUFFICES ASSUME DemandInv, [DemandNext]_demandVars PROVE DemandInv'
  OBVIOUS
<1>1. CASE UNCHANGED demandVars
  BY <1>1 DEF demandVars, DemandInv, DemandTypes, RecordsInv, RunsInv, Cutters, Uncut
<1>2. ASSUME NEW r \in Recorders, Push(r) \/ Evict(r) \/ \E k \in Kinds : TakeTime(r, k)
      PROVE  DemandInv'
  BY <1>2, PushStep, EvictStep, TakeTimeStep
<1>3. ASSUME NEW p \in Prewarmers, BeginRun(p) \/ StoreRate(p) \/ Respond(p)
      PROVE  DemandInv'
  BY <1>3, BeginRunStep, StoreRateStep, RespondStep
<1>4. ASSUME NEW p \in Prewarmers, NEW k \in Kinds, Collect(p, k) \/ ReadRate(p, k)
      PROVE  DemandInv'
  BY <1>4, CollectStep, ReadRateStep
<1> QED BY <1>1, <1>2, <1>3, <1>4, TickStep, ClearStep DEF DemandNext

-----------------------------------------------------------------------------
(* Webhooks: an attempt brings an event at most once, and a third is the last. *)

DispatchRec == [pc : {"idle", "matching", "done"}, left : SUBSET Hooks,
                matching : SUBSET Hooks, steady : SUBSET Hooks]
DeliveryRec == [pc : {"none", "sending", "pausing", "ended"}, attempt : 1 .. 3, got : 0 .. 3]

Counted(d) ==
    /\ d.pc = "sending" => d.got < d.attempt
    /\ d.pc = "pausing" => d.attempt < 3
    /\ d.pc # "none" => d.got <= d.attempt
    /\ d.pc = "none" => d.got = 0

WebhooksInv ==
    /\ WebhooksTypeOK
    /\ dispatched \in [Events -> DispatchRec]
    /\ \A p \in Hooks \X Events :
          /\ Counted(delivery[p])
          /\ dispatched[p[2]].pc # "done" => delivery[p].pc = "none"

LEMMA NewDelivery ==
    ASSUME NEW pc \in {"none", "sending", "pausing", "ended"}, NEW a \in 1 .. 3, NEW g \in 0 .. 3
    PROVE  [pc |-> pc, attempt |-> a, got |-> g] \in DeliveryRec
BY DEF DeliveryRec

LEMMA WebhooksInitially == WebhooksInit => WebhooksInv
<1> SUFFICES ASSUME WebhooksInit PROVE WebhooksInv
  OBVIOUS
<1>1. delivery = [p \in Hooks \X Events |-> [pc |-> "none", attempt |-> 1, got |-> 0]]
  BY DEF WebhooksInit
<1>2. /\ hook = [h \in Hooks |-> [known |-> FALSE, events |-> {}]] /\ unanswered = 0
      /\ dispatched = [e \in Events |->
            [pc |-> "idle", left |-> Hooks, matching |-> {}, steady |-> {}]]
  BY DEF WebhooksInit
<1>3. WebhooksTypeOK
  BY <1>1, <1>2, WebhookAssumption DEF WebhooksTypeOK
<1>4. dispatched \in [Events -> DispatchRec]
  BY <1>2 DEF DispatchRec
<1>5. ASSUME NEW p \in Hooks \X Events
      PROVE  Counted(delivery[p]) /\ delivery[p].pc = "none"
  BY <1>1 DEF Counted
<1> QED BY <1>3, <1>4, <1>5 DEF WebhooksInv

\* A delivery is replaced by one that is counted, after its dispatch.
LEMMA DeliveryStep ==
    ASSUME WebhooksInv, NEW p \in Hooks \X Events, delivery[p].pc # "none",
           NEW d \in DeliveryRec, Counted(d), d.pc # "none",
           delivery' = [delivery EXCEPT ![p] = d],
           hook' = hook, dispatched' = dispatched, unanswered' \in 0 .. WebhookFaults
    PROVE  WebhooksInv'
<1>1. WebhooksTypeOK'
  BY DEF WebhooksInv, WebhooksTypeOK, DeliveryRec
<1>2. ASSUME NEW q \in Hooks \X Events
      PROVE  Counted(delivery'[q]) /\ (dispatched'[q[2]].pc # "done" => delivery'[q].pc = "none")
  <2>1. delivery'[q] = IF q = p THEN d ELSE delivery[q]
    BY DEF WebhooksInv, WebhooksTypeOK
  <2>2. CASE q = p
    BY <2>1, <2>2 DEF WebhooksInv
  <2>3. CASE q # p
    BY <2>1, <2>3 DEF WebhooksInv
  <2> QED BY <2>2, <2>3
<1> QED BY <1>1, <1>2 DEF WebhooksInv

LEMMA DispatchesStep ==
    ASSUME WebhooksInv, NEW D \in [Events -> DispatchRec], dispatched' = D,
           \A e \in Events : dispatched[e].pc = "done" <=> D[e].pc = "done",
           delivery' = delivery, unanswered' = unanswered,
           hook' \in [Hooks -> [known : BOOLEAN, events : SUBSET (Events \cup {"other"})]]
    PROVE  WebhooksInv'
<1>1. WebhooksTypeOK'
  BY DEF WebhooksInv, WebhooksTypeOK, DispatchRec
<1>2. ASSUME NEW q \in Hooks \X Events
      PROVE  Counted(delivery'[q]) /\ (dispatched'[q[2]].pc # "done" => delivery'[q].pc = "none")
  <2>1. q[2] \in Events
    OBVIOUS
  <2> QED BY <2>1 DEF WebhooksInv
<1> QED BY <1>1, <1>2 DEF WebhooksInv

LEMMA ReplaceStep ==
    ASSUME WebhooksInv, NEW h \in Hooks,
           NEW r \in [known : BOOLEAN, events : SUBSET (Events \cup {"other"})], Replace(h, r)
    PROVE  WebhooksInv'
<1> DEFINE D == [e \in Events |-> [dispatched[e] EXCEPT !.steady = dispatched[e].steady \ {h}]]
<1>1. /\ hook' = [hook EXCEPT ![h] = r] /\ dispatched' = D
      /\ delivery' = delivery /\ unanswered' = unanswered
  BY DEF Replace
<1>2. D \in [Events -> DispatchRec]
  BY DEF WebhooksInv, DispatchRec
<1>3. \A e \in Events : dispatched[e].pc = "done" <=> D[e].pc = "done"
  BY DEF WebhooksInv, DispatchRec
<1>4. hook' \in [Hooks -> [known : BOOLEAN, events : SUBSET (Events \cup {"other"})]]
  BY <1>1 DEF WebhooksInv, WebhooksTypeOK
<1> HIDE DEF D
<1> QED BY <1>1, <1>2, <1>3, <1>4, DispatchesStep

\* A dispatch goes on without spawning.
LEMMA DispatchGoesOn ==
    ASSUME WebhooksInv, NEW e \in Events, dispatched[e].pc # "done",
           NEW d \in DispatchRec, d.pc # "done", dispatched' = [dispatched EXCEPT ![e] = d],
           hook' = hook, delivery' = delivery, unanswered' = unanswered
    PROVE  WebhooksInv'
<1>1. dispatched \in [Events -> DispatchRec]
  BY DEF WebhooksInv
<1>2. /\ dispatched' \in [Events -> DispatchRec]
      /\ \A f \in Events : dispatched[f].pc = "done" <=> dispatched'[f].pc = "done"
  BY <1>1
<1>3. hook' \in [Hooks -> [known : BOOLEAN, events : SUBSET (Events \cup {"other"})]]
  BY DEF WebhooksInv, WebhooksTypeOK
<1> QED BY <1>2, <1>3, DispatchesStep

LEMMA SpawnStep ==
    ASSUME WebhooksInv, NEW e \in Events, Spawn(e)
    PROVE  WebhooksInv'
<1> DEFINE D == [dispatched EXCEPT ![e].pc = "done"]
           Goes(p) == p[2] = e /\ p[1] \in dispatched[e].matching
           N == [p \in Hooks \X Events |-> IF Goes(p) THEN [delivery[p] EXCEPT !.pc = "sending"]
                                           ELSE delivery[p]]
<1>1. /\ dispatched[e].pc = "matching" /\ hook' = hook /\ unanswered' = unanswered
      /\ dispatched' = D /\ delivery' = N
  BY DEF Spawn
<1>2. D \in [Events -> DispatchRec] /\ D[e].pc = "done"
  BY DEF WebhooksInv, DispatchRec
<1>3. ASSUME NEW p \in Hooks \X Events
      PROVE  /\ N[p] \in DeliveryRec /\ Counted(N[p])
             /\ p[2] # e => N[p] = delivery[p]
  <2>1. delivery[p] \in DeliveryRec /\ Counted(delivery[p]) /\ N[p] = IF Goes(p) THEN [delivery[p] EXCEPT !.pc = "sending"] ELSE delivery[p]
    BY DEF WebhooksInv, WebhooksTypeOK, DeliveryRec
  <2>2. CASE Goes(p)
    <3>1. delivery[p].pc = "none"
      BY <2>2, <1>1 DEF WebhooksInv
    <3>2. delivery[p].got = 0
      BY <3>1, <2>1 DEF Counted
    <3>3. /\ N[p] \in DeliveryRec /\ N[p].pc = "sending" /\ N[p].got = 0 
          /\ N[p].attempt \in 1 .. 3
      BY <2>1, <2>2, <3>2 DEF DeliveryRec
    <3> QED BY <2>2, <3>3 DEF Counted
  <2>3. CASE ~ Goes(p)
    BY <2>1, <2>3
  <2> QED BY <2>2, <2>3
<1>4. N \in [Hooks \X Events -> DeliveryRec]
  BY <1>3
<1> HIDE DEF N, D
<1>5. WebhooksTypeOK'
  BY <1>1, <1>2, <1>4 DEF WebhooksInv, WebhooksTypeOK, DeliveryRec, DispatchRec
<1>6. ASSUME NEW q \in Hooks \X Events
      PROVE  Counted(delivery'[q]) /\ (dispatched'[q[2]].pc # "done" => delivery'[q].pc = "none")
  <2>1. q[2] \in Events
    OBVIOUS
  <2>2. CASE q[2] = e
    BY <1>1, <1>2, <1>3, <2>2
  <2>3. CASE q[2] # e
    <3>1. D[q[2]] = dispatched[q[2]]
      BY <2>1, <2>3 DEF WebhooksInv, D
    <3> QED BY <3>1, <1>1, <1>3, <2>3 DEF WebhooksInv
  <2> QED BY <2>2, <2>3
<1> QED BY <1>1, <1>2, <1>5, <1>6 DEF WebhooksInv

LEMMA SendStep ==
    ASSUME WebhooksInv, NEW h \in Hooks, NEW e \in Events, Send(h, e)
    PROVE  WebhooksInv'
<1> DEFINE p == <<h, e>>
           d == delivery[p]
<1>1. p \in Hooks \X Events /\ d \in DeliveryRec /\ Counted(d) /\ unanswered \in 0 .. WebhookFaults
  BY DEF WebhooksInv, WebhooksTypeOK, DeliveryRec
<1>2. d.pc = "sending" /\ hook' = hook /\ dispatched' = dispatched
  BY DEF Send
<1> DEFINE R(pc, n) == [pc |-> pc, attempt |-> d.attempt, got |-> d.got + n]
           P(n) == IF d.attempt < MaxAttempts THEN "pausing" ELSE "ended"
<1>3. PICK pc \in {"pausing", "ended"}, n \in {0, 1} :
          /\ delivery' = [delivery EXCEPT ![p] = R(pc, n)]
          /\ pc = "pausing" => d.attempt < 3
          /\ unanswered' \in 0 .. WebhookFaults
  <2>1. \/ delivery' = [delivery EXCEPT ![p] = R("ended", 1)] /\ unanswered' = unanswered
        \/ /\ unanswered < WebhookFaults /\ unanswered' = unanswered + 1
           /\ \E n \in {0, 1} : delivery' = [delivery EXCEPT ![p] = R(P(n), n)]
    BY DEF Send
  <2>2. unanswered < WebhookFaults => unanswered + 1 \in 0 .. WebhookFaults
    BY <1>1, WebhookAssumption
  <2>3. ASSUME NEW n \in {0, 1}
        PROVE  P(n) \in {"pausing", "ended"} /\ (P(n) = "pausing" => d.attempt < 3)
    BY DEF MaxAttempts
  <2> HIDE DEF P, R, d, p
  <2>4. CASE delivery' = [delivery EXCEPT ![p] = R("ended", 1)] /\ unanswered' = unanswered
    BY <2>4, <1>1
  <2>5. ASSUME NEW n \in {0, 1}, unanswered < WebhookFaults, unanswered' = unanswered + 1,
               delivery' = [delivery EXCEPT ![p] = R(P(n), n)]
        PROVE  \E pc \in {"pausing", "ended"} :
                  /\ delivery' = [delivery EXCEPT ![p] = R(pc, n)]
                  /\ pc = "pausing" => d.attempt < 3
                  /\ unanswered' \in 0 .. WebhookFaults
    BY <2>2, <2>3, <2>5
  <2> QED BY <2>1, <2>4, <2>5
<1> DEFINE r == R(pc, n)
<1>4. d.attempt \in 1 .. 3 /\ d.got \in 0 .. 3 /\ d.got < d.attempt
  BY <1>1, <1>2 DEF DeliveryRec, Counted
<1>5. d.got + n \in 0 .. 3 /\ d.got + n <= d.attempt
  BY <1>4
<1>6. r \in DeliveryRec /\ r.pc = pc /\ r.attempt = d.attempt /\ r.got = d.got + n
  <2>1. r \in DeliveryRec
    BY <1>4, <1>5, NewDelivery, Zenon
  <2> QED BY <2>1
<1>7. Counted(r)
  BY <1>4, <1>5, <1>3, <1>6 DEF Counted
<1>8. delivery[p].pc # "none" /\ r.pc # "none"
  BY <1>2, <1>6
<1> HIDE DEF r, p, d, R
<1>9. delivery' = [delivery EXCEPT ![p] = r]
  BY <1>3 DEF r
<1> QED BY <1>1, <1>2, <1>3, <1>6, <1>7, <1>8, <1>9, DeliveryStep

LEMMA RetryStep ==
    ASSUME WebhooksInv, NEW h \in Hooks, NEW e \in Events, Retry(h, e)
    PROVE  WebhooksInv'
<1> DEFINE p == <<h, e>>
           d == delivery[p]
           r == [pc |-> "sending", attempt |-> d.attempt + 1, got |-> d.got]
<1>1. p \in Hooks \X Events /\ d \in DeliveryRec /\ Counted(d) /\ unanswered \in 0 .. WebhookFaults
  BY DEF WebhooksInv, WebhooksTypeOK, DeliveryRec
<1>2. /\ d.pc = "pausing" /\ hook' = hook /\ dispatched' = dispatched /\ unanswered' = unanswered
      /\ delivery' = [delivery EXCEPT ![p] = r]
  BY DEF Retry
<1>3. d.attempt + 1 \in 1 .. 3 /\ d.got \in 0 .. 3 /\ d.got < d.attempt + 1
  BY <1>1, <1>2 DEF DeliveryRec, Counted
<1>4. r \in DeliveryRec /\ r.pc = "sending" /\ r.attempt = d.attempt + 1 /\ r.got = d.got
  <2>1. r \in DeliveryRec
    BY <1>3, NewDelivery, Zenon
  <2> QED BY <2>1
<1>5. Counted(r)
  BY <1>3, <1>4 DEF Counted
<1>6. delivery[p].pc # "none" /\ r.pc # "none"
  BY <1>2, <1>4
<1> HIDE DEF r, p, d
<1> QED BY <1>1, <1>2, <1>4, <1>5, <1>6, DeliveryStep

LEMMA WebhooksPreserved ==
    ASSUME WebhooksInv, [WebhooksNext]_webhookVars
    PROVE  WebhooksInv'
<1>1. ASSUME NEW h \in Hooks, UnregisterHook(h) PROVE WebhooksInv'
  <2>1. [known |-> FALSE, events |-> {}]
           \in [known : BOOLEAN, events : SUBSET (Events \cup {"other"})]
    OBVIOUS
  <2> QED BY <1>1, <2>1, ReplaceStep DEF UnregisterHook
<1>2. ASSUME NEW h \in Hooks, NEW events \in SUBSET (Events \cup {"other"}), RegisterHook(h, events)
      PROVE  WebhooksInv'
  <2>1. [known |-> TRUE, events |-> events]
           \in [known : BOOLEAN, events : SUBSET (Events \cup {"other"})]
    OBVIOUS
  <2> QED BY <1>2, <2>1, ReplaceStep DEF RegisterHook
<1>3. ASSUME NEW e \in Events, Dispatch(e) PROVE WebhooksInv'
  <2> DEFINE d == [dispatched[e] EXCEPT !.pc = "matching", !.steady = {h \in Hooks : Wants(h, e)}]
  <2>1. d \in DispatchRec /\ d.pc # "done"
    BY DEF WebhooksInv, DispatchRec
  <2>2. /\ dispatched[e].pc # "done" /\ dispatched' = [dispatched EXCEPT ![e] = d]
        /\ hook' = hook /\ delivery' = delivery /\ unanswered' = unanswered
    BY <1>3 DEF Dispatch, WebhooksInv
  <2> HIDE DEF d
  <2> QED BY <2>1, <2>2, DispatchGoesOn
<1>4. ASSUME NEW e \in Events, NEW h \in Hooks, Match(e, h) PROVE WebhooksInv'
  <2> DEFINE d == [dispatched[e] EXCEPT !.left = dispatched[e].left \ {h},
                     !.matching = IF Wants(h, e) THEN dispatched[e].matching \cup {h}
                                  ELSE dispatched[e].matching]
  <2>1. d \in DispatchRec /\ d.pc = dispatched[e].pc
    BY DEF WebhooksInv, DispatchRec
  <2>2. /\ dispatched[e].pc = "matching" /\ dispatched' = [dispatched EXCEPT ![e] = d]
        /\ hook' = hook /\ delivery' = delivery /\ unanswered' = unanswered
    BY <1>4 DEF Match, WebhooksInv
  <2> HIDE DEF d
  <2> QED BY <2>1, <2>2, DispatchGoesOn
<1>5. CASE UNCHANGED webhookVars
  BY <1>5 DEF webhookVars, WebhooksInv, WebhooksTypeOK
<1> QED BY <1>1, <1>2, <1>3, <1>4, <1>5, SpawnStep, SendStep, RetryStep
      DEF WebhooksNext, DispatchStep, Deliver

-----------------------------------------------------------------------------
(* The library: the components do not disturb each other.                  *)

LibraryInv ==
    /\ TemplatesInv /\ DisksInv /\ Inv /\ ShardingInv /\ TransfersInv /\ Measured
    /\ DemandInv /\ WebhooksInv

LEMMA LibraryInitially == LibraryInit => LibraryInv
BY TemplatesInitially, DisksInitially, InitEstablished, ShardingInitially, TransfersInitially,
   DemandInitially, WebhooksInitially DEF LibraryInit, LibraryInv

\* Each component takes its own step, or none.
LibraryStep ==
    /\ [TemplatesNext]_templateVars /\ [DisksNext]_diskVars /\ [SharingNext]_sharingVars
    /\ [ShardingNext]_shardVars /\ [TransfersNext]_transferVars /\ [DemandNext]_demandVars
    /\ [WebhooksNext]_webhookVars

LEMMA LibraryMoves == [LibraryNext]_libraryVars => LibraryStep
BY DEF LibraryNext, libraryVars, LibraryStep

LEMMA LibraryPreserved == LibraryInv /\ [LibraryNext]_libraryVars => LibraryInv'
BY LibraryMoves, TemplatesPreserved, DisksPreserved, StepPreserves, ShardingPreserved,
   TransfersPreserved, MeasuredPreserved, DemandPreserved, WebhooksPreserved
   DEF LibraryStep, LibraryInv

\* What the managers, the router, the tracker and the dispatcher hold at every moment is
\* what each needs so that its next step, whoever's turn it is, keeps its promise.
THEOREM LibraryInvHolds == LibrarySpec => []LibraryInv
BY LibraryInitially, LibraryPreserved, PTL DEF LibrarySpec

\* The types of everything that the handlers of templates, disks, sharing, shards,
\* transfers, demand and webhooks store.
THEOREM LibraryTypesHold == LibrarySpec => []LibraryTypeOK
<1>1. LibraryInv => LibraryTypeOK
  <2>1. Inv => SharingTypeOK
    BY DEF Inv, Types
  <2>2. WebhooksInv => WebhooksTypeOK
    BY DEF WebhooksInv
  <2> QED BY <2>1, <2>2, TemplatesImplied, DisksImplied, ShardingImplied, TransfersImplied,
             DemandImplied DEF LibraryInv, LibraryTypeOK
<1> QED BY <1>1, LibraryInvHolds, PTL

\* build.rs, TemplateManager, VolumeManager and BlockDeviceManager: the image of a template
\* that is recorded is whole, while its builds fail too, unless one of them went wrong
\* unanswered, two ran at once, or the image has vanished and no build was published since;
\* a volume that is listed has its image, and every stray file is a failure's.
THEOREM StorageSoundHolds == LibrarySpec => []StorageSound
<1>1. LibraryInv => StorageSound
  BY TemplatesImplied, DisksImplied DEF LibraryInv, StorageSound
<1> QED BY <1>1, LibraryInvHolds, PTL

\* GlobalScheduler::route: a shard that the key asks for and that is registered all the
\* time is found, or a more specific one; nobody is found only if the ring was empty or
\* names a shard that was unregistered, whatever hashes coincide.
THEOREM RouteAnsweredHolds == LibrarySpec => []RouteAnswered
<1>1. LibraryInv => RouteAnswered
  BY ShardingImplied DEF LibraryInv
<1> QED BY <1>1, LibraryInvHolds, PTL

\* write_file and read_file of files.rs: a write that returns Ok was not refused and, if
\* nothing was lost, every chunk is in the file or on its way; a read that returns Ok has
\* the length of the file as it was found, or the connection ended, or the agent was not
\* told the length and the read has nothing.
THEOREM TransferHonestHolds == LibrarySpec => []TransferHonest
<1>1. LibraryInv => TransferHonest
  BY TransfersImplied DEF LibraryInv
<1> QED BY <1>1, LibraryInvHolds, PTL

\* DemandTracker and AdaptivePrewarmPolicy: records are cut by those that made them too
\* long, smoothed rates stay among those that were seen, and targets among their sizes.
THEOREM PrewarmSoundHolds == LibrarySpec => []PrewarmSound
<1>1. LibraryInv => PrewarmSound
  BY DemandImplied DEF LibraryInv
<1> QED BY <1>1, LibraryInvHolds, PTL

\* SnapshotSharingStore: AccessAgrees, as the run checks it beside the other components.
THEOREM LibraryAccessAgrees == LibrarySpec => []AccessAgrees
<1>1. LibraryInit => SharingInit
  BY DEF LibraryInit
<1>2. [LibraryNext]_libraryVars => [SharingNext]_sharingVars
  BY LibraryMoves DEF LibraryStep
<1>3. SharingInit /\ [][SharingNext]_sharingVars => []AccessAgrees
  BY AccessAgreesHolds DEF SharingSpec
<1> QED BY <1>1, <1>2, <1>3, PTL DEF LibrarySpec

-----------------------------------------------------------------------------
(* Egress: what the decisions are, for any list, host and port *)

\* An allowlist decides by its targets one at a time: joining two lists allows what one
\* of them allows, and nothing else, whatever the limit and the count are.
THEOREM TargetsDecideAlone ==
    ASSUME NEW S, NEW T, NEW dns, NEW servers, NEW max \in Nat,
           NEW host, NEW port, NEW active \in Nat
    PROVE  LET Decide(targets) ==
                   CheckEgress([targets |-> targets, dns |-> dns, servers |-> servers,
                                maxConnections |-> max], host, port, FALSE, active)
           IN  Decide(S \cup T) = "Allowed" <=> Decide(S) = "Allowed" \/ Decide(T) = "Allowed"
<1> DEFINE With(targets) == [targets |-> targets, dns |-> dns, servers |-> servers,
                             maxConnections |-> max]
           May(targets) == CheckEgress(With(targets), host, port, FALSE, active) = "Allowed"
<1>1. \A targets : With(targets).targets = targets /\ With(targets).maxConnections = max
  OBVIOUS
<1>2. ASSUME NEW targets
      PROVE  CheckTargets(With(targets), host, port) = "Allowed"
                <=> \E t \in targets : Admits(t, host, port)
  BY <1>1 DEF CheckTargets
<1>3. ASSUME NEW targets
      PROVE  May(targets) <=> ~ (max > 0 /\ active >= max) /\ \E t \in targets : Admits(t, host, port)
  <2>1. /\ With(targets).maxConnections = max
        /\ CheckTargets(With(targets), host, port) = "Allowed"
              <=> \E t \in targets : Admits(t, host, port)
    BY <1>1, <1>2
  <2> HIDE DEF With
  <2>2. CASE max > 0 /\ active >= max
    BY <2>1, <2>2, Zenon DEF CheckEgress
  <2>3. CASE ~ (max > 0 /\ active >= max)
    <3>1. CheckEgress(With(targets), host, port, FALSE, active)
             = CheckTargets(With(targets), host, port)
      BY <2>1, <2>3, Zenon DEF CheckEgress
    <3> QED BY <2>1, <2>3, <3>1, Zenon
  <2> QED BY <2>2, <2>3
<1>4. May(S \cup T) <=> May(S) \/ May(T)
  <2>1. /\ May(S \cup T) <=> ~ (max > 0 /\ active >= max) /\ \E t \in S \cup T : Admits(t, host, port)
        /\ May(S) <=> ~ (max > 0 /\ active >= max) /\ \E t \in S : Admits(t, host, port)
        /\ May(T) <=> ~ (max > 0 /\ active >= max) /\ \E t \in T : Admits(t, host, port)
    <3> HIDE DEF May
    <3> QED BY <1>3
  <2> HIDE DEF May
  <2> QED BY <2>1
<1> QED BY <1>4

\* The first rule that fits is there when one does, and 0 is no rule.
LEMMA MatchedRuleIs ==
    ASSUME NEW S, NEW rules \in Seq(S), NEW policy, policy.rules = rules, NEW host, NEW port
    PROVE  MatchedRule(policy, host, port) # 0
              <=> \E i \in 1..Len(rules) : Fits(rules[i], host, port)
<1> DEFINE fitting == {i \in DOMAIN policy.rules : Fits(policy.rules[i], host, port)}
<1>1. DOMAIN policy.rules = 1..Len(rules) /\ Len(rules) \in Nat
  BY LenProperties
<1>2. CASE fitting = {}
  BY <1>1, <1>2 DEF MatchedRule
<1>3. CASE fitting # {}
  <2>1. fitting \in SUBSET Nat /\ \A i \in fitting : i # 0
    BY <1>1
  <2>2. PICK i \in fitting : \A j \in fitting : ~ (<<j, i>> \in OpToRel(<, Nat))
    BY <1>3, <2>1, NatLessThanWellFounded, WFMin
  <2>3. ASSUME NEW j \in fitting PROVE i <= j
    <3>1. i \in Nat /\ j \in Nat
      BY <2>1
    <3>2. ~ (j < i)
      BY <2>2, <3>1, Zenon DEF OpToRel
    <3> QED BY <3>1, <3>2
  <2>4. MatchedRule(policy, host, port) \in fitting
    BY <1>3, <2>3 DEF MatchedRule
  <2> QED BY <1>1, <1>3, <2>1, <2>4
<1> QED BY <1>2, <1>3

\* A policy of rules, none of which has the pattern "*", allows what an allowlist of
\* the same targets does: the order of the rules decides nothing.
THEOREM PolicyIsItsAllowlist ==
    ASSUME NEW S, NEW rules \in Seq(S), NEW host, NEW port,
           \A i \in 1..Len(rules) : rules[i].pattern.kind # "all"
    PROVE  CheckTarget(CustomPolicy(rules), host, port) <=>
           CheckEgress([DenyAll EXCEPT !.targets = {rules[i] : i \in 1..Len(rules)}],
                       host, port, FALSE, 0) = "Allowed"
<1> DEFINE policy == CustomPolicy(rules)
           targets == {rules[i] : i \in 1..Len(rules)}
           list == [DenyAll EXCEPT !.targets = targets]
<1>1. policy.mode = "Custom" /\ policy.rules = rules /\ policy.list = DenyAll
  BY DEF CustomPolicy
<1>2. CheckEgress(DenyAll, host, port, FALSE, 0) # "Allowed"
  BY DEF CheckEgress, CheckTargets, DenyAll
<1>3. CheckTarget(policy, host, port) <=> MatchedRule(policy, host, port) # 0
  <2> HIDE DEF policy
  <2> QED BY <1>1, <1>2 DEF CheckTarget
<1>4. CheckTarget(policy, host, port) <=> \E t \in targets : Fits(t, host, port)
  <2> HIDE DEF policy
  <2> QED BY <1>1, <1>3, MatchedRuleIs
<1>5. list.targets = targets /\ list.maxConnections = 0
  BY DEF DenyAll
<1>6. CheckEgress(list, host, port, FALSE, 0) = "Allowed"
         <=> \E t \in targets : Admits(t, host, port)
  <2> HIDE DEF list, targets
  <2> QED BY <1>5 DEF CheckEgress, CheckTargets
<1>7. \A t \in targets : Admits(t, host, port) <=> Fits(t, host, port)
  BY DEF Admits, Fits
<1> QED BY <1>4, <1>6, <1>7

\* The address of a proxy is neither its network's nor the broadcast address, whatever
\* the sandbox's id is.
THEOREM ListenersAreUsable ==
    ASSUME NEW id, id[1] \in Nat, id[2] \in Nat
    PROVE  ListenAddress(id)[3] \in 0..15 /\ ListenAddress(id)[4] \in 1..254
<1> DEFINE a == id[1] % 16
           b == id[2] % 254
<1>1. a \in 0..15 /\ b \in 0..253
  OBVIOUS
<1>2. ListenAddress(id)[3] = a /\ ListenAddress(id)[4] = b + 1
  BY DEF ListenAddress
<1> HIDE DEF a, b
<1> QED BY <1>1, <1>2
=============================================================================
