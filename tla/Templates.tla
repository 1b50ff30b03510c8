----------------------------- MODULE Templates -----------------------------
(***************************************************************************)
(* Templates: templates/mod.rs, store.rs and build.rs.                     *)
(*                                                                         *)
(* A template is built once for each content: the record in the store and  *)
(* the image on disk are named by the content's hash.  A build runs one    *)
(* command after the other.  A command that ends with an error is cleaned  *)
(* up after; one that cannot be run, or whose caller gives up, is not.     *)
(***************************************************************************)
EXTENDS Integers, FiniteSets

CONSTANTS
    Contents,   \* contents of Dockerfiles, by their hash
    Builders,   \* tasks that create templates
    BuildFaults \* bound: commands that go wrong in a way no code answers to

ASSUME TemplateAssumption == BuildFaults \in Nat

VARIABLES
    recorded,   \* the contents that the store has a record of
    image,      \* the image of each content
    build,      \* what each builder is in the middle of
    left,       \* what builds that have ended left behind
    mishaps,    \* commands that went wrong unanswered, at most BuildFaults
    \* Auxiliary, of contents:
    doubted,    \* something went wrong with a build of it unanswered
    doubled,    \* it was built twice at once, and not begun alone since
    outlived    \* its image vanished from its record, and no build that was
                \* published has made it again

templateHistory == <<doubted, doubled, outlived>>
templateVars == <<recorded, image, build, left, mishaps, templateHistory>>

\* The commands of a build, what each makes, and what is cleaned up when it fails.
NoBuild == [pc |-> "idle", content |-> "none", made |-> {}, exported |-> TRUE]

Makes == [docker |-> {"tag"}, container |-> {"container"}, allocate |-> {}, format |-> {},
          mount |-> {"mount"}, export |-> {}]

Cleans == [docker |-> {"dir"}, container |-> {"tag", "dir"},
           allocate |-> {"container", "tag", "dir"}, format |-> {"container", "tag", "dir"},
           mount |-> {"container", "tag", "dir", "mountpoint"}]

After == [docker |-> "container", container |-> "allocate", allocate |-> "format",
          format |-> "mount", mount |-> "export", export |-> "install"]

\* What a command does to the image when it succeeds, and may do when it does not.
Written == [allocate |-> "raw", format |-> "empty", export |-> "whole"]
Spoiled == [allocate |-> {"raw"}, format |-> {"raw"}, export |-> {"empty", "partial"}]

TemplatesInit ==
    /\ recorded = {}
    /\ image = [c \in Contents |-> "absent"]
    /\ build = [b \in Builders |-> NoBuild]
    /\ left = {}
    /\ mishaps = 0
    /\ doubted = {} /\ doubled = {} /\ outlived = {}

Building(c) == \E b \in Builders : build[b].content = c

\* Something goes wrong that leaves the image of c, or a place on the host, unsure.
Mishap(c) ==
    /\ mishaps < BuildFaults /\ mishaps' = mishaps + 1
    /\ doubted' = doubted \cup {c}

-----------------------------------------------------------------------------

\* A record whose image is on disk is returned as it is, and no build begins.
CreateTemplate(b, c) ==
    /\ build[b].pc = "idle"
    /\ ~ (c \in recorded /\ image[c] # "absent")
    /\ build' = [build EXCEPT ![b] =
          [NoBuild EXCEPT !.pc = "docker", !.content = c, !.made = {"dir"}]]
    /\ doubled' = IF Building(c) THEN doubled \cup {c} ELSE doubled \ {c}
    /\ UNCHANGED <<recorded, image, left, mishaps, doubted, outlived>>

RunCommand(b, p) ==
    LET c == build[b].content IN
    /\ build[b].pc = p
    /\ build' = [build EXCEPT ![b].pc = After[p], ![b].made =
                     @ \cup Makes[p] \cup (IF p = "format" THEN {"mountpoint"} ELSE {})]
    /\ image' = IF p \in DOMAIN Written THEN [image EXCEPT ![c] = Written[p]] ELSE image
    /\ UNCHANGED <<recorded, left, mishaps, templateHistory>>

EndBuild(b, cleaned) ==
    /\ build' = [build EXCEPT ![b] = NoBuild]
    /\ left' = left \cup (build[b].made \ cleaned)

\* The build is cleaned up after, but for its image; a record there is stays too.
CommandFails(b, p) ==
    LET c == build[b].content IN
    /\ p \in DOMAIN Cleans /\ build[b].pc = p
    /\ EndBuild(b, Cleans[p])
    /\ \E i \in (IF p \in DOMAIN Spoiled THEN Spoiled[p] ELSE {image[c]}) :
          image' = [image EXCEPT ![c] = i]
    /\ UNCHANGED <<recorded, mishaps, templateHistory>>

\* The export is a pipe.  Its status is tar's, which may not notice what happened.
ExportFails(b) ==
    LET c == build[b].content IN
    /\ build[b].pc = "export"
    /\ \E i \in Spoiled["export"] : image' = [image EXCEPT ![c] = i]
    /\ \/ /\ build' = [build EXCEPT ![b].pc = "install", ![b].exported = FALSE]
          /\ UNCHANGED <<mishaps, doubted>>
       \/ build' = [build EXCEPT ![b].pc = "install"] /\ Mishap(c)
    /\ UNCHANGED <<recorded, left, doubled, outlived>>

\* The agent and the mount points; what fails here is ignored.
Install(b) ==
    LET c == build[b].content IN
    /\ build[b].pc = "install"
    /\ build' = [build EXCEPT ![b].pc = "unmount"]
    /\ \/ UNCHANGED <<image, doubted, mishaps>>
       \/ image' = [image EXCEPT ![c] = "partial"] /\ Mishap(c)
    /\ UNCHANGED <<recorded, left, doubled, outlived>>

\* The mount point is removed whether or not the image is still mounted on it.
Unmount(b) ==
    LET c == build[b].content IN
    /\ build[b].pc = "unmount"
    /\ \/ /\ build' = [build EXCEPT ![b].pc = "clean", ![b].made = @ \ {"mount", "mountpoint"}]
          /\ UNCHANGED <<image, doubted, mishaps>>
       \/ /\ build' = [build EXCEPT ![b].pc = "clean"]
          /\ \E i \in {image[c], "partial"} : image' = [image EXCEPT ![c] = i]
          /\ Mishap(c)
    /\ UNCHANGED <<recorded, left, doubled, outlived>>

\* Mutant: the status of the export is not looked at.
Publish_Unchecked(b) ==
    /\ build[b].pc = "clean"
    /\ EndBuild(b, Cleans["format"])
    /\ recorded' = recorded \cup {build[b].content}
    /\ outlived' = outlived \ {build[b].content}
    /\ UNCHANGED <<image, mishaps, doubted, doubled>>

\* The container, its image and the directory are removed, and the record is made.
Publish(b) ==
    LET published == IF build[b].exported THEN {build[b].content} ELSE {} IN
    /\ build[b].pc = "clean"
    /\ EndBuild(b, Cleans["format"])
    /\ recorded' = recorded \cup published
    /\ outlived' = outlived \ published
    /\ UNCHANGED <<image, mishaps, doubted, doubled>>

\* A command that cannot be run, an I/O error, or a caller that gives up.
AbandonBuild(b) ==
    /\ build[b].pc # "idle"
    /\ EndBuild(b, {})
    /\ Mishap(build[b].content)
    /\ UNCHANGED <<recorded, image, doubled, outlived>>

\* The image stays.
DeleteTemplate(c) ==
    /\ recorded' = recorded \ {c}
    /\ outlived' = outlived \ {c}
    /\ UNCHANGED <<image, build, left, mishaps, doubted, doubled>>

\* The images are in the directory for temporary files; the record stays.
ImageVanishes(c) ==
    /\ ~ Building(c)
    /\ image' = [image EXCEPT ![c] = "absent"]
    /\ outlived' = outlived \cup ({c} \cap recorded)
    /\ UNCHANGED <<recorded, build, left, mishaps, doubted, doubled>>

TemplatesNext ==
    \/ \E b \in Builders, c \in Contents : CreateTemplate(b, c)
    \/ \E b \in Builders, p \in DOMAIN After : RunCommand(b, p) \/ CommandFails(b, p)
    \/ \E b \in Builders :
          ExportFails(b) \/ Install(b) \/ Unmount(b) \/ Publish(b) \/ AbandonBuild(b)
    \/ \E c \in Contents : DeleteTemplate(c) \/ ImageVanishes(c)

-----------------------------------------------------------------------------

\* The types of the store, the images and the builds of templates/.
TemplatesTypeOK ==
    /\ recorded \subseteq Contents
    /\ doubted \cup doubled \cup outlived \subseteq Contents
    /\ image \in [Contents -> {"absent", "raw", "empty", "partial", "whole"}]
    /\ \A b \in Builders :
          /\ build[b].pc \in DOMAIN After \cup {"idle", "install", "unmount", "clean"}
          /\ build[b].content \in Contents \cup {"none"}
    /\ mishaps \in 0 .. BuildFaults

\* build.rs and TemplateManager::create_template: a record stands for a whole image,
\* also while builds fail; and builds leave something behind only when something went
\* wrong that the code does not answer to.  Three things void the first:
\*  - such a mishap in a build of the content (doubted);
\*  - two builds of it at once, which write the same image (doubled);
\*  - that its image vanished, which is what create_template builds it again for
\*    (outlived).  Whatever then goes wrong, a command whose error the code returns
\*    included, leaves a spoiled image to the old record, and the next call of
\*    create_template returns the two as Ok.  It takes a build that is published to
\*    mend that, and as long as the image is there none begins.
TemplatesSound ==
    /\ \A c \in recorded \ (doubted \cup doubled \cup outlived) : image[c] = "whole"
    /\ left # {} => mishaps > 0
=============================================================================
