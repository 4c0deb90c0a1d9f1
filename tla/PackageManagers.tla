--------------------------- MODULE PackageManagers ---------------------------
(***************************************************************************)
(* How the package managers write what they install, as far as the         *)
(* adapters of Lockfiles rely on it.  They are not part of the repository: *)
(* this is what its adapters and their tests take for granted.             *)
(*                                                                         *)
(* An entry's `real` is what is installed for it, or Absent: [name,        *)
(* version, from, declared], with from "registry", "exotic" or             *)
(* "workspace", and declared "plainly" (a manifest of the project has it   *)
(* in a section that the adapter reads), "otherwise" (in another section   *)
(* or under another name) or "no".                                         *)
(***************************************************************************)
EXTENDS Lockfiles

\* What the adapters are known to miss: a package npm installs for one workspace
\* member only, and the key of a pnpm 6 dependency that is not from a registry.
Overlooked(doc, e) ==
  \/ doc.format = "npm" /\ e.dir # Empty /\ e.chain # <<>>
  \/ doc.format = "pnpm" /\ doc.version = 6 /\ ~e.slash

Plainly(e) == e.real.declared = "plainly"

\* npm keeps a package in the directory that has its name, unless it has another
\* there (an alias), and the project's own dependencies at the top.  Only the
\* URLs of registries have "/-/" in them.
NpmWrites(e) ==
  \/ e.real = Absent /\ (e.link \/ e.version = Absent \/ (e.dir = Empty /\ e.chain = <<>>))
  \/ /\ e.real # Absent /\ ~e.link
     /\ e.version # Absent /\ e.version = e.real.version
     /\ \/ e.name # Absent /\ e.name = e.real.name
        \/ e.name = Absent /\ e.chain # <<>> /\ Last(e.chain) = e.real.name
        \/ e.name = Absent /\ e.chain = <<>> /\ e.dir = e.real.name
     /\ IF e.chain = <<>> THEN e.dir # Empty /\ e.real.from = "workspace"
                         ELSE e.real.from \in {"registry", "exotic"}
     /\ e.real.from = "registry" =>
          \/ e.resolved = Absent
          \/ e.resolved.scheme \in {"http", "https"} /\ e.resolved.ext = ".tgz" /\ e.resolved.dash
     /\ e.real.from = "exotic" =>
          /\ e.resolved # Absent /\ ~e.resolved.dash
          /\ \/ e.resolved.scheme \in {"git", "github", "file"}
             \/ e.resolved.ext \in {".tgz", ".tar.gz"}
     /\ Plainly(e) => e.dir = Empty /\ Len(e.chain) = 1

\* pnpm 6 starts the keys of what it has from a registry, and only these, with
\* "/"; pnpm 9 says in the resolution where a package is from.
PnpmWrites(doc, e) ==
  /\ e.real # Absent /\ e.real.from \in {"registry", "exotic"}
  /\ doc.version = 6 => (e.slash <=> e.real.from = "registry")
  /\ ~Overlooked(doc, e) =>
       LET r == e.resolution
           this == [name |-> e.real.name, version |-> e.real.version]
       IN /\ e.name # Empty /\ e.name = e.real.name
          /\ e.version # Empty /\ e.version = e.real.version
          /\ e.real.from = "exotic" <=> r.tarball \/ r.repo \/ r.directory
          /\ doc.version = 6 => (Plainly(e) <=> this \in doc.top)
          /\ doc.version = 9 =>
               (Plainly(e) <=> \E i \in DOMAIN doc.importers : this \in doc.importers[i])

\* yarn names a package from the registry by the name it has there.  What a
\* manifest declares plainly has the declaration among its descriptors.
Manifests(doc) ==
  {doc.manifest}
  \cup {doc.dirs[d].manifest : d \in UNION {Members(doc.dirs, p) : p \in doc.manifest.workspaces}}

YarnWrites(doc, e) ==
  \/ e.real = Absent /\ e.resolution # Absent /\ e.resolution.protocol = "workspace"
  \/ /\ e.real # Absent
     /\ e.version # Absent /\ e.version = e.real.version
     /\ e.resolution # Absent /\ e.resolution.upto # Empty
     /\ \/ e.real.from = "registry" /\ e.resolution.protocol = "npm"
        \/ e.real.from = "exotic" /\ e.resolution.protocol \notin {Absent, "npm", "workspace"}
     /\ e.real.from = "registry" \/ Plainly(e) => e.resolution.upto = e.real.name
     /\ Plainly(e) <=>
          /\ doc.manifest # Absent
          /\ \E d \in e.descriptors, m \in Manifests(doc) :
               [name |-> d.upto, range |-> d.value] \in m.declared

\* The project itself, in a uv.lock.  It need not be the first virtual package.
UvProject(e) == e.source.kind = "virtual" /\ e.source.path = "."

UvRoot(doc, i) ==
  UvProject(doc.entries[i]) /\ \A j \in DOMAIN doc.entries : UvProject(doc.entries[j]) => i <= j

RootFirst(doc) ==
  doc.format = "uv" =>
    \A j \in DOMAIN doc.entries : doc.entries[j].source.kind = "virtual" =>
      \E i \in DOMAIN doc.entries : UvRoot(doc, i) /\ i <= j

\* uv has its packages under their names in normal form.

UvWrites(doc, e) ==
  \/ e.real = Absent /\ UvProject(e)
  \/ /\ e.real # Absent
     /\ e.version # Absent /\ e.version = e.real.version
     /\ Normalised(e.name) = e.real.name
     /\ \/ e.real.from = "registry" /\ e.source.kind \in {"registry", "none"}
        \/ e.real.from = "exotic" /\ e.source.kind \in {"editable", "directory", "git", "url"}
        \/ e.real.from = "workspace" /\ e.source.kind = "virtual" /\ ~UvProject(e)
     /\ Plainly(e) <=>
          \E i \in DOMAIN doc.entries :
            UvRoot(doc, i) /\ \E n \in doc.entries[i].dependencies : Normalised(n) = e.real.name

\* pip-compile notes `via -r`, or nothing, for what a requirements file asks for.
RequirementsWrites(e) ==
  /\ e.real # Absent /\ e.real.from = "registry"
  /\ e.version = e.real.version /\ Normalised(e.name) = e.real.name
  /\ e.notes \in Seq(Range(e.notes))
  /\ Plainly(e) => \A i \in DOMAIN e.notes : e.notes[i].via \in {Absent, "-r", "-c"}

\* Of a pyproject.toml, "python" is the interpreter and "" no name.
PoetryWrites(doc, e) ==
  /\ e.real # Absent
  /\ e.version = e.real.version /\ Normalised(e.name) = e.real.name
  /\ \/ e.real.from = "registry" /\ e.source \in {"none", "legacy"}
     \/ e.real.from = "exotic" /\ e.source \in {"git", "url", "file", "directory"}
  /\ Plainly(e) <=>
       /\ doc.manifest # Absent
       /\ \/ \E n \in doc.manifest.dependencies \cup UNION doc.manifest.groups :
               n # "python" /\ Normalised(n) = e.real.name
          \/ \E n \in doc.manifest.project : n # Empty /\ Normalised(n) = e.real.name

Written(doc) ==
  \A i \in DOMAIN doc.entries :
    /\ doc.format = "npm" => NpmWrites(doc.entries[i])
    /\ doc.format = "pnpm" => PnpmWrites(doc, doc.entries[i])
    /\ doc.format = "yarn" => YarnWrites(doc, doc.entries[i])
    /\ doc.format = "uv" => UvWrites(doc, doc.entries[i])
    /\ doc.format = "requirements" => RequirementsWrites(doc.entries[i])
    /\ doc.format = "poetry" => PoetryWrites(doc, doc.entries[i])
=============================================================================
