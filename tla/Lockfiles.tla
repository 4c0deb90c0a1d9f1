------------------------------ MODULE Lockfiles ------------------------------
(***************************************************************************)
(* The lockfile adapters (crates/adapters): from the document a package    *)
(* manager wrote to the list of dependencies the tool works on.            *)
(*                                                                         *)
(* A document is a record with its format version and its entries in the   *)
(* order the adapter reads them: the order of the keys for the formats     *)
(* that are maps, the order of the file for the others.  Strings the       *)
(* adapters take apart are given in their parts; the position of the cut   *)
(* (which `@`, which `node_modules/`) is in the choice of the parts.       *)
(*                                                                         *)
(* Every entry also has a field the adapters do not see: `real`, what the  *)
(* package manager installs for it, or Absent.                             *)
(***************************************************************************)
EXTENDS Integers, Sequences, SequencesExt, FiniteSets

CONSTANTS
  Absent,     \* an absent field
  Alphabet,   \* the names and versions, in byte order
  Canonical   \* names PEP 503 spells differently: [spelling |-> normal form]

ASSUME LockfilesAssumption ==
  /\ IsInjective(Alphabet) /\ DOMAIN Alphabet \subseteq Nat
  /\ \A n \in DOMAIN Canonical : Canonical[n] \notin DOMAIN Canonical

\* The empty string.
Empty == ""

Formats == {"npm", "pnpm", "yarn", "uv", "requirements", "poetry"}

Ecosystem(format) == IF format \in {"uv", "requirements", "poetry"} THEN "pypi" ELSE format

Dep(eco, name, version, source, direct) ==
  [eco |-> eco, name |-> name, version |-> version, source |-> source, direct |-> direct]

Parsed(deps) == [ok |-> TRUE, deps |-> deps]
Failed == [ok |-> FALSE, deps |-> <<>>]

\* The members of S in the order Before.
InOrder(S, Before(_, _)) ==
  LET placed == {[at |-> Cardinality({y \in S : Before(y, x)}) + 1, of |-> x] : x \in S}
  IN [k \in 1 .. Cardinality(S) |-> (CHOOSE p \in placed : p.at = k).of]

\* The elements of s at the positions I, in their order.
Selected(s, I) ==
  LET order == InOrder(I, <)
  IN [k \in DOMAIN order |-> s[order[k]]]

Place(s) ==
  LET places == {i \in DOMAIN Alphabet : Alphabet[i] = s}
  IN IF places = {} THEN 0 ELSE CHOOSE i \in places : TRUE

SortKey(deps, i) ==
  [name |-> Place(deps[i].name), version |-> Place(deps[i].version), at |-> i]

Earlier(x, y) ==
  \/ x.name < y.name
  \/ x.name = y.name /\ x.version < y.version
  \/ x.name = y.name /\ x.version = y.version /\ x.at < y.at

\* The stable sort by name and version every adapter ends with.
Sorted(deps) ==
  LET order == InOrder({SortKey(deps, i) : i \in DOMAIN deps}, Earlier)
  IN [k \in DOMAIN order |-> deps[order[k].at]]

Each(s, Op(_)) == [i \in DOMAIN s |-> Op(s[i])]

Where(s, Test(_)) == {i \in DOMAIN s : Test(s[i])}

Normalised(name) == IF name \in DOMAIN Canonical THEN Canonical[name] ELSE name

-----------------------------------------------------------------------------
(***************************************************************************)
(* package-lock.json.  The key of an entry is a directory of the           *)
(* repository ("" for its root) and the names that follow a                *)
(* `node_modules/`, outermost first.  A resolved URL is its scheme, its    *)
(* extension and whether it has "/-/" in it.                               *)
(***************************************************************************)
UnderNodeModules(e) == e.dir = Empty /\ e.chain # <<>>

NpmSource(url) ==
  CASE url = Absent -> "registry"
    [] url # Absent /\ url.scheme = "git" -> "git"
    [] url # Absent /\ url.scheme # "git" /\ url.ext \in {".tgz", ".tar.gz"} ->
         IF url.ext = ".tgz" /\ url.dash THEN "registry" ELSE "tarball"
    [] OTHER -> IF url.scheme \in {"file", "github"} THEN url.scheme ELSE "registry"

\* Defect: the name is taken after the first `node_modules/`.
NpmNameFirst(e) ==
  CASE e.name # Absent -> e.name
    [] e.name = Absent /\ e.chain # <<>> -> Head(e.chain)
    [] OTHER -> e.dir

NpmName(e) ==
  CASE e.name # Absent -> e.name
    [] e.name = Absent /\ e.chain # <<>> -> Last(e.chain)
    [] OTHER -> e.dir

\* The root, links and entries without a version are passed over; what is not
\* under the `node_modules/` of the root is taken for a workspace member.
NpmParse(doc) ==
  LET Listed(e) == ~(e.dir = Empty /\ e.chain = <<>>) /\ ~e.link /\ e.version # Absent
      Of(e) == Dep("npm", NpmName(e), e.version,
                   IF UnderNodeModules(e) THEN NpmSource(e.resolved) ELSE "workspace",
                   UnderNodeModules(e) /\ Len(e.chain) = 1)
  IN IF doc.version < 2 \/ ~doc.hasPackages THEN Failed
     ELSE Parsed(Sorted(Each(Selected(doc.entries, Where(doc.entries, Listed)), Of)))

-----------------------------------------------------------------------------
(***************************************************************************)
(* pnpm-lock.yaml.  A key is split before its peer suffix at the last `@`; *)
(* `slash` says whether it starts with "/", which version 6 asks for.      *)
(* The sections `dependencies` and `devDependencies` of an importer are    *)
(* one set of [name, version], peer suffixes removed.                      *)
(***************************************************************************)
PnpmSource(resolution) ==
  CASE resolution.tarball -> "tarball"
    [] ~resolution.tarball /\ resolution.repo -> "git"
    [] OTHER -> IF resolution.directory THEN "file" ELSE "registry"

PnpmReadable(doc, e) == (doc.version = 6 => e.slash) /\ e.name # Empty /\ e.version # Empty

\* Defect: the first importer only.
PnpmDirectOfRoot(doc) == IF doc.version = 9 THEN Head(doc.importers) ELSE doc.top

\* The importers of a version 6 lockfile are not looked at.
PnpmDirect(doc) == IF doc.version = 9 THEN UNION Range(doc.importers) ELSE doc.top

PnpmParse(doc) ==
  LET Readable(e) == PnpmReadable(doc, e)
      Of(e) == Dep("pnpm", e.name, e.version, PnpmSource(e.resolution),
                   [name |-> e.name, version |-> e.version] \in PnpmDirect(doc))
  IN IF doc.version \notin {6, 9} THEN Failed
     ELSE Parsed(Sorted(Each(Selected(doc.entries, Where(doc.entries, Readable)), Of)))

-----------------------------------------------------------------------------
(***************************************************************************)
(* yarn.lock.  A descriptor is cut at its last `@`: `upto` before it, then *)
(* a protocol (Absent if there is no colon) and a value; `git` says whether *)
(* "#commit=" or ".git" is in it.  A lockfile of Yarn Classic has no       *)
(* metadata; metadata may be without a version.                            *)
(***************************************************************************)
YarnSource(at) ==
  CASE at.protocol \in {Absent, "npm"} -> "registry"
    [] at.protocol = "workspace" -> "workspace"
    [] at.protocol \in {"git", "git+ssh", "git+https", "git+http"} -> "git"
    [] at.protocol = "github" -> "github"
    [] at.protocol \in {"file", "link", "portal"} -> "file"
    [] OTHER -> IF at.protocol \in {"https", "http"} /\ at.git THEN "git" ELSE "tarball"

\* The package.json files a workspace pattern stands for; globs other than a
\* trailing star are passed over.
Members(dirs, pattern) ==
  {d \in DOMAIN dirs :
     /\ dirs[d].manifest # Absent
     /\ \/ pattern.glob = "none" /\ d = pattern.path
        \/ pattern.glob = "star" /\ dirs[d].parent = pattern.path}

\* The four dependency sections of a package.json are one set of [name, range].
YarnDirect(doc) ==
  IF doc.manifest = Absent THEN {}
  ELSE doc.manifest.declared
       \cup UNION {doc.dirs[d].manifest.declared :
                     d \in UNION {Members(doc.dirs, p) : p \in doc.manifest.workspaces}}

YarnParse(doc) ==
  LET direct == YarnDirect(doc)
      Listed(e) == e.version # Absent /\ e.resolution # Absent
                   /\ e.resolution.upto # Empty /\ e.resolution.protocol # "workspace"
      Of(e) == Dep("yarn", e.resolution.upto, e.version, YarnSource(e.resolution),
                   \E d \in e.descriptors : [name |-> d.upto, range |-> d.value] \in direct)
  IN IF ~doc.metadata \/ (doc.version # Absent /\ doc.version < 4) THEN Failed
     ELSE Parsed(Sorted(Each(Selected(doc.entries, Where(doc.entries, Listed)), Of)))

-----------------------------------------------------------------------------
(***************************************************************************)
(* uv.lock.  `source` is one of the kinds of UvSource, with the path of a  *)
(* virtual one.                                                            *)
(***************************************************************************)
UvSource(source) ==
  [registry |-> "pypi", none |-> "pypi", virtual |-> "workspace", editable |-> "file",
   directory |-> "file", git |-> "git", url |-> "tarball"][source.kind]

\* What the first virtual package of the file depends on.
UvDirect(doc) ==
  LET virtual == Where(doc.entries, LAMBDA e : e.source.kind = "virtual")
  IN IF virtual = {} THEN {} ELSE {Normalised(n) : n \in doc.entries[Min(virtual)].dependencies}

UvParse(doc) ==
  LET Listed(e) == e.version # Absent /\ ~(e.source.kind = "virtual" /\ e.source.path = ".")
      Of(e) == Dep("pypi", Normalised(e.name), e.version, UvSource(e.source),
                   Normalised(e.name) \in UvDirect(doc))
  IN IF doc.version # 1 THEN Failed
     ELSE Parsed(Sorted(Each(Selected(doc.entries, Where(doc.entries, Listed)), Of)))

-----------------------------------------------------------------------------
(***************************************************************************)
(* requirements.txt.  An entry is a logical line, continuations joined,    *)
(* with the comment lines that follow it; a `# via x` on one line is       *)
(* [via |-> x], every other comment or pip directive [via |-> Absent].     *)
(***************************************************************************)
LastVia(e) ==
  LET said == Where(e.notes, LAMBDA n : n.via # Absent)
  IN IF said = {} THEN Absent ELSE e.notes[Max(said)].via

\* Without a `via` an entry is direct.
RequirementsParse(doc) ==
  LET Of(e) == Dep("pypi", Normalised(e.name), e.version, "pypi",
                   LastVia(e) \in {Absent, "-r", "-c"})
  IN IF doc.entries = <<>> \/ \E i \in DOMAIN doc.entries :
          ~(doc.entries[i].hashed /\ doc.entries[i].pinned)
     THEN Failed
     ELSE Parsed(Sorted(Each(doc.entries, Of)))

-----------------------------------------------------------------------------
(***************************************************************************)
(* poetry.lock, with the pyproject.toml beside it: the names of its poetry *)
(* table, of each group, and of the PEP 621 array.                         *)
(***************************************************************************)
PoetrySource(kind) ==
  CASE kind = "git" -> "git"
    [] kind = "url" -> "tarball"
    [] kind \in {"file", "directory"} -> "file"
    [] OTHER -> "pypi"

PoetryDirect(doc) ==
  IF doc.manifest = Absent THEN {}
  ELSE LET m == doc.manifest
           tables == (m.dependencies \cup UNION m.groups) \ {"python"}
       IN {Normalised(n) : n \in tables \cup (m.project \ {Empty})}

PoetryParse(doc) ==
  LET Of(e) == Dep("pypi", Normalised(e.name), e.version, PoetrySource(e.source),
                   Normalised(e.name) \in PoetryDirect(doc))
  IN IF doc.version \notin {Absent, 1, 2} THEN Failed ELSE Parsed(Sorted(Each(doc.entries, Of)))

-----------------------------------------------------------------------------
Parse(doc) ==
  CASE doc.format = "npm" -> NpmParse(doc)
    [] doc.format = "pnpm" -> PnpmParse(doc)
    [] doc.format = "yarn" -> YarnParse(doc)
    [] doc.format = "uv" -> UvParse(doc)
    [] doc.format = "requirements" -> RequirementsParse(doc)
    [] doc.format = "poetry" -> PoetryParse(doc)
=============================================================================
