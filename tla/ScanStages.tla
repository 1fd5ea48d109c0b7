----------------------------- MODULE ScanStages -----------------------------
(***************************************************************************)
(* What the stages of the scanner find in an archive                       *)
(* (internal/scanner/stage_*.go, zipcheck.go, pattern_loader.go).          *)
(*                                                                         *)
(* An archive is a set of files.  Of a file the model keeps what the       *)
(* stages branch on: its place (`kind`), whether it is a directory, longer *)
(* than the scanned megabyte, binary or unreadable, the patterns that      *)
(* match its text (`marks`) and the packages it declares (`deps`), each    *)
(* with the form of its declaration, for the two tiers read a manifest     *)
(* line by line, each in its own way:                                      *)
(*   "plain"   name and version specifier on a line of the section; in a   *)
(*             pyproject.toml of one of the two sections that are read     *)
(*   "marked"  in requirements.txt, a marker or a URL right after the name *)
(*   "quoted"  in package.json, on a line with something before it or in   *)
(*             a section the parser of Tier 2 does not know                *)
(*   "hidden"  any other way: `dependencies = [...]` under [project], a    *)
(*             comment after the name, behind the first megabyte           *)
(* A finding keeps stage, severity and file: category, line, snippet and   *)
(* remediation are wording.                                                *)
(***************************************************************************)
EXTENDS Integers, FiniteSets, EditDistance

LOCAL INSTANCE FiniteSetsExt

CONSTANTS
  ScriptOf,    \* the script a character of a package name belongs to
  Encoding,    \* its bytes
  Byte,        \* the bytes that occur
  PackageName  \* bound: the package names that occur, in lower case

Scripts == {"latin", "cyrillic", "greek", "separator"}

ASSUME ScriptAssumption == \A c \in DOMAIN ScriptOf : ScriptOf[c] \in Scripts

\* Go's strings are bytes: what `len`, an index and `==` see of a name.
UTF8(name) ==
  LET bytes[i \in 0..Len(name)] ==
        IF i = 0 THEN <<>> ELSE bytes[i - 1] \o Encoding[name[i]]
  IN bytes[Len(name)]

\* UTF-8 tells any two names apart.
ASSUME NameAssumption ==
  /\ PackageName \subseteq Seq(DOMAIN ScriptOf)
  /\ Encoding \in [DOMAIN ScriptOf -> Seq(Byte)]
  /\ \A a, b \in PackageName : UTF8(a) = UTF8(b) => a = b

Block == "BLOCK"
Flag  == "FLAG"

Finding(stage, severity, file) == [stage |-> stage, severity |-> severity, file |-> file.name]

hasBlock(findings)     == \E f \in findings : f.severity = Block
collectFlags(findings) == {f \in findings : f.severity = Flag}

-----------------------------------------------------------------------------
(* Patterns.  A pattern file has patterns of either severity and the lists *)
(* of known bad and of popular packages.  Merging appends.                 *)

NoPatterns == [block |-> {}, flag |-> {}, blocklist |-> {}, popular |-> {}]

mergePatternFiles(base, overlay) == [l \in DOMAIN base |-> base[l] \cup overlay[l]]

(* The overlay of one request: rejected when a regular expression does not *)
(* compile or a list is over its limit, and the same as none when empty.   *)
Accepted(overlay) == overlay.compiles /\ overlay.withinLimits
OverlayLists(overlay) == [l \in DOMAIN NoPatterns |-> overlay[l]]

-----------------------------------------------------------------------------
(* Tier 1: patterns and the packages known to be bad.                      *)

Text(archive) == {f \in archive : ~f.dir}
Short(archive) == {f \in Text(archive) : ~f.big /\ ~f.binary}
Unreadable(files) == \E f \in files : ~f.readable

PatternFindings(archive, p) ==
  LET text == {f \in Text(archive) : ~f.binary} IN
  {Finding("static_patterns", Flag, f) : f \in {g \in text : g.big}}
    \cup {Finding("static_patterns", Block, f) : f \in {g \in text : g.marks \cap p.block # {}}}
    \cup {Finding("static_patterns", Flag, f) : f \in {g \in text : g.marks \cap p.flag # {}}}

Declared(f, forms) == {d.name : d \in {e \in f.deps : e.form \in forms}}

(* The names Tier 1 gets: in requirements.txt what is left of a line when  *)
(* it is cut at a version specifier or at `[`, but not at `;` and `@`; in  *)
(* package.json whatever stands in quotes; pyproject.toml is not opened.   *)
Tier1Names(f) ==
  CASE f.kind = "requirements" -> Declared(f, {"plain"})
    [] f.kind = "package_json" -> Declared(f, {"plain", "quoted"})
    [] OTHER                   -> {}

(* Mutant: the list of bad packages is not consulted.                      *)
checkDepBlocklistSkipped(archive, p) == {}

checkDepBlocklist(archive, p) ==
  {Finding("static_patterns", Block, f) :
     f \in {g \in Text(archive) : Tier1Names(g) \cap p.blocklist # {}}}

-----------------------------------------------------------------------------
(* Tier 2: dependencies, prompts, security.                                *)

hasMixedScript(pkg) ==
  Cardinality({ScriptOf[pkg[i]] : i \in DOMAIN pkg} \ {"separator"}) > 1

Distance == [a \in PackageName |-> [b \in PackageName |-> levenshtein(UTF8(a), UTF8(b))]]

(* The severity of a package name: none ({}), or that of the nearest       *)
(* popular one at distance one or two.                                     *)
checkPackageName(pkg, popular) ==
  LET near(d) == \E q \in popular : Distance[pkg][q] = d IN
  CASE hasMixedScript(pkg)                             -> {Block}
    [] ~hasMixedScript(pkg) /\ near(0)                 -> {}
    [] ~hasMixedScript(pkg) /\ ~near(0) /\ near(1)     -> {Block}
    [] ~hasMixedScript(pkg) /\ ~near(0) /\ ~near(1) /\ near(2) -> {Flag}
    [] OTHER                                           -> {}

Manifest == {"requirements", "pyproject", "package_json"}

(* The names Tier 2 gets: requirements.txt is cut at `;` and `@` as well,  *)
(* the other two are read line by line inside the sections it knows.       *)
Tier2Names(f) ==
  CASE f.kind = "requirements"                -> Declared(f, {"plain", "marked"})
    [] f.kind \in Manifest \ {"requirements"} -> Declared(f, {"plain"})
    [] OTHER                                  -> {}

(* A name on either list is not looked at: a bad one is taken to have been *)
(* reported by Tier 1.                                                     *)
SuspectNames(f, p) ==
  UNION {checkPackageName(pkg, p.popular) : pkg \in Tier2Names(f) \ (p.blocklist \cup p.popular)}

DepFindings(archive, p) ==
  LET deps  == {f \in Text(archive) : f.kind \in Manifest}
      hooks == {f \in deps : f.kind = "package_json" /\ "install_hook" \in f.marks}
  IN {Finding("dependencies", Block, f) : f \in hooks}
       \cup UNION {{Finding("dependencies", s, f) : s \in SuspectNames(f, p)} : f \in deps}

(* The scores of the prompt patterns, in hundredths, by table.             *)
PromptScores    == {90, 70, 80, 95, 85, 50, 40, 60, 45}
ToolCallScores  == {90, 70, 85}
DelimiterScores == {85, 80, 75, 70}
riskThresholdBlock == 70
riskThresholdFlag  == 40

(* The highest score decides.  Outside SKILL.md it counts half, and is     *)
(* dropped below the flag threshold; the other two tables are consulted in *)
(* SKILL.md only and have no such threshold.                               *)
PromptSeverity(scores, isSkillMD) ==
  IF scores = {} THEN {}
  ELSE LET best      == CHOOSE n \in scores : \A m \in scores : m <= n
           effective == IF isSkillMD THEN 2 * best ELSE best IN
       IF effective >= 2 * riskThresholdBlock THEN {Block}
       ELSE IF effective < 2 * riskThresholdFlag THEN {} ELSE {Flag}

InjectionSeverity(scores) ==
  IF scores = {} THEN {}
  ELSE IF \E n \in scores : n >= riskThresholdBlock THEN {Block} ELSE {Flag}

PromptFindings(archive) ==
  UNION {{Finding("prompt_injection", s, f) :
            s \in (IF "invisible_unicode" \in f.marks THEN {Flag} ELSE {})
                    \cup PromptSeverity(f.prompts, f.kind = "skill_md")
                    \cup (IF f.kind = "skill_md"
                          THEN InjectionSeverity(f.toolCalls) \cup InjectionSeverity(f.delimiters)
                          ELSE {})}
         : f \in Short(archive)}

(* The checks of the security stage and their severity.                    *)
SecurityChecks ==
  [hardcoded_secret    |-> Block, suspicious_url     |-> Block, unpinned_url        |-> Flag,
   runtime_loading     |-> Block, runtime_dependency |-> Flag,  service_change      |-> Block,
   system_modification |-> Flag,  credential_exposure |-> Flag, financial_execution |-> Flag]

SkillOnlyChecks == {"credential_exposure", "financial_execution"}

SecuritySeverity(check, isSkillMD) ==
  IF check = "runtime_dependency" /\ isSkillMD THEN Block ELSE SecurityChecks[check]

SecurityFindings(archive) ==
  UNION {{Finding("security_analysis", SecuritySeverity(c, f.kind = "skill_md"), f) :
            c \in (f.marks \cap DOMAIN SecurityChecks)
                    \ (IF f.kind = "skill_md" THEN {} ELSE SkillOnlyChecks)}
         : f \in Short(archive)}

-----------------------------------------------------------------------------
(* Tiers.  A tier fails when a file it opens cannot be read.               *)

Tier1(archive, p) == PatternFindings(archive, p) \cup checkDepBlocklist(archive, p)
Tier2(archive, p) == DepFindings(archive, p) \cup PromptFindings(archive) \cup SecurityFindings(archive)

Tier1Fails(archive) == Unreadable(Text(archive))
Tier2Fails(archive) ==
  Unreadable({f \in Text(archive) : ~f.big \/ f.kind \in Manifest})

(* What the LLM stage sends: the priority files that are text.             *)
collectContent(archive) ==
  {f \in Text(archive) : f.kind \in {"skill_md", "entrypoint"} /\ f.readable /\ ~f.binary}

(***************************************************************************)
(* The safety of the zip file, checked before the scan.                    *)
(***************************************************************************)
CONSTANTS maxEntryCount, maxDecompressedSize, maxCompressionRatio

LOCAL Total(files) == MapThenSumSet(LAMBDA f : f.size, files)

CheckZIPSafety(archive) ==
  /\ Cardinality(archive) <= maxEntryCount
  /\ \A f \in archive : f.path = "plain" /\ ~f.nested
  /\ Total(Text(archive)) <= maxDecompressedSize
  /\ \A f \in Text(archive) : f.packed > 0 => f.size \div f.packed <= maxCompressionRatio
=============================================================================
