---------------------------- MODULE Declarations ----------------------------
(***************************************************************************)
(* What a project says of its guest suites and what becomes of it: the     *)
(* environments declared in testaferro.ini and with config(), which a test *)
(* module may call while pytest collects it (environments.py), which files *)
(* a scan takes for suites (plugin.py, binfmt.py), and the guest each      *)
(* suite is resolved to (resolution.py, the suite_backend of each binding).*)
(*                                                                         *)
(* A declaration is a record: the kinds of option it says, and the values  *)
(* of those that decide something.  What pytest is told, on its command    *)
(* line or in its ini, and what one guest_suite() call is told, are        *)
(* records of the same sort.  A mask is the set of files it matches.       *)
(***************************************************************************)
EXTENDS SequencesExt, FiniteSets

CONSTANTS
    Files,       \* the suite executables
    Embedded,    \* those a test module names in a guest_suite() call
    Modules,     \* the test modules that call config()
    Format,      \* Format[f]: what binfmt makes of f's header
    Programs,    \* the files called what DOS itself would execute
    Projects     \* what there may be to a project: the declarations of a
                 \* conftest, of its testaferro.ini and of its test modules,
                 \* pytest's settings, the guest_suite() call, the twins

Unsaid == "unsaid"
Formats == {"mz", "headerless", "foreign"}
Providers == {"reliquary", "dosbox-x"}

\* configure refuses a declaration without a name.
ASSUME DeclarationsAssumption ==
    /\ Embedded \subseteq Files /\ Programs \subseteq Files
    /\ Modules \cap Files = {}
    /\ Format \in [Files -> Formats]
    /\ \A p \in Projects :
          /\ IsFiniteSet(p.configured)
          /\ \A d, e \in p.configured : d.name = e.name => d = e
          /\ \A d \in p.configured : d.name # Unsaid
          /\ \A calls \in {p.ini} \cup {p.modules[m] : m \in Modules} :
                /\ calls \in Seq(Range(calls))
                /\ \A d \in Range(calls) : d.name # Unsaid

VARIABLES
    project,       \* what the project and the command line say; never changes
    environments,  \* the declarations configured so far
    loaded         \* the search for testaferro.ini: "unset", "none" or "found"

declarations == <<environments, loaded>>

Declaration(name, says, suites) ==
    [name |-> name, says |-> says, suites |-> suites, platform |-> "dos",
     provider |-> Unsaid, persist |-> Unsaid]

\* The catalog, which no scan and no inference reaches.
Standard == {Declaration("freedos", {}, {}),
             [Declaration("dosbox-x", {"sections"}, {}) EXCEPT !.provider = "dosbox-x"]}

NameOf(d) == d.name
Names(declared) == {NameOf(d) : d \in declared}

-----------------------------------------------------------------------------
(* _declaration and _section_options: a template stands alone and is read  *)
(* by the provider it names; a boot image takes the place of the drives;   *)
(* "garbled" is a value, name or document that does not read.              *)
Templates == {"machine_config", "template"}
Declarable(d) ==
    /\ ~(Templates \subseteq d.says)
    /\ d.says \cap Templates # {} =>
          /\ d.says \cap {"fields", "sections", "drives", "boot_image"} = {}
          /\ d.provider \in Providers \cup {Unsaid}
    /\ ~({"boot_image", "drives"} \subseteq d.says)
    /\ "garbled" \notin d.says

\* configure, of one of several calls: a name there is is not given again.
Refused(calls, k) ==
    \/ ~Declarable(calls[k])
    \/ calls[k].name \in Names(environments \cup {calls[j] : j \in 1 .. k - 1})

(* The calls one after another, up to the first that raises, whose         *)
(* predecessors stay configured; ok when none does.                        *)
Declare(calls, ok) ==
    /\ ok <=> \A k \in DOMAIN calls : ~Refused(calls, k)
    /\ environments' = environments \cup
          {calls[k] : k \in {n \in DOMAIN calls : \A j \in 1 .. n : ~Refused(calls, j)}}

DeclarationsInit ==
    /\ project \in Projects
    /\ environments = project.configured
    /\ loaded = "unset"

(* load_config, whose search remembers a file and a fruitless search, but  *)
(* not a file with a section that raised.                                  *)
LoadConfig(ok) ==
    /\ loaded = "unset"
    /\ Declare(project.ini, ok)
    /\ loaded' = IF ~ok THEN loaded ELSE IF project.ini = <<>> THEN "none" ELSE "found"

-----------------------------------------------------------------------------
\* _declared_environment: the declarations whose masks match f; more than
\* one is a usage error.
Claimants(f) == {d \in environments : f \in d.suites}
Ambiguous(f) == Cardinality(Claimants(f)) > 1

Told(f) == Claimants(f) # {} \/ project.line.environment # Unsaid

Named(f) == f \in project.line.named
Masked(f) == f \in project.line.suites
OptedIn(f) == Masked(f) \/ Claimants(f) # {}

(* _claimed: a header that proves DOS claims a file that was named or      *)
(* opted in; one that proves nothing, only a named one; one that proves    *)
(* another system, only when told outright.                                *)
Claimed(f) ==
    /\ Named(f) \/ OptedIn(f)
    /\ \/ Format[f] = "mz"
       \/ Format[f] = "headerless" /\ Named(f) /\ (Told(f) \/ f \in Programs)
       \/ Format[f] = "foreign" /\ Told(f)

\* The claim asks for the declared environment, and is refused an answer.
ClaimRaises(f) ==
    /\ Ambiguous(f)
    /\ \/ ~Named(f) /\ ~Masked(f)
       \/ Format[f] = "headerless" /\ Named(f)
       \/ Format[f] = "foreign"

-----------------------------------------------------------------------------
\* What was asked for f: by its guest_suite() call, or of the whole run.
Asked(f) == IF f \in Embedded THEN project.call ELSE project.line

(* Mistaken variant of the operator below: the declaration that claims a   *)
(* file is not asked.                                                      *)
WantedAsAsked(f) == {Asked(f).environment}

\* The environment f is to run in, if any was named; none to choose from
\* when two declarations claim it.
Wanted(f) ==
    IF f \in Embedded \/ Asked(f).environment # Unsaid THEN {Asked(f).environment}
    ELSE IF Claimants(f) = {} THEN {Unsaid}
    ELSE IF Ambiguous(f) THEN {} ELSE Names(Claimants(f))

Called(name, declared) == {d \in declared : d.name = name}
Serving(platform) == {d \in environments : d.platform = platform}

(* select: by name the project's own first and the catalog's second; by    *)
(* the executable's platform the one declaration that serves it.           *)
Select(name) ==
    IF name = Unsaid THEN IF Cardinality(Serving("dos")) = 1 THEN Serving("dos") ELSE {}
    ELSE IF Called(name, environments) # {} THEN Called(name, environments)
    ELSE Called(name, Standard)

\* Nothing declared at all: zero configuration.
FallsThrough(name) == name = Unsaid /\ environments = {}

Nearest(given, declared) == IF given # Unsaid THEN given ELSE declared
ProviderOf(given) == Nearest(given, "reliquary")

\* Each binding's own refusals: neither runs anything but DOS programs.
Binds(provider, f, says, persist) ==
    /\ provider \in Providers
    /\ Format[f] # "foreign"
    /\ provider = "dosbox-x" => "boot_image" \notin says /\ persist = Unsaid
    /\ provider = "reliquary" => ~({"boot_image", "machine_config"} \subseteq says)

(* resolve_backend, in a declared or standard environment d: the call may  *)
(* not name what the environment does.                                     *)
InEnvironment(f, d) ==
    LET a == Asked(f)
        guest == [environment |-> d.name, provider |-> ProviderOf(d.provider),
                  persist |-> Nearest(a.persist, d.persist)]
    IN  IF /\ "machine_config" \notin a.says /\ a.provider = Unsaid
           /\ d.platform = "dos"
           /\ Binds(guest.provider, f, a.says \cup {"machine_config"}, guest.persist)
           /\ guest.provider = "dosbox-x" => d.says \cap {"fields", "drives", "boot_image"} = {}
          THEN {guest} ELSE {}

\* And with none: what the call says is all there is.
ZeroConfiguration(f) ==
    LET a == Asked(f)
        provider == ProviderOf(a.provider)
    IN  IF Binds(provider, f, a.says, a.persist)
          THEN {[environment |-> Unsaid, provider |-> provider, persist |-> a.persist]}
          ELSE {}

(* The guest f is resolved to; none when it is refused.                    *)
Resolution(f) ==
    UNION {IF FallsThrough(name) THEN ZeroConfiguration(f)
           ELSE UNION {InEnvironment(f, d) : d \in Select(name)} : name \in Wanted(f)}
=============================================================================
