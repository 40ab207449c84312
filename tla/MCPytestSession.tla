-------------------------- MODULE MCPytestSession ---------------------------
(* Instances of PytestSession for TLC: projects with nothing declared, a   *)
(* kept machine two suites share, masks that overlap or do not, a broken   *)
(* testaferro.ini, test modules that declare more while they are           *)
(* collected, and one setting or another on the command line.              *)
EXTENDS PytestSession

Formats5 == [f \in Files |-> CASE f = "host.exe" -> "foreign" [] f = "b.com" -> "headerless"
                               [] OTHER -> "mz"]
FileOrder == <<"a.exe", "test_it.py", "b.com", "e.exe", "host.exe">>
ItemSuites == [a1 |-> "a.exe", a2 |-> "a.exe", a3 |-> "a.exe", b1 |-> "b.com", e1 |-> "e.exe"]
ItemGroups == [a1 |-> "A", a2 |-> "B", a3 |-> "B", b1 |-> "A", e1 |-> "A"]

Plain == [environment |-> Unsaid, provider |-> Unsaid, persist |-> Unsaid, says |-> {}]
Line == Plain @@ [named |-> {"a.exe", "b.com"}, suites |-> {}, keep |-> FALSE]
Bare == [configured |-> {}, ini |-> <<>>, line |-> Line, call |-> Plain, twins |-> {},
         modules |-> [m \in Modules |-> <<>>]]

Dos == Declaration("dos6", {"fields"}, {"a.exe", "host.exe"})
Kept == [Declaration("kept", {"template"}, {"a.exe", "b.com"}) EXCEPT !.persist = "hw"]
Odd == [Declaration("odd", {"fields"}, {"b.com"}) EXCEPT !.platform = "os2"]
BoxMachine == [Declaration("box", {"drives"}, {"b.com"}) EXCEPT !.provider = "dosbox-x"]
Mine == [Declaration("freedos", {"fields", "boot_image"}, {"a.exe"}) EXCEPT !.persist = "hw"]
Garbled == Declaration("bad", {"fields", "garbled"}, {})

Late == Declaration("late", {"fields"}, {"a.exe", "b.com", "host.exe"})

Importing(p, calls) == [p EXCEPT !.modules = [m \in Modules |-> calls]]
Keeping(p) == [p EXCEPT !.line.keep = TRUE]
Shared == [Bare EXCEPT !.ini = <<Kept>>, !.line.named = {"b.com"}]
SampleProjects ==
    {Keeping(Bare),
     [Bare EXCEPT !.line.persist = "hw", !.call.persist = "hw", !.twins = {"b.com"}],
     Keeping([Shared EXCEPT !.call.environment = "kept"]),
     [Shared EXCEPT !.line.says = {"boot_image"}],
     [Bare EXCEPT !.ini = <<Dos, Odd>>],
     [Bare EXCEPT !.ini = <<Dos, Garbled>>],
     [Bare EXCEPT !.ini = <<Dos, Kept>>],
     [Bare EXCEPT !.configured = {Dos}, !.ini = <<Dos>>],
     [Bare EXCEPT !.ini = <<BoxMachine>>, !.call.environment = "dosbox-x"],
     [Bare EXCEPT !.configured = {Mine}, !.line.environment = "freedos"],
     [Bare EXCEPT !.line.environment = "dosbox-x", !.twins = {"a.exe", "e.exe"}],
     [Bare EXCEPT !.line.provider = "dosbox-x", !.line.named = Files, !.twins = Files],
     [Bare EXCEPT !.ini = <<Kept>>, !.line.provider = "reliquary"],
     Importing([Bare EXCEPT !.ini = <<Kept>>, !.line.suites = {"host.exe"}], <<Late>>),
     Importing([Bare EXCEPT !.call.environment = "late"], <<Late, Garbled>>),
     Importing([Bare EXCEPT !.ini = <<Dos>>], <<Odd, Dos, Late>>)}
=============================================================================
