--------------------------- MODULE MCScanPipeline ---------------------------
(* Instance of ScanPipeline for TLC.                                       *)
EXTENDS ScanPipeline, TLC

Bytes == [a |-> <<97>>, b |-> <<98>>, c |-> <<99>>, e_acute |-> <<195, 169>>, ya |-> <<209, 143>>]
CharScripts == [c \in DOMAIN Bytes |-> IF c = "ya" THEN "cyrillic" ELSE "latin"]
AllBytes == {97, 98, 99, 195, 169, 209, 143}

\* Package names: a popular one, a second one of the configured file that is
\* one edit away, one edit and two edits from both, an accent and a letter of
\* another script in the place of a letter, a bad one.
Good  == <<"a", "b", "c">>
Near  == <<"a", "b", "b">>
Close == <<"a", "b", "c", "b">>
Far   == <<"b", "a", "b", "c", "c">>
Accent == <<"e_acute", "b", "c">>
Alike == <<"ya", "b", "c">>
Evil  == <<"b", "c", "b", "a", "b">>

Names == {Good, Near, Close, Far, Accent, Alike, Evil}

Plain(kind) ==
  [name |-> kind, kind |-> kind, dir |-> FALSE, big |-> FALSE, binary |-> FALSE,
   readable |-> TRUE, marks |-> {}, deps |-> {}, prompts |-> {}, toolCalls |-> {},
   delimiters |-> {}, path |-> "plain", nested |-> FALSE, size |-> 2, packed |-> 1]

SkillFile == Plain("skill_md")
Main      == Plain("entrypoint")

With(kind, name, form) == [Plain(kind) EXCEPT !.deps = {[name |-> name, form |-> form]}]

\* Archives with flags only (sudo has nothing to send to the LLM, and packages
\* that are bad or misspelt where the tiers do not see them), with a letter of
\* another script in a name, with a misspelt name before a marker, without a
\* finding until a reload lists its package, with a file that cannot be read, and
\* one that is never accepted.
Archives ==
  [sudo    |-> {[Plain("other") EXCEPT !.marks = {"system_modification"}],
                With("requirements", Evil, "marked"), With("pyproject", Evil, "plain"),
                With("package_json", Close, "quoted")},
   alike   |-> {With("package_json", Alike, "plain")},
   suspect |-> {[SkillFile EXCEPT !.prompts = {45}],
                [Main EXCEPT !.marks = {"subprocess", "credential_exposure"}],
                With("pyproject", Far, "plain"), With("package_json", Accent, "plain")},
   typo    |-> {With("requirements", Close, "marked")},
   baddep  |-> {SkillFile, With("package_json", Evil, "quoted")},
   broken  |-> {SkillFile, [Main EXCEPT !.readable = FALSE]},
   bomb    |-> {[Main EXCEPT !.size = 9, !.packed = 1]}]

AllArchives == DOMAIN Archives

Embedded == [block |-> {"reverse_shell"}, flag |-> {"subprocess"},
             blocklist |-> {}, popular |-> {Good}]

Over(lists) == lists @@ NoPatterns @@ [compiles |-> TRUE, withinLimits |-> TRUE]
AllOverlays == {Over([blocklist |-> {Evil}]),
                [Over([block |-> {"custom"}]) EXCEPT !.compiles = FALSE]}
FileOverlay == Over([popular |-> {Near}])
NoFeed == {}
=============================================================================
