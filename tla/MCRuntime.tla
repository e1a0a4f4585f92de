------------------------------ MODULE MCRuntime ------------------------------
EXTENDS Runtime

MCScreen == <<"screen">>
MCStable == <<"sshwarma", "screen">>
MCParts == {<<"ui", "bars">>}
MCTools == {<<"mcp", "rooms">>}
MCOwn == {<<"ana">>}
MCEdited == {{<<"screen">>, <<"sshwarma", "screen", "init">>},
             {<<"ui", "bars">>, <<"ui", "bars", "init">>},
             {<<"..", "ana">>, <<"..", "screen">>, <<"ana">>},
             {<<"mcp", "rooms">>, <<"mcp", "init">>}}

MCStyles == {Plain, [colour |-> "red", bold |-> FALSE], [colour |-> "red", bold |-> TRUE]}
\* Red and bold red are not told apart, and digits are characters too.
MCDigest == [s \in MCStyles |-> IF s.colour = "red" THEN <<"a", "7">> ELSE <<"a">>]
MCTexts == {<<"a">>, <<"W", "j">>, <<"W", "W">>}
MCRegions == {[x |-> 1, y |-> 0, w |-> 9, h |-> 1]}
MCSpots == {[x |-> 0, y |-> 0], [x |-> 1, y |-> 0], [x |-> 0, y |-> 1]}
=============================================================================
