---- MODULE CookieServerMC ----
EXTENDS CookieServer
\* The browser's sessions and one of the music player, which shares the browser's
\* group; the widgets' group is configured and not used.
WhoIs == [s \in Sessions |-> IF s = "music" THEN "player" ELSE "browser"]
Groups == <<"browser", "widgets">>
Sharing == [g \in {"browser", "widgets"} |-> IF g = "browser" THEN {"browser", "player"} ELSE {}]
Bytes == [k \in Keys |-> IF k = "small" THEN 1 ELSE 2]
AnyUri == [u \in Uris |-> Keys]
LivesOf == [k \in Keys |-> IF k = "small" THEN {[kind |-> "unversioned", time |-> 1], [kind |-> "maxAge", time |-> 1]}
                           ELSE {[kind |-> "expires", time |-> 1]}]
=============================================================================
