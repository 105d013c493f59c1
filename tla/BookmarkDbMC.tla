---------------------------- MODULE BookmarkDbMC ----------------------------
(* Two processes: the browser, which sees all that is public or its own, and a *)
(* reader that sees what is public.  They start without a database, or with a  *)
(* folder and a bookmark in it.                                                *)
EXTENDS BookmarkDb

BrowserAndReader == [p \in Procs |-> IF p = "browser" THEN "all" ELSE "public"]
OneFolder == <<"folder", 1>> :> Root @@ <<"bookmark", 1>> :> <<"folder", 1>>
Calling(b, r) == [p \in Procs |-> IF p = "browser" THEN b ELSE r]
FiveSessions ==
    {[start |-> <<>>, calls |-> Calling({"create"}, {})],
     [start |-> OneFolder, calls |-> Calling({"create", "delete"}, {"title"})],
     [start |-> OneFolder, calls |-> Calling({"insert", "append"}, {"delete"})],
     [start |-> OneFolder, calls |-> Calling({"private", "home"}, {"title"})],
     [start |-> OneFolder, calls |-> Calling({"move", "readonly"}, {"home", "delete"})]}
=============================================================================
