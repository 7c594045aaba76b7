--------------------------- MODULE MCRequestIntake ---------------------------
(* Instances of RequestIntake for TLC.                                     *)
EXTENDS RequestIntake

\* Texts: absent, blank, clean and padded.
Ids == {t \in Text : t.word \in {"", "text"}}

\* Intervals: the four ways to write a month, none, and one that is unknown.
Intervals == {t \in Text : t.word \in {"month", "MONTH"}}
             \cup {Empty, [word |-> "hour", padded |-> FALSE]}

Creates ==
    [op : {"create"}, request_id : Ids, caller_service : Ids, sound : BOOLEAN,
     provider : {"unspecified", "other"}, recurring : BOOLEAN, interval : Intervals, count : {0, 1}]

Others ==
    [op : {"list"}, limit : {-1, 0, 500, 501}, offset : {-1, 0}, has_status : BOOLEAN,
     status : {"paid", "unknown"}, provider : {"stripe", "other"}]
    \cup [op : {"get", "cancel"}, id : {0, 1}]

AllRequests == Creates \cup Others
===============================================================================
