------------------------------ MODULE CookieJar ------------------------------
(***************************************************************************)
(* What the cookie server promises of each group of applications: a jar    *)
(* of cookies, oldest first, and the copy of it that outlives the server.  *)
(* How many objects stand behind a jar, when a group's file is read, and   *)
(* how many processes write it, is not the client's business.              *)
(***************************************************************************)
EXTENDS Integers, SequencesExt

CONSTANTS
    Groups,     \* the groups of applications that share their cookies
    Keys,       \* a name with its domain and path
    Values,     \* what a server gives the browser to keep
    Lives,      \* how long a cookie is to be kept
    Size,       \* of a cookie in bytes, by its key
    Limit       \* KCookieMaxFileLength

VARIABLES
    jar,        \* of each group: its cookies, oldest place first
    saved,      \* of each group: the cookies in its file
    clock,
    crashes     \* how often the server has died without closing

vars == <<jar, saved, clock, crashes>>

Total(cookies) == FoldSeq(LAMBDA c, sum : Size[c.key] + sum, 0, cookies)

\* The cookies after the n oldest places are given up.
Without(cookies, n) == SubSeq(cookies, n + 1, Len(cookies))

Persistent(c) == c.life.kind = "expires" \/ (c.life.kind = "maxAge" /\ c.life.time > 0)

\* Cookies whose time may be taken to be over: no earlier than their age, counted from
\* when they were set, allows.
Overdue(c) == c.life.kind # "transient" /\ c.set + c.life.time <= clock

\* The cookies left once expired ones are dropped; nothing else goes with them.
Purged(before, after) ==
    \E gone \in SUBSET {i \in DOMAIN before : Overdue(before[i])} :
       after = FoldLeft(LAMBDA kept, i : IF i \in gone THEN kept ELSE Append(kept, before[i]),
                        <<>>, [i \in DOMAIN before |-> i])

Init ==
    /\ jar = [g \in Groups |-> <<>>]
    /\ saved = jar
    /\ clock = 0
    /\ crashes = 0

\* A cookie c is set: it takes the place of the one with its name, domain and path,
\* or the last place; the oldest places are given up until there is room for it
\* beside what is there, the cookie it replaces included, and not one more.
IsPut(before, c, after) ==
    \E n \in 0..Len(before) :
       LET kept == Without(before, n)
           same == {i \in DOMAIN kept : kept[i].key = c.key}
       IN /\ after = IF same = {} THEN Append(kept, c)
                     ELSE [i \in DOMAIN kept |-> IF i \in same THEN c ELSE kept[i]]
          /\ n = Len(before) \/ Total(kept) + Size[c.key] <= Limit
          /\ \A m \in 0..n - 1 : Total(Without(before, m)) + Size[c.key] > Limit

Put(g) ==
    /\ LET before == jar[g]
           after == jar'[g]
       IN \E c \in Range(after) \ Range(before) :
             /\ c \in [key : Keys, val : Values, life : Lives, set : {clock}]
             /\ IsPut(before, c, after)
    /\ jar' = [jar EXCEPT ![g] = jar'[g]]
    /\ UNCHANGED <<saved, clock, crashes>>

\* The jar is looked through for a request.
Look(g) ==
    /\ Purged(jar[g], jar'[g])
    /\ jar' = [jar EXCEPT ![g] = jar'[g]]
    /\ UNCHANGED <<saved, clock, crashes>>

\* The user clears the cookies of the group.
Clear(g) ==
    /\ jar' = [jar EXCEPT ![g] = <<>>]
    /\ saved' = [saved EXCEPT ![g] = <<>>]
    /\ UNCHANGED <<clock, crashes>>

\* Groups are put away, and with them their transient cookies; or a file is
\* written back as it is, but for the expired cookies.
PutAway ==
    /\ clock' = clock /\ crashes' = crashes
    /\ \A g \in Groups :
          LET before == jar[g]
              after == jar'[g]
              file == saved[g]
              written == saved'[g]
          IN \/ after = before /\ (written = file \/ Purged(file, written))
             \/ after = written /\ Purged(SelectSeq(before, Persistent), written)
    /\ DOMAIN jar' = Groups
    /\ DOMAIN saved' = Groups

\* The server dies: what was not saved is gone, nothing else.
Crash ==
    /\ jar' = saved
    /\ crashes' = crashes + 1
    /\ UNCHANGED <<saved, clock>>

Tick ==
    /\ clock' = clock + 1
    /\ UNCHANGED <<jar, saved, crashes>>

Next ==
    \/ \E g \in Groups :
          Put(g) \/ Look(g) \/ Clear(g)
    \/ PutAway \/ Crash \/ Tick

Spec == Init /\ [][Next]_vars
=============================================================================
