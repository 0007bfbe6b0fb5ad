------------------------------- MODULE WebBridge -------------------------------
(***************************************************************************)
(* The web bridge (web/server.py): POSTs of several clients under the      *)
(* sliding-window rate limit, and the two JSON files it rewrites as a      *)
(* whole, the community feed and the directory.  The handlers have no      *)
(* await between load and save, so that a request is one step.  A save may *)
(* be cut short, by a full disk, by text that UTF-8 cannot encode or by    *)
(* the end of the process.                                                 *)
(***************************************************************************)
EXTENDS Naturals, Sequences, FiniteSets, SequencesExt, FiniteSetsExt

CONSTANTS Clients,
          Window,      \* _RATE_WINDOW_SECONDS
          MaxRate,     \* _RATE_MAX_POSTS
          MaxPosts,    \* _MAX_POSTS
          MaxTime, MaxRequests, MaxCuts

ASSUME BridgeAssumption ==
  /\ Window \in Nat \ {0} /\ MaxRate \in Nat \ {0} /\ MaxPosts \in Nat \ {0}
  /\ MaxTime \in Nat /\ MaxRequests \in Nat /\ MaxCuts \in Nat

VARIABLES
  time,      \* time.time(), which is taken not to go back
  admitted, \* the times of the POSTs this process has let through
  buckets,  \* _rate_buckets: those of them, by number, whose times it holds
  feed,     \* posts.json; posts are numbered as they are made
  sites,    \* directory.json; entries are numbered too
  posted,   \* how many posts were saved, and how many since a cut save
  added,    \* the same of entries
  requests, cuts

bridgeVars == <<time, buckets, admitted, feed, sites, posted, added, requests, cuts>>

\* A file as read_text() and json.loads() find it.  What is cut between two
\* characters is not JSON and counts as no list; what is cut inside one of
\* several bytes, for the text is written as it is and not in ASCII, does not
\* decode either.
Whole(list) == [decodes |-> TRUE, list |-> list]
Cut     == Whole(<< >>)
Mangled == [decodes |-> FALSE, list |-> << >>]
NoneYet == [all |-> 0, since |-> 0]

BridgeInit ==
  /\ time = 0
  /\ buckets = [c \in Clients |-> {}]
  /\ admitted = [c \in Clients |-> << >>]
  /\ feed = Whole(<< >>) /\ sites = Whole(<< >>)
  /\ posted = NoneYet /\ added = NoneYet
  /\ requests = 0 /\ cuts = 0

TimePasses ==
  /\ time < MaxTime /\ time' = time + 1
  /\ UNCHANGED <<buckets, admitted, feed, sites, posted, added, requests, cuts>>

----------------------------------------------------------------------------
(* _check_rate_limit().                                                    *)

\* Comparing with > where >= is meant.
WithinOneMore(n) == n <= MaxRate

Within(n) == n < MaxRate

Pruned(c) == {n \in buckets[c] : admitted[c][n] + Window > time}

Admit(c) ==
  /\ requests < MaxRequests /\ requests' = requests + 1
  /\ Within(Cardinality(Pruned(c)))
  /\ buckets' = [buckets EXCEPT ![c] = Pruned(c) \cup {Len(admitted[c]) + 1}]
  /\ admitted' = [admitted EXCEPT ![c] = Append(@, time)]

\* 429, by any of the routes that take a POST.
Refuse(c) ==
  /\ requests < MaxRequests /\ requests' = requests + 1
  /\ ~Within(Cardinality(Pruned(c)))
  /\ buckets' = [buckets EXCEPT ![c] = Pruned(c)]
  /\ UNCHANGED <<time, admitted, feed, sites, posted, added, cuts>>

\* A POST that does not reach the files: the handler finds it wrong, or it is
\* for another store, or, by /api/content/posts, its coroutine is not awaited.
PostElsewhere(c) ==
  /\ Admit(c)
  /\ UNCHANGED <<time, feed, sites, posted, added, cuts>>

----------------------------------------------------------------------------
(* The feed and the directory.                                             *)

\* The list of a file that decodes.  Of one that does not, the
\* UnicodeDecodeError is no JSONDecodeError and leaves the handler.
Load(file) == file.list

\* Leaving the oldest posts when there are too many.
TrimmedOldest(posts) == SubSeq(posts, 1, Min({Len(posts), MaxPosts}))

Trimmed(posts) ==
  SubSeq(posts, Max({0, Len(posts) - MaxPosts}) + 1, Len(posts))

OneMore(n) == [all |-> n.all + 1, since |-> n.since + 1]

\* _handle_posts_post().
PostMessage(c) ==
  /\ Admit(c) /\ feed.decodes
  /\ feed' = Whole(Trimmed(Append(Load(feed), posted.all + 1)))
  /\ posted' = OneMore(posted)
  /\ UNCHANGED <<time, sites, added, cuts>>

\* _handle_directory_post().
AddSite(c) ==
  /\ Admit(c) /\ sites.decodes
  /\ sites' = Whole(Append(Load(sites), added.all + 1))
  /\ added' = OneMore(added)
  /\ UNCHANGED <<time, feed, posted, cuts>>

\* Either of them finds its file undecodable: nothing is saved, and the
\* connection is closed without an answer.
PostUnread(c) ==
  /\ Admit(c) /\ ~(feed.decodes /\ sites.decodes)
  /\ UNCHANGED <<time, feed, sites, posted, added, cuts>>

\* A save follows a load.
CutSave ==
  /\ cuts < MaxCuts /\ cuts' = cuts + 1
  /\ \/ feed.decodes /\ feed' \in {Cut, Mangled}
        /\ posted' = [posted EXCEPT !.since = 0]
        /\ UNCHANGED <<sites, added>>
     \/ sites.decodes /\ sites' \in {Cut, Mangled}
        /\ added' = [added EXCEPT !.since = 0]
        /\ UNCHANGED <<feed, posted>>

\* An OSError, or a UnicodeEncodeError once the file is open, leaves the
\* handler: the connection is closed without an answer.
SaveFails(c) ==
  /\ Admit(c) /\ CutSave
  /\ UNCHANGED time

\* The process ends, in a save or elsewhere; the buckets were in memory.
BridgeRestarts ==
  /\ CutSave \/ UNCHANGED <<feed, sites, posted, added, cuts>>
  /\ \E c \in Clients : admitted[c] # << >>
  /\ buckets' = [c \in Clients |-> {}]
  /\ admitted' = [c \in Clients |-> << >>]
  /\ UNCHANGED <<time, requests>>

BridgeNext ==
  \/ TimePasses
  \/ \E c \in Clients : \/ Refuse(c) \/ PostElsewhere(c) \/ PostMessage(c)
                        \/ AddSite(c) \/ PostUnread(c) \/ SaveFails(c)
  \/ BridgeRestarts

BridgeSpec == BridgeInit /\ [][BridgeNext]_bridgeVars

----------------------------------------------------------------------------
\* _handle_posts_get(): the newest first.
PostsShown(limit) ==
  LET newest == Reverse(Load(feed))
  IN  SubSeq(newest, 1, Min({Len(newest), Max({1, Min({limit, MaxPosts})})}))

\* No client gets more than MaxRate POSTs through in any Window seconds of the
\* life of the process, wherever the window lies (_check_rate_limit).
RateBounded ==
  \A c \in Clients, end \in 0 .. MaxTime :
    Cardinality({n \in DOMAIN admitted[c] :
                   admitted[c][n] <= end /\ admitted[c][n] + Window > end})
      <= MaxRate

\* The feed shows the newest posts, the newest first, and the directory holds
\* the newest entries, all those saved since a save was cut short; such a save
\* costs the older ones.  If it left a file that does not decode there are no
\* later ones: what is not shown was not taken either (_load_posts,
\* _load_directory).
FeedIsLatest ==
  /\ IF feed.decodes
     THEN \A limit \in 0 .. MaxPosts + 1 :
            LET shown == Min({posted.since, MaxPosts, Max({1, limit})}) IN
            PostsShown(limit) = [n \in 1 .. shown |-> posted.all + 1 - n]
     ELSE posted.since = 0
  /\ IF sites.decodes
     THEN Load(sites) = [n \in 1 .. added.since |-> added.all - added.since + n]
     ELSE added.since = 0
=============================================================================
