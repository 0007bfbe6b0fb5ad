----------------------------- MODULE ContentStore -----------------------------
(***************************************************************************)
(* ContentStore (content/store.py) and the handlers of ContentNode         *)
(* (content/node.py): concurrent publications, which are kept in memory    *)
(* under the lock and written to the file outside it, listings made of two *)
(* reads, failed writes, and new processes that load the file.             *)
(***************************************************************************)
EXTENDS LineFile, FiniteSets, FiniteSetsExt, Filtering

CONSTANTS Posts,            \* each is published by a call of its own
          Listers,          \* the calls that count and list
          Readers,          \* those who read a listing page by page
          Filters,          \* a filter is the set of the posts it matches
          Limits,           \* the limits asked for
          MaxLimit,         \* 200 in the code
          MaxStoreFailures, MaxStoreCrashes

ASSUME StoreAssumption ==
  /\ Filters \subseteq SUBSET Posts
  /\ Limits \subseteq Nat /\ MaxLimit \in Nat \ {0}
  /\ MaxStoreFailures \in Nat /\ MaxStoreCrashes \in Nat

VARIABLES
  order,      \* _order, with _items
  storeFile,
  publishing, \* where a publication stands
  kept,       \* the posts whose write succeeded
  listing,    \* where a listing stands, and what it has read
  reading,    \* where a reader stands, and what it has been shown
  storeFailures, storeCrashes

storeVars == <<order, storeFile, publishing, kept, listing, reading,
               storeFailures, storeCrashes>>

\* A listing that has read nothing.
NoListing == [at |-> "idle", filter |-> {}, limit |-> 0, count |-> 0,
              posts |-> << >>]

\* A reader that has not begun: "seen" are the posts it was shown, "owed" those
\* that were there when it began.
NoReading == [at |-> "idle", filter |-> {}, limit |-> 0, seen |-> << >>,
              owed |-> {}]

StoreInit ==
  /\ order = << >> /\ storeFile = << >>
  /\ publishing = [p \in Posts |-> "idle"]
  /\ kept = {}
  /\ listing = [l \in Listers |-> NoListing]
  /\ reading = [r \in Readers |-> NoReading]
  /\ storeFailures = 0 /\ storeCrashes = 0

GoesOn(p, at) == publishing' = [publishing EXCEPT ![p] = at]

----------------------------------------------------------------------------
(* publish().                                                              *)

Publish(p) ==
  /\ publishing[p] = "idle"
  /\ order' = Append(order, p)
  /\ GoesOn(p, "stored")
  /\ UNCHANGED <<storeFile, kept, listing, reading, storeFailures, storeCrashes>>

\* No title or body, or too much of it: an error is answered.
PublishRefused(p) ==
  /\ publishing[p] = "idle"
  /\ GoesOn(p, "ended")
  /\ UNCHANGED <<order, storeFile, kept, listing, reading, storeFailures,
                 storeCrashes>>

\* The handler of PUBLISH leaves what is wrong with a post to the store, and
\* answers its ValueError.
OnPublish(p) == Publish(p) \/ PublishRefused(p)

StoreWrite(p) ==
  /\ publishing[p] = "stored"
  /\ storeFile' = Append(storeFile, Chunk(p, "line"))
  /\ kept' = kept \cup {p}
  /\ GoesOn(p, "ended")
  /\ UNCHANGED <<order, listing, reading, storeFailures, storeCrashes>>

StoreCutShort(p) ==
  {storeFile} \cup {Append(storeFile, Chunk(p, cut)) : cut \in Cuts}

\* An OSError is swallowed.
StoreWriteFails(p) ==
  /\ publishing[p] = "stored" /\ storeFailures < MaxStoreFailures
  /\ storeFile' \in StoreCutShort(p)
  /\ storeFailures' = storeFailures + 1
  /\ GoesOn(p, "ended")
  /\ UNCHANGED <<order, kept, listing, reading, storeCrashes>>

\* Loading with one try around the loop.
LoadStoreUpToBad(file) == LoadUpToBad(file)

LoadStore(file) == LoadSkipping(file)

StoreRestarts ==
  /\ storeCrashes < MaxStoreCrashes /\ storeCrashes' = storeCrashes + 1
  /\ \/ UNCHANGED <<storeFile, storeFailures>>
     \/ \E p \in Posts :
          /\ publishing[p] = "stored" /\ storeFailures < MaxStoreFailures
          /\ storeFile' \in StoreCutShort(p)
          /\ storeFailures' = storeFailures + 1
  /\ order' = LoadStore(storeFile')
  /\ publishing' = [p \in Posts |-> IF publishing[p] = "stored" THEN "ended"
                                                               ELSE publishing[p]]
  /\ listing' = [l \in Listers |-> NoListing]
  /\ reading' = [r \in Readers |-> NoReading]
  /\ UNCHANGED kept

----------------------------------------------------------------------------
(* _dispatch_list(): the number of matching posts, then the posts.         *)

Matching(filter) == Filtered(order, filter)

Clamped(limit) == Max({1, Min({limit, MaxLimit})})

\* Applying the limit before the filter.
PageUnfiltered(filter, offset, limit) ==
  Filtered(SubSeq(Reverse(order), offset + 1,
                  Min({Len(order), offset + Clamped(limit)})), filter)

\* list(): the newest first.
Page(filter, offset, limit) ==
  LET found == Reverse(Matching(filter))
  IN  SubSeq(found, offset + 1, Min({Len(found), offset + Clamped(limit)}))

CountMatching(l) ==
  /\ listing[l].at = "idle"
  /\ \E filter \in Filters, limit \in Limits :
       listing' = [listing EXCEPT ![l] =
                     [at |-> "counted", filter |-> filter, limit |-> limit,
                      count |-> Len(Matching(filter)), posts |-> << >>]]
  /\ UNCHANGED <<order, storeFile, publishing, kept, reading, storeFailures,
                 storeCrashes>>

List(l) ==
  /\ listing[l].at = "counted"
  /\ listing' = [listing EXCEPT
                   ![l].at = "listed",
                   ![l].posts = Page(listing[l].filter, 0, listing[l].limit)]
  /\ UNCHANGED <<order, storeFile, publishing, kept, reading, storeFailures,
                 storeCrashes>>

----------------------------------------------------------------------------
(* LIST with an offset: a reader asks for the page after what it was       *)
(* shown, and has finished with a page that is not full.                   *)

ReadsPage(r, filter, limit, owed) ==
  LET page == Page(filter, Len(reading[r].seen), limit)
  IN  /\ reading' = [reading EXCEPT ![r] =
             [at     |-> IF Len(page) < Clamped(limit) THEN "finished" ELSE "on",
              filter |-> filter, limit |-> limit,
              seen   |-> reading[r].seen \o page, owed |-> owed]]
      /\ UNCHANGED <<order, storeFile, publishing, kept, listing, storeFailures,
                     storeCrashes>>

FirstPage(r) ==
  /\ reading[r].at = "idle"
  /\ \E filter \in Filters, limit \in Limits :
       ReadsPage(r, filter, limit, ToSet(Matching(filter)))

NextPage(r) ==
  /\ reading[r].at = "on"
  /\ ReadsPage(r, reading[r].filter, reading[r].limit, reading[r].owed)

StoreNext ==
  \/ \E p \in Posts : \/ OnPublish(p)
                      \/ StoreWrite(p) \/ StoreWriteFails(p)
  \/ \E l \in Listers : CountMatching(l) \/ List(l)
  \/ \E r \in Readers : FirstPage(r) \/ NextPage(r)
  \/ StoreRestarts

StoreSpec == StoreInit /\ [][StoreNext]_storeVars

----------------------------------------------------------------------------
\* A failed write costs at most one post whose own write succeeded: the one
\* written next, which shares its line (_load skips single lines).  With
\* several failures the losses add up to no more than their number.
OneLostPerFailure ==
  Cardinality(kept \ ToSet(LoadStore(storeFile))) <= storeFailures

\* A listing shows at least as many posts as it counts, up to its limit,
\* though posts are published between the count and the list
\* (_dispatch_list).  Who reads page by page has at the end been shown every
\* post that was there at the beginning, though newer posts move the others
\* to later pages (list).
ListingsComplete ==
  /\ \A l \in Listers :
       listing[l].at = "listed" =>
         Len(listing[l].posts) >= Min({listing[l].count, Clamped(listing[l].limit)})
  /\ \A r \in Readers :
       reading[r].at = "finished" => reading[r].owed \subseteq ToSet(reading[r].seen)
=============================================================================
