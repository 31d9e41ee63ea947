------------------------------ MODULE Listings ------------------------------
(***************************************************************************)
(* The listings, which give names to the objects of an object store        *)
(* (src/src/uri/Listings.cpp): a name gets an identifier at its first use, *)
(* and a file keeps it from one run of a program to the next.              *)
(*                                                                         *)
(* Processes start, ask for identifiers, end by the destructor, which      *)
(* writes every listing back, or crash, anywhere.  Several processes may   *)
(* use one file at a time, as the documentation allows when it has all the *)
(* names they need.  getObjectId() is one step, under its mutex.  Saving a *)
(* listing is two: fopen(), which empties the file, and fclose(), which    *)
(* writes what stdio has kept in its buffer until then; the listings of    *)
(* the model are smaller than that buffer.                                 *)
(***************************************************************************)
EXTENDS Integers, FiniteSets

CONSTANTS
  Processes,
  Lists,        (* the files of the listings                               *)
  Names,        (* the names of objects                                    *)
  Blank,        (* those that hold a blank                                 *)
  Files,        (* the content of the files at first, see file             *)
  Generators,   (* whether c0appz_generate_id() exists, for each build     *)
  Signs,        (* whether it returns negative numbers                     *)
  MaxTime,      (* bound on the clock, in seconds                          *)
  MaxIds        (* bound on the identifiers that one generator gives       *)

Empty == [x \in {} |-> x]

\* An identifier is written down as the way it was made: the k-th since
\* srand(seed).  What is made in one way is one number; no property says that
\* two numbers differ.  The object store has a seed of its own.
Id(seed, k, negative) == [seed |-> seed, k |-> k, negative |-> negative]
StoreSeed == -1

Identifiers == [seed : Int, k : Int, negative : BOOLEAN]
ObjectMaps == UNION {[S -> Identifiers] : S \in SUBSET Names}
ListingMaps == UNION {[S -> ObjectMaps] : S \in SUBSET Lists}

ASSUME ListingsAssumption ==
  /\ Blank \subseteq Names
  /\ DOMAIN Files \subseteq Lists
  /\ \A l \in DOMAIN Files : Files[l] \in [DOMAIN Files[l] -> Identifiers]
  /\ \A l \in DOMAIN Files : DOMAIN Files[l] \subseteq Names
  /\ Files = [l \in DOMAIN Files |-> Files[l]]
  /\ Generators \subseteq BOOLEAN /\ Signs \subseteq BOOLEAN
  /\ {MaxTime, MaxIds} \subseteq Nat

VARIABLES
  now,        (* the clock                                                 *)
  generator,  (* the build has c0appz_generate_id()                        *)
  generated,  (* how many identifiers it has returned                      *)
  file,       (* for the files that exist, name -> identifier              *)
  proc,       (* the processes, see Down                                   *)
  settled,    (* history: listing -> name -> identifier it was first saved *)
              (* with                                                      *)
  harmed      (* history: listings that were not used with care, see Harms *)

vars == <<now, generator, generated, file, proc, settled, harmed>>

\* phase: down, up, saving, closing.    seed: what srand() was given.
\* drawn: the identifiers drawn since.  listings: the attribute of that name.
\* left: the listings still to save.    open: the one that is being saved.
Down == [phase |-> "down", seed |-> 0, drawn |-> 0, listings |-> Empty,
         left |-> {}, open |-> {}]

\* fprintf() writes with %lu and sscanf() reads with %ld, which ends at the
\* largest number.
Largest == Id(-2, 0, FALSE)
Parse(id) == IF id.negative THEN Largest ELSE id

With(f, x, y) == [z \in DOMAIN f \cup {x} |-> IF z = x THEN y ELSE f[z]]

Init ==
  /\ now = 0
  /\ generator \in Generators
  /\ generated = 0
  /\ file = Files
  /\ proc = [p \in Processes |-> Down]
  /\ settled = [l \in Lists |-> IF l \in DOMAIN Files THEN Files[l] ELSE Empty]
  /\ harmed = {}
-----------------------------------------------------------------------------
\* The clock advances.
Tick ==
  /\ now < MaxTime
  /\ now' = now + 1
  /\ UNCHANGED <<generator, generated, file, proc, settled, harmed>>

\* Listings::Listings(): std::srand(std::time(nullptr)).
Start(p) ==
  /\ proc[p].phase = "down"
  /\ proc' = [proc EXCEPT ![p] = [Down EXCEPT !.phase = "up", !.seed = now]]
  /\ UNCHANGED <<now, generator, generated, file, settled, harmed>>

\* Mutant of LoadListing: the file is not read.
LoadListingNot(l) == Empty

\* loadListing(): what the entries of the file are once they are parsed.
LoadListing(l) ==
  IF l \in DOMAIN file THEN [n \in DOMAIN file[l] |-> Parse(file[l][n])]
  ELSE Empty

\* The listing that getObjectId() works on.
Listing(p, l) ==
  IF l \in DOMAIN proc[p].listings THEN proc[p].listings[l] ELSE LoadListing(l)

\* "Invalid format in listing": sscanf() stops at the blank of a name.
LoadFails(p, l) ==
  /\ l \notin DOMAIN proc[p].listings
  /\ l \in DOMAIN file /\ DOMAIN file[l] \cap Blank # {}

\* Process p has the listing in memory and has yet to write it.
HasToSave(p, l) ==
  /\ l \in DOMAIN proc[p].listings
  /\ proc[p].phase = "up" \/ l \in proc[p].left

\* History.  A call by which p has listing l as m harms the listing when p
\* reads the file between fopen() and fclose() of another process, or when
\* two processes are to write a listing to which one of them adds names:
\* "a listing file should not be used by multiple processes except if it
\* already contains all the necessary object IDs" (concepts.md).
Harms(p, l, m) ==
  \/ l \notin DOMAIN proc[p].listings /\ \E q \in Processes : l \in proc[q].open
  \/ \E q \in Processes \ {p} :
       /\ HasToSave(q, l)
       /\ ~(DOMAIN m \cup DOMAIN proc[q].listings[l] \subseteq DOMAIN settled[l])

Observe(p, l, m) == harmed' = IF Harms(p, l, m) THEN harmed \cup {l} ELSE harmed

\* getObjectId() of a name the listing has.
FindObjectId(p, l, n) ==
  /\ proc[p].phase = "up" /\ ~LoadFails(p, l)
  /\ n \in DOMAIN Listing(p, l)
  /\ proc' = [proc EXCEPT ![p].listings = With(@, l, Listing(p, l))]
  /\ Observe(p, l, Listing(p, l))
  /\ UNCHANGED <<now, generator, generated, file, settled>>

\* createObjectId() calls std::rand() or c0appz_generate_id().
Draw(p) ==
  IF generator THEN generated < MaxIds /\ generated' = generated + 1
  ELSE proc[p].drawn < MaxIds /\ UNCHANGED generated

\* What it returns.
NewId(p, negative) ==
  IF generator THEN Id(StoreSeed, generated, negative)
  ELSE Id(proc[p].seed, proc[p].drawn, FALSE)

\* The listing with the new name.
Extended(p, l, n, negative) == With(Listing(p, l), n, NewId(p, negative))

\* getObjectId() of a name the listing does not have: createObjectId().
CreateObjectId(p, l, n) ==
  /\ proc[p].phase = "up" /\ ~LoadFails(p, l)
  /\ n \notin DOMAIN Listing(p, l)
  /\ Draw(p)
  /\ \E negative \in Signs :
       /\ proc' = [proc EXCEPT
            ![p].drawn = IF generator THEN @ ELSE @ + 1,
            ![p].listings = With(@, l, Extended(p, l, n, negative))]
       /\ Observe(p, l, Extended(p, l, n, negative))
  /\ UNCHANGED <<now, generator, file, settled>>

\* getObjectId() of a listing whose file cannot be read ends the process.
Refuse(p, l) ==
  /\ proc[p].phase = "up" /\ LoadFails(p, l)
  /\ proc' = [proc EXCEPT ![p] = Down]
  /\ UNCHANGED <<now, generator, generated, file, settled, harmed>>

\* Listings::~Listings() calls saveListings().
Finalize(p) ==
  /\ proc[p].phase = "up"
  /\ proc' = [proc EXCEPT ![p].phase = "saving",
                          ![p].left = DOMAIN proc[p].listings]
  /\ UNCHANGED <<now, generator, generated, file, settled, harmed>>

\* saveListing(): fopen(name, "w+") leaves an empty file.
SaveOpen(p, l) ==
  /\ proc[p].phase = "saving" /\ l \in proc[p].left
  /\ file' = With(file, l, Empty)
  /\ proc' = [proc EXCEPT ![p].phase = "closing", ![p].open = {l}]
  /\ UNCHANGED <<now, generator, generated, settled, harmed>>

\* What was saved, with listing l saved as m.
Merged(l, m) ==
  [settled EXCEPT ![l] =
     [n \in DOMAIN @ \cup DOMAIN m |-> IF n \in DOMAIN @ THEN @[n] ELSE m[n]]]

\* Mutant of SaveClose: only the names that are new are written.
SaveCloseNew(p, l) ==
  /\ proc[p].phase = "closing" /\ l \in proc[p].open
  /\ file' = With(file, l,
       [n \in DOMAIN proc[p].listings[l] \ DOMAIN settled[l] |->
          proc[p].listings[l][n]])
  /\ settled' = Merged(l, proc[p].listings[l])
  /\ proc' = [proc EXCEPT ![p].phase = "saving", ![p].open = {},
                          ![p].left = @ \ {l}]
  /\ UNCHANGED <<now, generator, generated, harmed>>

\* ... and fclose() writes it.
SaveClose(p, l) ==
  /\ proc[p].phase = "closing" /\ l \in proc[p].open
  /\ file' = With(file, l, proc[p].listings[l])
  /\ settled' = Merged(l, proc[p].listings[l])
  /\ proc' = [proc EXCEPT ![p].phase = "saving", ![p].open = {},
                          ![p].left = @ \ {l}]
  /\ UNCHANGED <<now, generator, generated, harmed>>

\* The destructor is done.
Exit(p) ==
  /\ proc[p].phase = "saving" /\ proc[p].left = {}
  /\ proc' = [proc EXCEPT ![p] = Down]
  /\ UNCHANGED <<now, generator, generated, file, settled, harmed>>

\* The process is killed, or ends without ummap_finalize().  A listing that
\* it has open stays empty, which harms it.
Crash(p) ==
  /\ proc[p].phase # "down"
  /\ proc' = [proc EXCEPT ![p] = Down]
  /\ harmed' = harmed \cup proc[p].open
  /\ UNCHANGED <<now, generator, generated, file, settled>>

Next ==
  \/ Tick
  \/ \E p \in Processes :
       \/ Start(p) \/ Finalize(p) \/ Exit(p) \/ Crash(p)
       \/ \E l \in Lists :
            \/ SaveOpen(p, l) \/ SaveClose(p, l) \/ Refuse(p, l)
            \/ \E n \in Names : FindObjectId(p, l, n) \/ CreateObjectId(p, l, n)

Spec == Init /\ [][Next]_vars
-----------------------------------------------------------------------------
(***************************************************************************)
(* Properties.  They are about the listings that are not harmed, while     *)
(* others may be: a crash between fopen() and fclose(), a read there, or   *)
(* two processes that add names are the only ways to lose an identifier.   *)
(***************************************************************************)

\* The identifier id is s, or what sscanf() makes of it when s is negative.
Kept(id, s) == id = s \/ (s.negative /\ id = Largest)

\* "generate and keep track of the selected IDs by matching them with a name
\* in the listing file" (concepts.md): a name that a process saved has the
\* same identifier in every process afterwards, over restarts and crashes and
\* with several processes on one file (Listings::loadListing,
\* Listings::saveListing), in every listing that is not harmed.  Negative
\* identifiers become the largest number when they are read.
NameKeepsId ==
  \A p \in Processes : \A l \in DOMAIN proc[p].listings \ harmed :
    \A n \in DOMAIN proc[p].listings[l] \cap DOMAIN settled[l] :
      Kept(proc[p].listings[l][n], settled[l][n])

\* A file that no process is writing has every entry that was ever saved in
\* it (Listings::saveListing empties the file and writes all of it again),
\* whoever else saves the same listing at the same time, if it is not harmed.
NothingIsForgotten ==
  \A l \in Lists \ harmed : (\A p \in Processes : l \notin proc[p].open) =>
    \A n \in DOMAIN settled[l] :
      l \in DOMAIN file /\ n \in DOMAIN file[l] /\ Kept(file[l][n], settled[l][n])
=============================================================================
