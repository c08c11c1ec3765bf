----------------------------- MODULE Storefront -----------------------------
(***************************************************************************)
(* What a customer sees of a restaurant: its branches, which its owner and *)
(* managers keep and an admin shows or hides, its status and its logo,     *)
(* with the upload and confirmation of images.                             *)
(*                                                                         *)
(* No route here has a transaction: each is one or two reads, with checks  *)
(* on what they returned, and one statement at the end.  An image goes     *)
(* from the client to S3 by a presigned URL that the service cannot take   *)
(* back.  A request that a guard turns away never begins; the product      *)
(* routes check an image as the logo's does.                               *)
(***************************************************************************)
EXTENDS Naturals

CONSTANTS
  Requests,      \* one per HTTP request
  Seed,          \* who made what was there from the beginning
  Admin, Users,  \* Admin is one of the users
  Restaurants,
  OwnerOf,       \* the owner of each
  Branches,      \* branch ids
  Manages,       \* the branches that a user's token names
  Uploads,       \* media ids
  Blank,         \* a logoURL of "" or null, which the check skips
  Same,          \* a PATCH that leaves a column out
  Calls,         \* what the requests may ask for
  InitStatus,    \* the status of each restaurant
  InitBranch,    \* the branches to begin with,
  InitMedia,     \* and the uploads, whose URLs are still good
  MaxPuts        \* bound: how often an object is uploaded

Statuses == {"active", "suspended", "disabled", "pending"}
Types == {"logo", "product"}
\* What S3 may hold: an image of the type that was announced, or something else
\* (another Content-Type, 0 bytes).
Objects == {"image", "other"}
Flag == BOOLEAN \cup {Same}

Branch == [restaurant : Restaurants, active : BOOLEAN, open : BOOLEAN]
Media == [restaurant : Restaurants, by : Users, type : Types, done : BOOLEAN]

Call ==
  [op : {"open"}, user : Users, restaurant : Restaurants]
    \cup [op : {"patchBranch"}, user : Users, branch : Branches, open : Flag]
    \cup [op : {"showBranch"}, user : {Admin}, branch : Branches, active : Flag]
    \cup [op : {"patch"}, user : Users, restaurant : Restaurants,
          logo : Uploads \cup {Blank, Same}]
    \cup [op : {"review"}, user : {Admin}, restaurant : Restaurants, status : Statuses]
    \cup [op : {"upload"}, user : Users, restaurant : Restaurants, type : Types]
    \cup [op : {"confirm"}, user : Users, restaurant : Restaurants, upload : Uploads]

ASSUME CallsAssumption == Calls \subseteq Call
ASSUME OwnersAssumption == OwnerOf \in [Restaurants -> Users] /\ Admin \in Users
\* An upload that is there from the beginning has still to be confirmed.
ASSUME StartAssumption ==
  /\ InitStatus \in [Restaurants -> Statuses]
  /\ DOMAIN InitBranch \subseteq Branches /\ InitBranch \in [DOMAIN InitBranch -> Branch]
  /\ DOMAIN InitMedia \subseteq Uploads /\ InitMedia \in [DOMAIN InitMedia -> Media]
  /\ \A m \in DOMAIN InitMedia : ~InitMedia[m].done

VARIABLES
  status, logo,  \* of the restaurants
  branch,        \* the rows of restaurant_branches,
  media,         \* and of media
  object,        \* what S3 holds under the path of each upload
  urls,          \* the uploads whose presigned URL is still good
  place, call,
  before,        \* the requests that were over when a request began
  reviewer,      \* who set the status of a restaurant last
  kept,          \* the last change of a branch on its owner's behalf
  word,          \* what an admin said last of a branch
  puts,          \* how often an object was put,
  headed         \* and how often before the HEAD of a request that accepted it

rows == <<status, logo, branch, media>>
s3 == <<object, urls, puts>>
ghosts == <<reviewer, kept, word, headed>>
shopVars == <<rows, s3, place, call, before, ghosts>>

ShopInit ==
  /\ status = InitStatus
  /\ logo = [x \in Restaurants |-> Blank]
  /\ branch = InitBranch
  /\ media = InitMedia
  /\ object = [m \in Uploads |-> "nothing"]
  /\ urls = DOMAIN InitMedia
  /\ place = [r \in Requests |-> "idle"]
  /\ call \in [Requests -> Calls]
  /\ before = [r \in Requests |-> {}]
  /\ reviewer = [x \in Restaurants |-> Seed]
  /\ kept = [b \in Branches |-> [by |-> Seed, status |-> "active", reviewer |-> Seed]]
  /\ word = [b \in Branches |-> b \in DOMAIN InitBranch /\ InitBranch[b].active]
  /\ puts = [m \in Uploads |-> 0]
  /\ headed = [r \in Requests |-> 0]

-----------------------------------------------------------------------------
Does(r, op) == call[r].op = op
IsAdmin(r) == call[r].user = Admin
Over == {r \in Requests : place[r] = "over"}

\* The request goes on, or ends with an error and no change.
Goto(r, where) ==
  /\ place' = [place EXCEPT ![r] = where]
  /\ before' = IF place[r] = "idle" THEN [before EXCEPT ![r] = Over] ELSE before
  /\ UNCHANGED call
Check(r, passed, where) ==
  /\ Goto(r, IF passed THEN where ELSE "over")
  /\ UNCHANGED <<rows, s3, ghosts>>

\* The restaurant that a request is about.
About(r) ==
  IF call[r].op \in {"patchBranch", "showBranch"}
    THEN branch[call[r].branch].restaurant ELSE call[r].restaurant

\* BranchRepository.findById, of update and updateStatus.
FindBranch(r) ==
  /\ place[r] = "idle" /\ call[r].op \in {"patchBranch", "showBranch"}
  /\ Check(r, call[r].branch \in DOMAIN branch,
           IF Does(r, "patchBranch") THEN "found" ELSE "checked")

\* Mutant: the repository's read, without the service's check of the status.
MayKeepAny(r) ==
  \/ IsAdmin(r) \/ OwnerOf[About(r)] = call[r].user
  \/ Does(r, "patchBranch") /\ call[r].branch \in Manages[call[r].user]

\* RestaurantService.findRestaurantById finds active ones, for whom it is owned
\* or managed by; a token that names a branch names its restaurant.
MayKeep(r) ==
  /\ status[About(r)] = "active"
  /\ \/ IsAdmin(r) \/ OwnerOf[About(r)] = call[r].user
     \/ Does(r, "patchBranch") /\ call[r].branch \in Manages[call[r].user]

FindActiveRestaurant(r) ==
  /\ \/ place[r] = "idle" /\ Does(r, "open")
     \/ place[r] = "found" /\ Does(r, "patchBranch")
  /\ Check(r, MayKeep(r), "checked")

\* The repository's findRestaurantById and restaurantExists, which find all.
FindRestaurant(r) ==
  /\ place[r] = "idle" /\ call[r].op \in {"patch", "review", "upload"}
  /\ Check(r, Does(r, "patch") => IsAdmin(r) \/ OwnerOf[About(r)] = call[r].user,
           IF Does(r, "patch") /\ call[r].logo \in Uploads THEN "found" ELSE "checked")

\* findCompletedByUrl; a media_url is unique.
Confirmed(m, x, type) ==
  m \in DOMAIN media /\ media[m] \in [restaurant : {x}, by : Users, type : {type}, done : {TRUE}]

\* Mutant: the restaurant is not in the WHERE.
AssertAnyMediaUrl(r) ==
  /\ place[r] = "found" /\ Does(r, "patch")
  /\ Check(r, \E x \in Restaurants : Confirmed(call[r].logo, x, "logo"), "checked")

AssertCompletedMediaUrl(r) ==
  /\ place[r] = "found" /\ Does(r, "patch")
  /\ Check(r, Confirmed(call[r].logo, call[r].restaurant, "logo"), "checked")

\* confirmUpload up to its HEAD: what is completed is answered as it is.
FindMedia(r) ==
  LET m == call[r].upload
  IN /\ place[r] = "idle" /\ Does(r, "confirm")
     /\ Check(r, /\ m \in DOMAIN media /\ media[m].restaurant = call[r].restaurant
                 /\ IsAdmin(r) \/ media[m].by = call[r].user
                 /\ ~media[m].done,
              "found")

\* Mutant: the Content-Type is not compared.
HeadUntyped(r) ==
  LET m == call[r].upload
      good == object[m] # "nothing"
  IN /\ place[r] = "found" /\ Does(r, "confirm")
     /\ Goto(r, IF good THEN "checked" ELSE "over")
     /\ headed' = IF good THEN [headed EXCEPT ![r] = puts[m]] ELSE headed
     /\ UNCHANGED <<rows, s3, reviewer, kept, word>>

\* getObjectMetadata and the checks of its answer.
Head(r) ==
  LET m == call[r].upload
      good == object[m] = "image"
  IN /\ place[r] = "found" /\ Does(r, "confirm")
     /\ Goto(r, IF good THEN "checked" ELSE "over")
     /\ headed' = IF good THEN [headed EXCEPT ![r] = puts[m]] ELSE headed
     /\ UNCHANGED <<rows, s3, reviewer, kept, word>>

-----------------------------------------------------------------------------
(* The statements at the end.                                              *)

Ends(r, op) == place[r] = "checked" /\ Does(r, op) /\ Goto(r, "over")

\* On the owner's behalf, under a status that the request read before.
Keep(r, b, x) ==
  kept' = [kept EXCEPT ![b] = [by |-> r, status |-> status[x], reviewer |-> reviewer[x]]]

\* Mutant: the service leaves isActive to the repository, whose default is true.
InsertBranchShown(r) ==
  /\ Ends(r, "open")
  /\ \E b \in Branches \ DOMAIN branch :
       /\ branch' = [i \in DOMAIN branch \cup {b} |->
            IF i = b THEN [restaurant |-> About(r), active |-> TRUE, open |-> TRUE]
            ELSE branch[i]]
       /\ Keep(r, b, About(r))
  /\ UNCHANGED <<status, logo, media, s3, reviewer, word, headed>>

InsertBranch(r) ==
  /\ Ends(r, "open")
  /\ \E b \in Branches \ DOMAIN branch :
       /\ branch' = [i \in DOMAIN branch \cup {b} |->
            IF i = b THEN [restaurant |-> About(r), active |-> FALSE, open |-> TRUE]
            ELSE branch[i]]
       /\ Keep(r, b, About(r))
  /\ UNCHANGED <<status, logo, media, s3, reviewer, word, headed>>

\* A column that the body leaves out is not in the SET.
UpdateBranch(r) ==
  LET b == call[r].branch
  IN /\ Ends(r, "patchBranch")
     /\ branch' = IF call[r].open = Same THEN branch
                  ELSE [branch EXCEPT ![b].open = call[r].open]
     /\ Keep(r, b, About(r))
     /\ UNCHANGED <<status, logo, media, s3, reviewer, word, headed>>

UpdateBranchStatus(r) ==
  LET b == call[r].branch
  IN /\ Ends(r, "showBranch")
     /\ IF call[r].active = Same THEN UNCHANGED <<branch, word>>
        ELSE /\ branch' = [branch EXCEPT ![b].active = call[r].active]
             /\ word' = [word EXCEPT ![b] = call[r].active]
     /\ UNCHANGED <<status, logo, media, s3, reviewer, kept, headed>>

UpdateRestaurant(r) ==
  /\ Ends(r, "patch")
  /\ logo' = IF call[r].logo = Same THEN logo
             ELSE [logo EXCEPT ![call[r].restaurant] = call[r].logo]
  /\ UNCHANGED <<status, branch, media, s3, ghosts>>

UpdateRestaurantStatus(r) ==
  /\ Ends(r, "review")
  /\ status' = [status EXCEPT ![call[r].restaurant] = call[r].status]
  /\ reviewer' = [reviewer EXCEPT ![call[r].restaurant] = r]
  /\ UNCHANGED <<logo, branch, media, s3, kept, word, headed>>

\* The URL was made before the row, and nobody had it.
CreateMedia(r) ==
  /\ Ends(r, "upload")
  /\ \E m \in Uploads \ DOMAIN media :
       /\ media' = [i \in DOMAIN media \cup {m} |->
            IF i = m THEN [restaurant |-> call[r].restaurant, by |-> call[r].user,
                           type |-> call[r].type, done |-> FALSE]
            ELSE media[i]]
       /\ urls' = urls \cup {m}
  /\ UNCHANGED <<status, logo, branch, object, puts, ghosts>>

MarkCompleted(r) ==
  /\ Ends(r, "confirm")
  /\ media' = [media EXCEPT ![call[r].upload].done = TRUE]
  /\ UNCHANGED <<status, logo, branch, s3, ghosts>>

\* PostgreSQL or S3 fails, or the process dies.
Fail(r) == place[r] \in {"found", "checked"} /\ Check(r, FALSE, "over")

\* The client puts an object, as often as it likes while the URL is good.
Put(m, o) ==
  /\ m \in urls /\ puts[m] < MaxPuts
  /\ object' = [object EXCEPT ![m] = o]
  /\ puts' = [puts EXCEPT ![m] = @ + 1]
  /\ UNCHANGED <<rows, urls, place, call, before, ghosts>>

Expire(m) ==
  /\ m \in urls
  /\ urls' = urls \ {m}
  /\ UNCHANGED <<rows, object, puts, place, call, before, ghosts>>

ShopNext ==
  \/ \E r \in Requests :
       \/ FindBranch(r) \/ FindActiveRestaurant(r) \/ FindRestaurant(r)
       \/ AssertCompletedMediaUrl(r) \/ FindMedia(r) \/ Head(r)
       \/ InsertBranch(r) \/ UpdateBranch(r) \/ UpdateBranchStatus(r)
       \/ UpdateRestaurant(r) \/ UpdateRestaurantStatus(r)
       \/ CreateMedia(r) \/ MarkCompleted(r) \/ Fail(r)
  \/ \E m \in Uploads : (\E o \in Objects : Put(m, o)) \/ Expire(m)

ShopSpec == ShopInit /\ [][ShopNext]_shopVars
-----------------------------------------------------------------------------
(* Properties.                                                             *)

Overlapped(q, r) ==
  q \in Requests /\ r \in Requests /\ q \notin before[r] /\ r \notin before[q]

\* A branch is made, or opened for orders, in a restaurant that is not active
\* (findRestaurantById finds none) only by a request that overlapped the one
\* which set that status.
KeptWhileActive ==
  \A b \in Branches : kept[b].status # "active" => Overlapped(kept[b].reviewer, kept[b].by)

\* What /branches/nearby shows and /internal/branches tells the order service
\* about.
Visible(b) == branch[b].active /\ status[branch[b].restaurant] = "active"

\* A branch is visible only while the last word of an admin on it was yes:
\* neither its creation nor a PATCH of its owner, on whatever row that read,
\* shows or hides it ("Defaulting to false until the branch is fully set up").
VisibleByReview ==
  \A b \in DOMAIN branch : Visible(b) => word[b]

\* A restaurant's logo was confirmed, as a logo and for that restaurant ("The
\* media URL must reference completed media for this restaurant").
LogoWasConfirmed ==
  \A x \in Restaurants : logo[x] # Blank => Confirmed(logo[x], x, "logo")

\* Behind a completed upload is the announced image, unless the client put
\* another object after every HEAD that accepted it.
SwapNeedsLatePut ==
  \A m \in DOMAIN media : media[m].done /\ object[m] # "image" =>
    LET heads == {r \in Requests : Does(r, "confirm") /\ call[r].upload = m /\ headed[r] # 0}
    IN heads # {} /\ \A r \in heads : headed[r] < puts[m]
=============================================================================
