------------------------------ MODULE ImageStore ------------------------------
(***************************************************************************)
(* The picture of a person or a workspace: uploaded, replaced and served,  *)
(* and saved again with the rest of the row its address is in.             *)
(*   api/accounts/storage.py                                               *)
(*   api/accounts/api_user.py upload_avatar                                *)
(*   api/accounts/api_workspace.py upload_workspace_image                  *)
(*   api/accounts/api_identity.py create_workspace, join_workspace         *)
(*   api/accounts/api_auth.py google_complete, signup, verify_login_code   *)
(* An image is a row, with its bytes in it or in an object of the store.   *)
(***************************************************************************)
EXTENDS FiniteSets

CONSTANTS
  Images,      \* ids of images
  Savers,      \* calls that save the address of one
  OfPerson,    \* whose picture it is: a workspace's is only ever uploaded
  ObjectStore  \* ENABLE_S3

ASSUME ImageFlagsAssumption == OfPerson \in BOOLEAN /\ ObjectStore \in BOOLEAN

NoPicture == "no picture"  \* image_url is null
External == "external"     \* one elsewhere: parse_internal_file_id finds no id
NoImage == "no image"

ASSUME ImagesAssumption == Images \cap {NoPicture, External, NoImage} = {}

VARIABLES
  row,      \* ImageBlob.storage_backend
  object,   \* the objects in the store
  url,      \* image_url
  saver,    \* what each call has read and stored, and (history) the calls beside it
  spilled,  \* (history) images a failure of the store, or of the process, left something of
  restored  \* (history) images put back on display by a save of the whole row, read earlier

imageVars == <<row, object, url, saver, spilled, restored>>

NotSaving == [pc |-> "free", previous |-> NoPicture, stored |-> NoImage, beside |-> {}]

ImagesTypeOK ==
  /\ row \in [Images -> {"none", "db", "s3"}]
  /\ object \subseteq Images /\ spilled \subseteq Images /\ restored \subseteq Images
  /\ url \in Images \cup {NoPicture, External}
  /\ saver \in [Savers -> [pc : {"free", "put", "save", "fallback", "stored", "shown", "removing",
                                 "naming", "download", "signin", "over"},
                           previous : Images \cup {NoPicture, External}, stored : Images \cup {NoImage},
                           beside : SUBSET Savers]]

ImagesInit ==
  /\ url \in Images \cup {NoPicture, External}
  /\ row \in [Images -> {"none", "db", "s3"}] /\ \A i \in Images : row[i] # "none" <=> i = url
  /\ object = {i \in Images : row[i] = "s3"}
  /\ saver = [u \in Savers |-> NotSaving] /\ spilled = {} /\ restored = {}
-----------------------------------------------------------------------------
Saving(u) == saver[u].pc \notin {"free", "over"}

\* uuid4: nobody's yet
Fresh(i) ==
  /\ row[i] = "none" /\ i # url /\ i \notin object \cup spilled \cup restored
  /\ \A u \in Savers : i # saver[u].stored /\ i # saver[u].previous

Holds(u, stage, image) == saver' = [saver EXCEPT ![u].pc = stage, ![u].stored = image]
Goes(u, stage) == Holds(u, stage, saver[u].stored)

\* Every call begins with the row as it reads it
Start(u, stage) ==
  /\ saver[u].pc = "free"
  /\ saver' = [v \in Savers |->
       IF v = u THEN [pc |-> stage, previous |-> url, stored |-> NoImage, beside |-> {w \in Savers \ {u} : Saving(w)}]
       ELSE IF Saving(v) THEN [saver[v] EXCEPT !.beside = @ \cup {u}] ELSE saver[v]]
  /\ UNCHANGED <<row, object, url, spilled, restored>>

StartUpload(u) == Start(u, IF ObjectStore THEN "put" ELSE "fallback")

\* put_object; a store that fails leaves it to the database
PutObject(u, i) ==
  /\ saver[u].pc = "put" /\ Fresh(i)
  /\ \/ object' = object \cup {i} /\ Holds(u, "save", i)
     \/ UNCHANGED object /\ Goes(u, "fallback")
  /\ UNCHANGED <<row, url, spilled, restored>>

\* The row of an object; where it cannot be made, the database is tried again and the object forgotten
SaveRow(u) ==
  LET i == saver[u].stored
  IN  /\ saver[u].pc = "save"
      /\ \/ row' = [row EXCEPT ![i] = "s3"] /\ Goes(u, "stored") /\ UNCHANGED spilled
         \/ spilled' = spilled \cup {i} /\ Holds(u, "fallback", NoImage) /\ UNCHANGED row
      /\ UNCHANGED <<object, url, restored>>

\* DbImageStorageProvider.save, or an upload that fails
FallBack(u, i) ==
  /\ saver[u].pc = "fallback" /\ Fresh(i)
  /\ \/ row' = [row EXCEPT ![i] = "db"] /\ Holds(u, "stored", i)
     \/ UNCHANGED row /\ Goes(u, "over")
  /\ UNCHANGED <<object, url, spilled, restored>>

\* Mutant: what was shown before stays
ShowOnly(u) ==
  /\ saver[u].pc = "stored" /\ url' = saver[u].stored /\ Goes(u, "over")
  /\ UNCHANGED <<row, object, spilled, restored>>

\* save(update_fields=["image_url"])
ShowImage(u) ==
  /\ saver[u].pc = "stored" /\ url' = saver[u].stored /\ Goes(u, "shown")
  /\ UNCHANGED <<row, object, spilled, restored>>

\* Mutant: what is shown when the call gets to it, not what was read
CleanUpShown(u) ==
  /\ saver[u].pc \in {"stored", "shown"} /\ url \in Images
  /\ row' = [row EXCEPT ![url] = "none"] /\ object' = object \ {url} /\ Goes(u, "over")
  /\ UNCHANGED <<url, spilled, restored>>

\* cleanup_internal_image_url: the object goes before the row
CleanUp(u) ==
  LET i == saver[u].previous
      backend == IF i \in Images THEN row[i] ELSE "none"
  IN  /\ saver[u].pc = "shown"
      /\ \/ backend = "none" /\ Goes(u, "over") /\ UNCHANGED <<row, object, spilled>>
         \/ /\ backend = "db" /\ row' = [row EXCEPT ![i] = "none"]
            /\ Goes(u, "over") /\ UNCHANGED <<object, spilled>>
         \/ /\ backend = "s3" /\ object' = object \ {i}
            /\ Goes(u, "removing") /\ UNCHANGED <<row, spilled>>
         \/ \* an error of the store is logged and the row goes; any other one keeps it
            /\ backend = "s3" /\ row' \in {row, [row EXCEPT ![i] = "none"]}
            /\ spilled' = spilled \cup {i} /\ Goes(u, "over") /\ UNCHANGED object
      /\ UNCHANGED <<url, restored>>

RemoveRow(u) ==
  /\ saver[u].pc = "removing" /\ row' = [row EXCEPT ![saver[u].previous] = "none"] /\ Goes(u, "over")
  /\ UNCHANGED <<object, url, spilled, restored>>
-----------------------------------------------------------------------------
(* identity.save(): the whole row, with the picture it had when it was read *)

\* A person creates a workspace, joins one, or signs in with Google and has no name yet; or a sign-up
\* or a first login by code saves the password of the row it has just made
StartNaming(u) == OfPerson /\ Start(u, "naming")

SaveNamed(u) ==
  LET i == saver[u].previous
  IN  /\ saver[u].pc = "naming" /\ url' = i /\ Goes(u, "over")
      /\ restored' = IF i = url THEN restored ELSE restored \cup ({i} \cap Images)
      /\ UNCHANGED <<row, object, spilled>>

\* A person without a picture signs in with Google
StartSignIn(u) == OfPerson /\ url = NoPicture /\ Start(u, "download")

\* download_and_upload_profile_image: an object at once, a row with the transaction; or none of it
Download(u, i) ==
  /\ saver[u].pc = "download" /\ Fresh(i)
  /\ \/ ObjectStore /\ object' = object \cup {i} /\ Holds(u, "signin", i)
     \/ UNCHANGED object /\ \E image \in {i, NoImage} : Holds(u, "signin", image)
  /\ UNCHANGED <<row, url, spilled, restored>>

\* The transaction of google_complete; nothing is cleaned up after it
SignIn(u) ==
  LET i == saver[u].stored
  IN  /\ saver[u].pc = "signin"
      /\ IF i = NoImage THEN url' = External /\ UNCHANGED row
         ELSE url' = i /\ row' = [row EXCEPT ![i] = IF i \in object THEN "s3" ELSE "db"]
      /\ Goes(u, "over") /\ UNCHANGED <<object, spilled, restored>>
-----------------------------------------------------------------------------
\* What a call would leave if it went no further
Leaves(u) ==
  CASE saver[u].pc \in {"save", "stored"} -> {saver[u].stored}
    [] saver[u].pc = "signin" -> {saver[u].stored} \cap object
    [] saver[u].pc \in {"shown", "removing"} -> {saver[u].previous} \cap Images
    [] OTHER -> {}

\* The process dies, or the transaction is undone
SaverDies(u) ==
  /\ Saving(u) /\ spilled' = spilled \cup Leaves(u) /\ Goes(u, "over")
  /\ UNCHANGED <<row, object, url, restored>>

ImagesNext ==
  \E u \in Savers :
    \/ StartUpload(u) \/ SaveRow(u) \/ ShowImage(u) \/ CleanUp(u) \/ RemoveRow(u)
    \/ StartNaming(u) \/ SaveNamed(u) \/ StartSignIn(u) \/ SignIn(u) \/ SaverDies(u)
    \/ \E i \in Images : PutObject(u, i) \/ FallBack(u, i) \/ Download(u, i)

ImagesSpec == ImagesInit /\ [][ImagesNext]_imageVars
-----------------------------------------------------------------------------
(* What may be expected of it *)

Served(i) == row[i] # "none" /\ (row[i] = "s3" => i \in object)

\* The picture that is shown can be served: its row is there, and so is its object.  It cannot
\* when a save of the whole row of a person, read before the picture was replaced, has put its
\* address back.
ShownIsServed == url \in Images => Served(url) \/ (OfPerson /\ url \in restored)

\* An image that nobody shows is gone, unless a failure left it there, a call is about to show
\* or to remove it, or a call ran beside the one that stored it: each removes what it has read,
\* none what came in between.
LeftForCause ==
  \A i \in Images : (row[i] # "none" \/ i \in object) /\ i # url =>
    \/ i \in spilled
    \/ \E u \in Savers :
         \/ saver[u].stored = i /\ (saver[u].pc \in {"save", "stored", "signin"} \/ saver[u].beside # {})
         \/ saver[u].previous = i /\ saver[u].pc \in {"shown", "removing"}
=============================================================================
