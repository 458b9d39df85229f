------------------------------ MODULE Gallery ------------------------------
(* Properties, their units and their pictures: properties/services.py,     *)
(* properties/images.py, storage/, with their pages and routes.            *)
(*                                                                         *)
(* A picture is a row and two files, the picture and its thumbnail.  The   *)
(* files are written before the row is committed and removed before the    *)
(* row is; a request may end between any two of these.                     *)
(*                                                                         *)
(* Left out: one organization, what the rows describe (names, addresses,   *)
(* equipment), what is done to the bytes of a picture, and the store's     *)
(* URLs.  Numbers of rows are given once.                                  *)
EXTENDS Integers, FiniteSets, SequencesExt

CONSTANTS
  Properties,
  Units,
  Pictures,     \* numbers of pictures
  Workers

GalleryAssumption == IsFiniteSet(Pictures)

VARIABLES
  property,     \* the properties there are
  unit,         \* the units: their property and the picture of their floor plan
  picture,      \* the rows of pictures: their property and sort_order
  files,        \* the files in the store
  used,         \* numbers that have been given
  dropping,     \* pictures whose removal has begun
  req           \* what each worker is doing

vars == <<property, unit, picture, files, used, dropping, req>>
gallery == <<picture, files, used, dropping, req>>

NoPicture == "none"
NoRow == [of |-> "none"]
Sizes == {"full", "thumb"}
Orders == 1 .. Cardinality(Pictures) + 1
PictureRow == [of : Properties, order : Orders]
UnitRow == [of : Properties, plan : Pictures \cup {NoPicture}]
Has(table, x) == table[x] # NoRow
Idle == [op |-> "idle"]

Init ==
  /\ property = {} /\ unit = [u \in Units |-> NoRow]
  /\ picture = [i \in Pictures |-> NoRow] /\ files = {} /\ used = {}
  /\ dropping = {} /\ req = [w \in Workers |-> Idle]

-----------------------------------------------------------------------------
(* create_property, create_unit, update_unit.  The floor plan may be any   *)
(* picture there is.                                                       *)
CreateProperty(p) ==
  /\ property' = property \cup {p}
  /\ UNCHANGED <<unit, gallery>>

SaveUnit(u, p, plan) ==
  /\ p \in property /\ (Has(unit, u) => unit[u].of = p)
  /\ plan = NoPicture \/ (plan \in Pictures /\ Has(picture, plan))
  /\ unit' = [unit EXCEPT ![u] = [of |-> p, plan |-> plan]]
  /\ UNCHANGED <<property, gallery>>

-----------------------------------------------------------------------------
(* list_property_images: by sort_order, then by number; the model gives    *)
(* numbers no order, which matters only where two orders are equal.        *)
Of(p) == {i \in Pictures : Has(picture, i) /\ picture[i].of = p}
Listings(p) ==
  {list \in TupleOf(Of(p), Cardinality(Of(p))) :
     /\ IsInjective(list)
     /\ \A m, n \in DOMAIN list :
          m < n => picture[list[m]].order <= picture[list[n]].order}

(* upload_property_image: max(sort_order), or 0, and one more.             *)
NextOrder(p) == 1 + Max({0} \cup {picture[i].order : i \in Of(p)})

Upload(w, i, p) ==
  /\ req[w] = Idle /\ p \in property /\ i \notin used
  /\ NextOrder(p) \in Orders
  /\ used' = used \cup {i}
  /\ req' = [req EXCEPT ![w] =
       [op |-> "upload", pic |-> i, left |-> <<"full", "thumb">>,
        row |-> [of |-> p, order |-> NextOrder(p)]]]
  /\ UNCHANGED <<property, unit, picture, files, dropping>>

Store(w) ==
  /\ req[w].op = "upload" /\ req[w].left # <<>>
  /\ files' = files \cup {<<req[w].pic, Head(req[w].left)>>}
  /\ req' = [req EXCEPT ![w].left = Tail(@)]
  /\ UNCHANGED <<property, unit, picture, used, dropping>>

(* Seeded fault: the row is committed whatever became of the files.        *)
SaveRowAnyway(w) ==
  /\ req[w].op = "upload"
  /\ picture' = [picture EXCEPT ![req[w].pic] = req[w].row]
  /\ req' = [req EXCEPT ![w] = Idle]
  /\ UNCHANGED <<property, unit, files, used, dropping>>

SaveRow(w) ==
  /\ req[w].op = "upload" /\ req[w].left = <<>>
  /\ picture' = [picture EXCEPT ![req[w].pic] = req[w].row]
  /\ req' = [req EXCEPT ![w] = Idle]
  /\ UNCHANGED <<property, unit, files, used, dropping>>

(* delete_property_image.                                                  *)
Delete(w, i) ==
  /\ req[w] = Idle /\ Has(picture, i)
  /\ dropping' = dropping \cup {i}
  /\ req' = [req EXCEPT ![w] = [op |-> "delete", pic |-> i,
                                left |-> <<"full", "thumb">>]]
  /\ UNCHANGED <<property, unit, picture, files, used>>

Unlink(w) ==
  /\ req[w].op = "delete" /\ req[w].left # <<>>
  /\ files' = files \ {<<req[w].pic, Head(req[w].left)>>}
  /\ req' = [req EXCEPT ![w].left = Tail(@)]
  /\ UNCHANGED <<property, unit, picture, used, dropping>>

(* A floor plan that shows the picture is emptied (ON DELETE SET NULL).    *)
DropRow(w) ==
  /\ req[w].op = "delete" /\ req[w].left = <<>>
  /\ picture' = [picture EXCEPT ![req[w].pic] = NoRow]
  /\ unit' = [u \in Units |->
       IF Has(unit, u) /\ unit[u].plan = req[w].pic
       THEN [unit[u] EXCEPT !.plan = NoPicture] ELSE unit[u]]
  /\ req' = [req EXCEPT ![w] = Idle]
  /\ UNCHANGED <<property, files, used, dropping>>

(* The store raises, or the worker dies.                                   *)
Stop(w) ==
  /\ req[w] # Idle
  /\ req' = [req EXCEPT ![w] = Idle]
  /\ UNCHANGED <<property, unit, picture, files, used, dropping>>

-----------------------------------------------------------------------------
(* reorder_property_images: the numbers must be those of the property's    *)
(* pictures; each gets the last place it is named in.                      *)
Place(list, i) == CHOOSE k \in DOMAIN list :
                    list[k] = i /\ \A n \in DOMAIN list : list[n] = i => n <= k

Reorder(p, list) ==
  /\ p \in property /\ ToSet(list) = Of(p)
  /\ picture' = [i \in Pictures |->
       IF i \in Of(p) THEN [picture[i] EXCEPT !.order = Place(list, i)]
       ELSE picture[i]]
  /\ UNCHANGED <<property, unit, files, used, dropping, req>>

(* set_cover_image, move_property_image.                                   *)
ToFront(list, n) ==
  [k \in DOMAIN list |-> IF k = 1 THEN list[n]
                         ELSE IF k <= n THEN list[k - 1] ELSE list[k]]

SetCover(p, i) ==
  \E list \in Listings(p) : \E n \in DOMAIN list :
    list[n] = i /\ Reorder(p, ToFront(list, n))

Swapped(list, k) == [list EXCEPT ![k] = list[k + 1], ![k + 1] = list[k]]

MoveUp(p, i) ==
  \E list \in Listings(p) : \E k \in 1 .. Len(list) - 1 :
    list[k + 1] = i /\ Reorder(p, Swapped(list, k))

MoveDown(p, i) ==
  \E list \in Listings(p) : \E k \in 1 .. Len(list) - 1 :
    list[k] = i /\ Reorder(p, Swapped(list, k))

-----------------------------------------------------------------------------
(* The pages, and the routes of the API.                                   *)
NewPropertyPage == \E p \in Properties : CreateProperty(p)
UnitForms ==
  \E u \in Units, p \in Properties, plan \in Pictures \cup {NoPicture} :
    SaveUnit(u, p, plan)

GalleryPages ==
  \/ \E w \in Workers, i \in Pictures :
       Delete(w, i) \/ \E p \in Properties : Upload(w, i, p)
  \/ \E p \in Properties, i \in Pictures :
       SetCover(p, i) \/ MoveUp(p, i) \/ MoveDown(p, i)
  \/ \E p \in Properties :
       \E list \in TupleOf(Of(p), Cardinality(Of(p))) : list # <<>> /\ Reorder(p, list)

PropertyApi ==
  \/ NewPropertyPage
  \/ \E u \in Units, p \in Properties : ~Has(unit, u) /\ SaveUnit(u, p, NoPicture)

Next ==
  \/ NewPropertyPage \/ UnitForms \/ GalleryPages \/ PropertyApi
  \/ \E w \in Workers : Store(w) \/ SaveRow(w) \/ Unlink(w) \/ DropRow(w) \/ Stop(w)

Spec == Init /\ [][Next]_vars

-----------------------------------------------------------------------------
GalleryTypeOK ==
  /\ property \subseteq Properties
  /\ unit \in [Units -> UnitRow \cup {NoRow}]
  /\ picture \in [Pictures -> PictureRow \cup {NoRow}]
  /\ files \subseteq Pictures \X Sizes
  /\ used \subseteq Pictures /\ dropping \subseteq Pictures
  /\ \A w \in Workers : req[w].op \in {"idle", "upload", "delete"}

(* What a page shows is there: a picture's row has both its files unless   *)
(* its removal was begun, a floor plan is a picture that exists            *)
(* (upload_property_image and delete_property_image, which a failure of    *)
(* the store or of the worker may cut anywhere).                           *)
ShownIsThere ==
  /\ \A i \in Pictures : Has(picture, i) /\ i \notin dropping => {i} \X Sizes \subseteq files
  /\ \A u \in Units : Has(unit, u) /\ unit[u].plan # NoPicture => Has(picture, unit[u].plan)
=============================================================================
