---------------------------- MODULE ViewerScene -----------------------------
(***************************************************************************)
(* The graphics scene of the document viewer                               *)
(* (scribo/demo/viewer/viewer.cc and image_scene.cc): the items shown, and  *)
(* the pointers that the window keeps to some of them.                     *)
(*                                                                         *)
(* One item of each kind stands for all of them: "image" (image_), "text"   *)
(* (text_vector_), "picture" (image_vector_), "region" and "line".  A scene *)
(* owns its items: clear() deletes them, removeItem() gives them back.      *)
(*   items       what scene_ holds                                         *)
(*   held        the kinds that image_ and the two vectors point to         *)
(*   dangling    the pointers to a deleted item                            *)
(*   selected    selected_ of the scene                                    *)
(*   text, use_image, extended, base64   the options of the window         *)
(*   cursor      the override cursors pushed and not restored              *)
(*   layout      the kinds described by the XML file last read (history)    *)
(*   failed      a file without a page was read (history)                  *)
(***************************************************************************)
EXTENDS Naturals

Null == "null"
Region == {"region", "line"}

\* extended_action->setChecked(true) ends the construction of the window.
EmptyScene ==
    [items |-> {}, held |-> {}, dangling |-> {}, selected |-> Null,
     text |-> TRUE, use_image |-> TRUE, extended |-> TRUE, base64 |-> FALSE,
     cursor |-> 0, layout |-> {}, failed |-> FALSE]

-----------------------------------------------------------------------------

PushCursor(sc) == [sc EXCEPT !.cursor = @ + 1]

\* restoreOverrideCursor() does nothing on an empty stack.
RestoreCursor(sc) == [sc EXCEPT !.cursor = IF @ = 0 THEN 0 ELSE @ - 1]

\* ImageScene::clear(): no selection, and every item of the scene is deleted.
ClearScene(sc) ==
    [sc EXCEPT !.selected = Null, !.items = {}, !.dangling = @ \cup (sc.held \cap sc.items)]

\* The pointers of kinds are given up, whatever they point to.
Forget(sc, kinds) ==
    [sc EXCEPT !.held = @ \ kinds, !.dangling = @ \ kinds]

\* Mutant: the image is left in the scene that is about to be cleared.
TakeImageOutNot(sc) == sc

\* The image is taken out of the scene, if it is there.
TakeImageOut(sc) == [sc EXCEPT !.items = @ \ {"image"}]

\* add_region(): regions are always added.
AddRegion(sc, layout) == [sc EXCEPT !.items = @ \cup (layout \cap {"region"})]

\* The region of a text line and its typographic lines, in extended mode only.
AddLine(sc, layout) ==
    [sc EXCEPT !.items = @ \cup (IF sc.extended THEN layout \cap {"line"} ELSE {})]

\* A picture comes with a container, and is added if the option says so.
AddPicture(sc, layout) ==
    LET pictures == IF sc.base64 THEN layout \cap {"picture"} ELSE {} IN
    [sc EXCEPT !.held = @ \cup pictures,
               !.items = @ \cup (IF sc.use_image THEN pictures ELSE {})]

\* add_text(): a text is added, then taken out if the option says so.
AddText(sc, layout) ==
    [sc EXCEPT !.held = @ \cup (layout \cap {"text"}),
               !.items = @ \cup (IF sc.text THEN layout \cap {"text"} ELSE {})]

\* The regions of the page, one after the other.
AddLayout(sc, layout) ==
    AddText(AddLine(AddPicture(AddRegion(sc, layout), layout), layout), layout)

\* Mutant: the cursor is not restored.
ReadPageOnly(sc, layout) == AddLayout(sc, layout)

\* The rest of load_xml(), for a file with a page.
ReadPage(sc, layout) == RestoreCursor(AddLayout(sc, layout))

\* load_xml(): layout is what the file describes, nothing when it has no page;
\* the cursor is then left as it is.
LoadXml(sc, layout) ==
    LET cleared == ClearScene(Forget(TakeImageOut(PushCursor(sc)), {"text", "picture"}))
        shown == IF ~cleared.base64 /\ cleared.use_image
                 THEN [cleared EXCEPT !.items = @ \cup (cleared.held \cap {"image"})]
                 ELSE cleared
        noted == [shown EXCEPT !.layout = layout, !.failed = @ \/ layout = {}]
    IN IF layout = {} THEN noted ELSE ReadPage(noted, layout)

\* load(): the scene is cleared first, then the pointers to what it held.
LoadImage(sc) ==
    LET cleared == Forget(ClearScene(PushCursor(sc)), {"text", "picture", "image"})
        added == [cleared EXCEPT !.held = {"image"}, !.layout = {},
                                 !.items = IF sc.use_image THEN {"image"} ELSE {}]
    IN RestoreCursor(RestoreCursor(added))

-----------------------------------------------------------------------------

\* change_base()
ChangeBase(sc, b) == [sc EXCEPT !.base64 = b]

\* useText(): the texts of the vector leave the scene or come back.
UseText(sc, b) ==
    [sc EXCEPT !.text = b,
               !.items = IF b THEN @ \cup (sc.held \cap {"text"}) ELSE @ \ {"text"}]

\* Mutant: only the image of the page is hidden.
UseImageOnly(sc, b) ==
    [sc EXCEPT !.use_image = b,
               !.items = IF b THEN @ \cup (sc.held \cap {"image", "picture"})
                         ELSE @ \ {"image"}]

\* useImage(): the image of the page and the pictures of a container; the
\* image comes in whether or not a container is shown.
UseImage(sc, b) ==
    [sc EXCEPT !.use_image = b,
               !.items = IF b THEN @ \cup (sc.held \cap {"image", "picture"})
                         ELSE @ \ {"image", "picture"}]

\* useExtended(): the file that is shown, if any, is read again.
UseExtended(sc, b, any, layout) ==
    LET set == [sc EXCEPT !.extended = b]
    IN IF any THEN LoadXml(set, layout) ELSE set

\* mousePressEvent(): the region under the pointer, or none.
Select(sc, target) == [sc EXCEPT !.selected = target]
=============================================================================
