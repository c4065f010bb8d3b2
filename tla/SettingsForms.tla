----------------------------- MODULE SettingsForms -----------------------------
(***************************************************************************)
(* The settings of a tenant: the rows of the server (SettingsService), the *)
(* copy every page of the web client shares (SettingsProvider), and the    *)
(* form of the page that is open.  A save shows what it sends at once and  *)
(* takes it back when the server refuses.                                  *)
(* A section has a plain part, the fields of its form, and some have a     *)
(* part that behaves otherwise: the rows of custom allowances, deductions  *)
(* and shifts, which the pages change where they are, and the key of the   *)
(* payment gateway, which the server shows masked.                         *)
(* The notification settings, which their page loads and saves on its own, *)
(* are in NotificationForms.  Left out: pages used although nothing could  *)
(* be loaded.                                                              *)
(***************************************************************************)
EXTENDS RequestHandling

VARIABLES
    inUse,     \* the sections that somebody works on (a bound: two, or one if requests overlap)
    longKey,  \* is a key of the gateway long enough for its mask to have three stars?
    stored,   \* the section's row on the server, or Absent
    provided, \* settings of the provider, or Unloaded
    loading,  \* the answer to a load that is under way, or Unloaded
    page,     \* the section whose page is open, or "none"
    form,     \* what the page's form says
    dirty,    \* isDirty of the page
    saving,   \* the request that the page waits for, or "none"
    save      \* what each request carries

formVars == <<inUse, longKey, stored, provided, loading, page, form, dirty, saving, save>>

Section == {"company", "payroll", "attendance", "security", "integrations"}

\* A row that does not exist, and the settings of a client that has none.
Absent   == [plain |-> 0, special |-> "absent"]
Unloaded == <<>>

\* A gateway's keys, what the server shows for them, and a mask that somebody has typed in.
Keys  == {"key1", "key2"}
Masks == {"mask1", "mask2", "typedMask"}

MaskOf(key) == IF key = "key1" THEN "mask1" ELSE "mask2"

\* What the part that behaves otherwise can be.
Special(s) ==
    CASE s \in {"payroll", "attendance"} -> {"rows1", "rows2"}
      [] s = "integrations"              -> Keys \cup Masks \cup {"noKey"}
      [] OTHER                           -> {"nothing"}

Contents(s) == [plain : {1, 2}, special : Special(s)]
Anything == UNION {Contents(s) : s \in Section}

EmptyForm == [plain |-> 1, special |-> "nothing"]
NoSave == [at |-> "idle", section |-> "none", data |-> EmptyForm, previous |-> Unloaded,
           heard |-> FALSE]

\* What a client has of every section in use.
Settings(all) == all \in [inUse -> Anything] /\ \A s \in inUse : all[s] \in Contents(s)

Saves == [at : {"idle", "sent", "written", "refused", "ended"}, section : Section \cup {"none"},
          data : Anything, previous : {Unloaded} \cup [inUse -> Anything], heard : BOOLEAN]

FormTypeOK ==
    /\ inUse \subseteq Section /\ longKey \in BOOLEAN
    /\ stored \in [inUse -> Anything \cup {Absent}]
    /\ \A s \in inUse : stored[s] \in Contents(s) \cup {Absent}
    /\ provided = Unloaded \/ Settings(provided)
    /\ loading = Unloaded \/ Settings(loading)
    /\ page \in inUse \cup {"none"} /\ form \in Anything /\ dirty \in BOOLEAN
    /\ saving \in Handler \cup {"none"}
    /\ save \in [Handler -> Saves]
    /\ \A h \in Handler :
        /\ save[h].at \in {"sent", "written", "refused"} =>
            save[h].section \in inUse /\ save[h].data \in Contents(save[h].section)
        /\ save[h].previous = Unloaded \/ Settings(save[h].previous)
        /\ save[h].heard => save[h].previous # Unloaded
    /\ page # "none" => provided # Unloaded /\ form \in Contents(page)

\* In a history in which requests overlap, each handler serves one save (a bound).
FormEnded == [NoSave EXCEPT !.at = IF calm THEN "idle" ELSE "ended"]

\* getDefaultPayrollConfig and the other defaults; a tenant has a key, or none yet.
Default(s) ==
    [plain   |-> 1,
     special |-> CASE s \in {"payroll", "attendance"} -> "rows1"
                   [] s = "integrations"              -> "noKey"
                   [] OTHER                           -> "nothing"]

\* The company's data is in the row of the tenant itself, which always exists.
FormInit ==
    /\ IF calm THEN inUse \in SUBSET Section /\ Cardinality(inUse) = 2
               ELSE inUse = {"integrations"}
    /\ longKey \in BOOLEAN /\ (~calm => longKey)
    /\ stored \in {[s \in inUse |->
                        IF s = "company" THEN Default(s)
                        ELSE IF s = "integrations" /\ keyed
                             THEN [plain |-> 1, special |-> "key1"]
                             ELSE Absent] : keyed \in BOOLEAN}
    /\ provided = Unloaded /\ loading = Unloaded
    /\ page = "none" /\ form = EmptyForm /\ dirty = FALSE
    /\ saving = "none" /\ save = [h \in Handler |-> NoSave]

SaveSteps == [h \in Handler |-> save[h].at]
Quiet == \A h \in Handler : save[h].at = "idle"

\* The effect of the page: as long as it is clean, its form is what the provider has.
Refill(all) ==
    form' = IF page # "none" /\ ~dirty' THEN all[page] ELSE form

-----------------------------------------------------------------------------
(***************************************************************************)
(* SettingsService.                                                        *)
(***************************************************************************)

\* Mutant: defaults are shown without being stored.
PhantomSettings ==
    /\ provided = Unloaded /\ loading = Unloaded
    /\ loading' = [s \in inUse |-> IF stored[s] = Absent THEN Default(s) ELSE stored[s]]
    /\ UNCHANGED <<inUse, longKey, stored, provided, page, form, dirty, saving, save, calm>>

\* getSettings: rows that do not exist are created, and the key is masked.
GetSettings ==
    /\ provided = Unloaded /\ loading = Unloaded
    /\ stored' = [s \in inUse |-> IF stored[s] = Absent THEN Default(s) ELSE stored[s]]
    /\ loading' = [s \in inUse |-> IF stored'[s].special \in Keys
                                  THEN [stored'[s] EXCEPT !.special = MaskOf(@)]
                                  ELSE stored'[s]]
    /\ UNCHANGED <<inUse, longKey, provided, page, form, dirty, saving, save, calm>>

\* What a section becomes: a key that contains three stars is left out.
Updated(s, old, data) ==
    IF s = "integrations" /\ data.special \in (IF longKey THEN Masks ELSE {"typedMask"})
    THEN [data EXCEPT !.special = old.special]
    ELSE data

\* updateSettings.
UpdateSettings(h) ==
    /\ save[h].at = "sent"
    /\ LET s == save[h].section
       IN  stored' = [stored EXCEPT ![s] = Updated(s, @, save[h].data)]
    /\ save' = [save EXCEPT ![h].at = "written"]
    /\ UNCHANGED <<inUse, longKey, provided, loading, page, form, dirty, saving, calm>>

\* The server refuses: a permission, the tax number, a value the database does not take.
RefuseSettings(h) ==
    /\ save[h].at = "sent"
    /\ save' = [save EXCEPT ![h].at = "refused"]
    /\ UNCHANGED <<inUse, longKey, stored, provided, loading, page, form, dirty, saving, calm>>

\* Another client saves, while none of this one's saves is under way (a bound).
OtherClient(s) ==
    /\ ~calm /\ stored[s] # Absent
    /\ \A h \in Handler : save[h].at \in {"idle", "ended"}
    /\ stored' = [stored EXCEPT ![s].plain = 3 - @]
    /\ UNCHANGED <<inUse, longKey, provided, loading, page, form, dirty, saving, save, calm>>

-----------------------------------------------------------------------------
(***************************************************************************)
(* SettingsProvider.                                                       *)
(***************************************************************************)

\* fetchSettings ends.
Loaded ==
    /\ loading # Unloaded
    /\ provided' = loading /\ loading' = Unloaded
    /\ UNCHANGED <<inUse, longKey, stored, page, form, dirty, saving, save, calm>>

\* The page of a section is opened, by a link or with the browser's buttons; the page
\* that was open is gone with what its form said.
OpenPage(s) ==
    /\ provided # Unloaded /\ page # s
    /\ calm => Quiet
    /\ page' = s /\ form' = provided[s] /\ dirty' = FALSE /\ saving' = "none"
    /\ UNCHANGED <<inUse, longKey, stored, provided, loading, save, calm>>

\* useUnsavedChanges lets somebody leave a page with unsaved changes by loading the
\* document anew: the provider starts again, and nobody hears the answers to come.
LoadAnew ==
    /\ page # "none"
    /\ calm => Quiet
    /\ page' = "none" /\ form' = EmptyForm /\ dirty' = FALSE /\ saving' = "none"
    /\ provided' = Unloaded /\ loading' = Unloaded
    /\ save' = [h \in Handler |-> [save[h] EXCEPT !.heard = FALSE, !.previous = Unloaded]]
    /\ UNCHANGED <<inUse, longKey, stored, calm>>

\* updateSettings of the provider: what is sent is shown at once, and what was shown
\* before is kept.
UpdateShown(h) ==
    /\ dirty /\ saving = "none"
    /\ MayTake(h, SaveSteps)
    /\ save' = [save EXCEPT ![h] = [at |-> "sent", section |-> page, data |-> form,
                                    previous |-> provided, heard |-> TRUE]]
    /\ provided' = [provided EXCEPT ![page] = form]
    /\ saving' = h
    /\ UNCHANGED <<inUse, longKey, stored, loading, page, form, dirty, calm>>

\* The answer arrives: the page that waits for it is clean, whatever has been typed since.
Saved(h) ==
    /\ save[h].at = "written"
    /\ save' = [save EXCEPT ![h] = FormEnded]
    /\ dirty' = (dirty /\ saving # h)
    /\ saving' = IF saving = h THEN "none" ELSE saving
    /\ Refill(provided)
    /\ UNCHANGED <<inUse, longKey, stored, provided, loading, page, calm>>

\* It was refused, or it is not known what became of it: all sections are shown as they
\* were before the save.
TakenBack(h) ==
    /\ save[h].at = "refused" \/ (MayBreak(h, SaveSteps) /\ save[h].at # "ended")
    /\ save' = [save EXCEPT ![h] = FormEnded]
    /\ saving' = IF saving = h THEN "none" ELSE saving
    /\ provided' = IF save[h].heard THEN save[h].previous ELSE provided
    /\ dirty' = dirty
    /\ Refill(provided')
    /\ UNCHANGED <<inUse, longKey, stored, loading, page, calm>>

-----------------------------------------------------------------------------
(***************************************************************************)
(* The pages.                                                              *)
(***************************************************************************)

\* Fields stay open while a save is under way.
MayEdit(s) == page = s /\ (calm => saving = "none")

\* The form has a new value of a field, and is dirty.
EditPlain ==
    /\ form' = [form EXCEPT !.plain = 3 - @]
    /\ dirty' = TRUE
    /\ UNCHANGED <<inUse, longKey, stored, provided, loading, page, saving, save, calm>>

\* A row is the same object in the form, in the provider and in what is kept for a save
\* that fails, and changes in all of them.  A list that was edited has no row changed in
\* place (a bound).
RowsIn(all, s, rows) == IF all = Unloaded THEN all ELSE [all EXCEPT ![s].special = rows]

EditRowInPlace ==
    LET rows == IF form.special = "rows1" THEN "rows2" ELSE "rows1"
    IN  /\ form.special = provided[page].special
        /\ form' = [form EXCEPT !.special = rows]
        /\ dirty' = TRUE
        /\ provided' = RowsIn(provided, page, rows)
        /\ save' = [h \in Handler |-> [save[h] EXCEPT !.previous = RowsIn(@, page, rows)]]
        /\ UNCHANGED <<inUse, longKey, stored, loading, page, saving, calm>>

\* Rows are added or removed in a list of the form's own.
EditRowList ==
    /\ form' = [form EXCEPT !.special = IF @ = "rows1" THEN "rows2" ELSE "rows1"]
    /\ dirty' = TRUE
    /\ UNCHANGED <<inUse, longKey, stored, provided, loading, page, saving, save, calm>>

EditKey(key) ==
    /\ form' = [form EXCEPT !.special = key]
    /\ dirty' = TRUE
    /\ UNCHANGED <<inUse, longKey, stored, provided, loading, page, saving, save, calm>>

CompanyEdit     == MayEdit("company") /\ EditPlain
SecurityEdit    == MayEdit("security") /\ EditPlain
PayrollEdit     == MayEdit("payroll") /\ EditPlain
PayslipEdit     == MayEdit("payroll") /\ EditPlain
AllowanceEdit   == MayEdit("payroll") /\ (EditRowInPlace \/ EditRowList)
AttendanceEdit  == MayEdit("attendance") /\ EditPlain
ShiftEdit       == MayEdit("attendance") /\ (EditRowInPlace \/ EditRowList)
IntegrationEdit ==
    /\ MayEdit("integrations")
    /\ EditPlain \/ \E key \in {"key2", "typedMask", "noKey"} : EditKey(key)

\* Cancel: the form is what the provider has.
Cancel ==
    /\ dirty /\ saving = "none"
    /\ form' = provided[page] /\ dirty' = FALSE
    /\ UNCHANGED <<inUse, longKey, stored, provided, loading, page, saving, save, calm>>

-----------------------------------------------------------------------------
FormNext ==
    \/ GetSettings \/ Loaded \/ LoadAnew \/ Cancel
    \/ \E s \in inUse : OpenPage(s) \/ OtherClient(s)
    \/ CompanyEdit \/ SecurityEdit \/ PayrollEdit \/ PayslipEdit \/ AllowanceEdit
    \/ AttendanceEdit \/ ShiftEdit \/ IntegrationEdit
    \/ \E h \in Handler :
        UpdateShown(h) \/ UpdateSettings(h) \/ RefuseSettings(h) \/ Saved(h) \/ TakenBack(h)

FormSpec == CalmInit /\ FormInit /\ [][FormNext]_<<formVars, calm>>

-----------------------------------------------------------------------------
(***************************************************************************)
(* Properties.                                                             *)
(***************************************************************************)

\* What the server shows in place of a key never becomes the key, if keys are long.
KeyKept ==
    longKey /\ "integrations" \in inUse /\ stored["integrations"] # Absent =>
        stored["integrations"].special \notin Masks

\* Nothing is shown that is not stored: defaults are stored when they are first shown.
ShownExists == provided # Unloaded => \A s \in inUse : stored[s] # Absent

\* Where requests do not overlap and nobody else saves, between saves the client shows
\* every section's fields as they are stored, refusals or not; of the key, the key
\* itself or a mask; and a clean form says the same.  Rows that were changed in place
\* are not taken back, neither by Cancel nor by a refusal, and are not part of this.
ShownIsStored ==
    calm /\ Quiet /\ provided # Unloaded =>
        /\ \A s \in inUse :
            /\ provided[s].plain = stored[s].plain
            /\ s = "integrations" => provided[s].special \in {stored[s].special} \cup Masks
        /\ page # "none" /\ ~dirty => form = provided[page]

FormsSound == KeyKept /\ ShownExists /\ ShownIsStored

=============================================================================
