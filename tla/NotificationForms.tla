--------------------------- MODULE NotificationForms ---------------------------
(***************************************************************************)
(* The page of the notification settings.  It loads and saves on its own,  *)
(* beside the provider of the other settings: the defaults of the company, *)
(* which need a permission to be changed, and the preferences of the user  *)
(* are two forms behind two tabs, with one mark for unsaved changes and    *)
(* one button that saves the form in front.                                *)
(* A form is abstracted to what it says as a whole.                        *)
(***************************************************************************)
EXTENDS RequestHandling

VARIABLES
    mayManage,    \* may the user change the company's defaults?
    alertRows,    \* notification_configs and user_notification_preferences
    alertPage,    \* the page is away, has asked for the rows, they were read, or it is open
    brought,      \* the rows that were read
    alertTab,     \* activeTab
    alertForms,   \* companyForm and personalForm
    alertsDirty,  \* isDirty
    alertsSaving, \* the request that the page waits for, or "none"
    patch,        \* what each request carries
    loadedWell,   \* history: are the forms from the server, or the client's own?
    touched,      \* history: the forms with changes that are not saved
    crossed       \* history: was one changed or saved over changes of the other?

alertVars == <<mayManage, alertRows, alertPage, brought, alertTab, alertForms, alertsDirty,
               alertsSaving, patch, loadedWell, touched, crossed>>

Tab == {"company", "personal"}
Saying == {"first", "second"}

\* Preferences that nobody has saved name no quiet hours; the form fills some in.
AsShown(said) == IF said = "bare" THEN "first" ELSE said
DefaultAlerts == [t \in Tab |-> IF t = "personal" THEN "bare" ELSE "first"]

\* What the forms say before anything was loaded.
ClientDefaults == [t \in Tab |-> "first"]

NoPatch == [at |-> "idle", tab |-> "company", says |-> "first"]
PatchSteps == [h \in Handler |-> patch[h].at]
PatchesRest == \A h \in Handler : patch[h].at \in {"idle", "ended"}

\* In a history in which requests overlap, each handler serves one save (a bound).
PatchEnded == [NoPatch EXCEPT !.at = IF calm THEN "idle" ELSE "ended"]

AlertsTypeOK ==
    /\ mayManage \in BOOLEAN
    /\ alertRows \in [Tab -> Saying \cup {"absent", "bare"}]
    /\ alertPage \in {"away", "asked", "read", "open"}
    /\ brought \in [Tab -> Saying \cup {"bare"}]
    /\ alertTab \in Tab /\ alertForms \in [Tab -> Saying]
    /\ alertsDirty \in BOOLEAN /\ alertsSaving \in Handler \cup {"none"}
    /\ patch \in [Handler -> [at : {"idle", "sent", "written", "refused", "ended"},
                            tab : Tab, says : Saying]]
    /\ alertsSaving # "none" => alertPage = "open"
    /\ loadedWell \in BOOLEAN /\ touched \subseteq Tab /\ crossed \in BOOLEAN

AlertsInit ==
    /\ mayManage \in BOOLEAN
    /\ alertRows = [t \in Tab |-> "absent"]
    /\ alertPage = "away" /\ brought = DefaultAlerts
    /\ alertTab = "company" /\ alertForms = ClientDefaults /\ alertsDirty = FALSE
    /\ alertsSaving = "none" /\ patch = [h \in Handler |-> NoPatch]
    /\ loadedWell = FALSE /\ touched = {} /\ crossed = FALSE

-----------------------------------------------------------------------------
\* The page is opened: it asks for the rows, and shows no form before it has an answer.
OpenAlerts ==
    /\ alertPage = "away" /\ (calm => PatchesRest)
    /\ alertPage' = "asked"
    /\ UNCHANGED <<mayManage, alertRows, brought, alertTab, alertForms, alertsDirty,
                   alertsSaving, patch, loadedWell, touched, crossed, calm>>

\* getNotificationSettings: rows that do not exist are created.
GetNotificationSettings ==
    /\ alertPage = "asked"
    /\ alertRows' = [t \in Tab |-> IF alertRows[t] = "absent" THEN DefaultAlerts[t]
                                  ELSE alertRows[t]]
    /\ brought' = alertRows'
    /\ alertPage' = "read"
    /\ UNCHANGED <<mayManage, alertTab, alertForms, alertsDirty, alertsSaving, patch,
                   loadedWell, touched, crossed, calm>>

\* The answer arrives, or none does: then the page goes on with what it began with, and
\* saves that as readily.
AlertsLoaded ==
    /\ \/ /\ alertPage = "read" /\ loadedWell' = TRUE
          /\ alertForms' = [t \in Tab |-> AsShown(brought[t])]
       \/ /\ alertPage \in {"asked", "read"} /\ loadedWell' = FALSE
          /\ UNCHANGED alertForms
    /\ alertPage' = "open" /\ brought' = DefaultAlerts
    /\ UNCHANGED <<mayManage, alertRows, alertTab, alertsDirty, alertsSaving, patch,
                   touched, crossed, calm>>

SelectTab ==
    /\ alertPage = "open"
    /\ \E t \in Tab \ {alertTab} : alertTab' = t
    /\ UNCHANGED <<mayManage, alertRows, alertPage, brought, alertForms, alertsDirty,
                   alertsSaving, patch, loadedWell, touched, crossed, calm>>

\* The form in front is changed or saved; the other one may have unsaved changes.
Crossing == crossed' = (crossed \/ ~(touched \subseteq {alertTab}))

\* A field of the form in front has a new value.
EditAlerts ==
    /\ calm => alertsSaving = "none"
    /\ alertForms' = [alertForms EXCEPT ![alertTab] = IF @ = "first" THEN "second" ELSE "first"]
    /\ alertsDirty' = TRUE
    /\ touched' = touched \cup {alertTab}
    /\ Crossing
    /\ UNCHANGED <<mayManage, alertRows, alertPage, brought, alertTab, alertsSaving, patch,
                   loadedWell, calm>>

\* The company's fields are closed to those who may not change them.
EditCompanyAlerts == alertPage = "open" /\ alertTab = "company" /\ mayManage /\ EditAlerts
EditMyAlerts      == alertPage = "open" /\ alertTab = "personal" /\ EditAlerts

\* The button, and handleSave up to its request.
SaveAlerts(h) ==
    /\ alertPage = "open" /\ alertsDirty /\ alertsSaving = "none"
    /\ alertTab = "company" => mayManage
    /\ MayTake(h, PatchSteps)
    /\ patch' = [patch EXCEPT ![h] = [at |-> "sent", tab |-> alertTab,
                                      says |-> alertForms[alertTab]]]
    /\ alertsSaving' = h
    /\ Crossing
    /\ UNCHANGED <<mayManage, alertRows, alertPage, brought, alertTab, alertForms,
                   alertsDirty, loadedWell, touched, calm>>

\* updateSettings of the company's row, or updateUserNotificationPreferences.
StoreAlerts(h) ==
    /\ patch[h].at = "sent"
    /\ alertRows' = [alertRows EXCEPT ![patch[h].tab] = patch[h].says]
    /\ patch' = [patch EXCEPT ![h].at = "written"]
    /\ UNCHANGED <<mayManage, alertPage, brought, alertTab, alertForms, alertsDirty,
                   alertsSaving, loadedWell, touched, crossed, calm>>

\* The server refuses: a role, the permission, a value the database does not take.
RefuseAlerts(h) ==
    /\ patch[h].at = "sent"
    /\ patch' = [patch EXCEPT ![h].at = "refused"]
    /\ UNCHANGED <<mayManage, alertRows, alertPage, brought, alertTab, alertForms,
                   alertsDirty, alertsSaving, loadedWell, touched, crossed, calm>>

\* The answer arrives.  A page that waits for it has nothing unsaved then, whatever the
\* other form says.
AlertsSaved(h) ==
    /\ patch[h].at = "written"
    /\ patch' = [patch EXCEPT ![h] = PatchEnded]
    /\ IF alertsSaving = h
       THEN /\ alertsDirty' = FALSE /\ alertsSaving' = "none"
            /\ touched' = touched \ {patch[h].tab}
            /\ crossed' = (crossed /\ touched' # {})
       ELSE UNCHANGED <<alertsDirty, alertsSaving, touched, crossed>>
    /\ UNCHANGED <<mayManage, alertRows, alertPage, brought, alertTab, alertForms,
                   loadedWell, calm>>

\* It was refused, or no answer comes.
AlertsNotSaved(h) ==
    /\ patch[h].at = "refused" \/ (MayBreak(h, PatchSteps) /\ patch[h].at # "ended")
    /\ patch' = [patch EXCEPT ![h] = PatchEnded]
    /\ alertsSaving' = IF alertsSaving = h THEN "none" ELSE alertsSaving
    /\ UNCHANGED <<mayManage, alertRows, alertPage, brought, alertTab, alertForms,
                   alertsDirty, loadedWell, touched, crossed, calm>>

\* The page is left, by a link or, with unsaved changes, after a question; what its forms
\* said is gone, and nobody waits for the answers to come.
LeaveAlerts ==
    /\ alertPage # "away" /\ (calm => PatchesRest)
    /\ alertPage' = "away" /\ brought' = DefaultAlerts
    /\ alertTab' = "company" /\ alertForms' = ClientDefaults /\ alertsDirty' = FALSE
    /\ alertsSaving' = "none"
    /\ loadedWell' = FALSE /\ touched' = {} /\ crossed' = FALSE
    /\ UNCHANGED <<mayManage, alertRows, patch, calm>>

-----------------------------------------------------------------------------
AlertsNext ==
    \/ OpenAlerts \/ GetNotificationSettings \/ AlertsLoaded \/ LeaveAlerts
    \/ SelectTab \/ EditCompanyAlerts \/ EditMyAlerts
    \/ \E h \in Handler :
        SaveAlerts(h) \/ StoreAlerts(h) \/ RefuseAlerts(h) \/ AlertsSaved(h) \/ AlertsNotSaved(h)

AlertsSpec == CalmInit /\ AlertsInit /\ [][AlertsNext]_<<alertVars, calm>>

-----------------------------------------------------------------------------
\* Where saves do not overlap with anything, on a page that was loaded: a form without
\* unsaved changes says what the server has, whichever tab was saved, refused or left
\* behind; and the page asks before it is left with unsaved changes, and only then, as
\* long as neither form was changed or saved over changes of the other.
AlertsSound ==
    calm /\ alertPage = "open" /\ loadedWell /\ PatchesRest =>
        /\ \A t \in Tab \ touched : alertForms[t] = AsShown(alertRows[t])
        /\ ~crossed => (alertsDirty <=> touched # {})

=============================================================================
