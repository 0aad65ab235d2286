------------------------- MODULE MC_DelayNormalizer --------------------------
(***************************************************************************)
(* Two frames, each logged or not by the driver, the server and the       *)
(* client, with times 1..2; no drift model, a pure offset, and a slope.   *)
(*                                                                         *)
(* Beside it, a direct caller of wvb_fix_client_clock_error               *)
(* (ClockCorrection, taken by INSTANCE with its variables renamed): one   *)
(* run's unified frame with a driver, a server and two client columns and *)
(* up to two rows.  Pose times around each other (0..2) make the minimum  *)
(* error negative, zero or positive; 0 is also the fill value of          *)
(* wvb_combine_frame_times.  The two share no state; so that the run      *)
(* explores about the sum of the two state spaces, each initial state     *)
(* gives one of them any of its inputs and the other an empty one.        *)
(***************************************************************************)
EXTENDS DelayNormalizer

VARIABLES
  cc_input, cc_df, cc_m, cc_c, cc_called   \* the direct correction call

ccvars  == <<cc_input, cc_df, cc_m, cc_c, cc_called>>
allvars == <<vars, ccvars>>

MCDriftArgs == {<<None, None>>, <<0, 1>>, <<2, -1>>}

MCColumns == {"present_called", "server_tracking_received", "tracking_sampled", "end_frame"}

MCRows ==
  [present_called : {3}, server_tracking_received : 0..2,
   tracking_sampled : 0..2, end_frame : {1, 2}]

MCFrames == { [columns |-> MCColumns, rows |-> rs] : rs \in BoundedSeq(MCRows, 2) }

MCFixDriftArgs == {<<None, None>>, <<1, 0>>, <<0, -1>>, <<2, 3>>}

Fix == INSTANCE ClockCorrection
         WITH input <- cc_input, df <- cc_df, m_arg <- cc_m, c_arg <- cc_c,
              called <- cc_called, Frames <- MCFrames, DriftArgs <- MCFixDriftArgs

NoFrameLogged ==
  DOMAIN ms.driver_frame = {} /\ ms.server_frame = {} /\ DOMAIN ms.client_frame = {}

MCInit == Init /\ Fix!Init /\ (NoFrameLogged \/ cc_input.rows = <<>>)

MCNext ==
  \/ Next /\ UNCHANGED ccvars
  \/ Fix!Next /\ UNCHANGED vars

MCSpec == MCInit /\ [][MCNext]_allvars

-----------------------------------------------------------------------------
(* The properties of ClockCorrection; those of DelayNormalizer are        *)
(* extended.                                                               *)

\* ClockCorrection's type invariant.
CorrectionTypeOK == Fix!TypeOK

\* Without a drift model the correction leaves no row with the client
\* sampling a pose after the server received it, and leaves a run that is
\* already in that order as it was.
ScalarCorrectionRestoresCausality == Fix!ScalarCorrectionRestoresCausality
====
