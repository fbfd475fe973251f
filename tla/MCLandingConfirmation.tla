------------------------ MODULE MCLandingConfirmation ------------------------
EXTENDS LandingConfirmation

YamlConfirmSamples == 3   \* landing.confirm_samples of config/mission.yaml

\* Room for a message on its way at Begin, a full count, one that breaks it,
\* and a count again after that or after a second Begin.
SampleBound == 2 * YamlConfirmSamples
=============================================================================
