---------------------------- MODULE MCDtmSamples ----------------------------
(* The three samples: a valid number and an invalid one for each setting.    *)
EXTENDS DtmSamples

MCPlatforms == {"zephyr", "esp", "ti"}
MCChannels == {0, 18, 19}
MCLengths == {0, 13, 14}
=============================================================================
