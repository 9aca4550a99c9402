----------------------------- MODULE MCStartup ------------------------------
(* Startup with the request the driver really starts with: SD_BLOCK_DEVICE *)
(* (2), DEVICE_INIT (0), one byte of parameters, and its CRC-8.            *)
EXTENDS Startup

DeviceInitRequest == <<2, 0, 0, 1, 0, 175>>
=============================================================================
