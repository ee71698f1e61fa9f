------------------------------- MODULE UsbBus -------------------------------
(***************************************************************************)
(* The devices on the USB bus and libusb, as UsbSearch and UsbDevice see   *)
(* them.                                                                   *)
(***************************************************************************)
EXTENDS Naturals

CONSTANTS
  Devices,          \* devices that may be on the bus: records of a vendor, a
                    \* product, a serial number, a bus and a port, the port
                    \* as its path of numbers from the root of the bus
  Ftdi,             \* communication_libftdi::VENDOR_ID
  Any,              \* 0x0000, or the empty string
  Unread,           \* the empty string, which a string that could not be
                    \* read is replaced with
  NoDevice,         \* nullptr
  MaxHandles        \* bound on the device handles that are open at a time

ASSUME HandlesAssumption == MaxHandles \in Nat
ASSUME NoDeviceAssumption == NoDevice \notin Devices
=============================================================================
